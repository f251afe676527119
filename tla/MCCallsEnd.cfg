\* Calls of five components, until they have ended.
CONSTANTS
  None = None
  Execs = {e1}
  Attempts = {}
  Fingerprints = {"fp"}
  Pids = {"p1"}
  MaxVersion = 20
  Runners = {"r1"}
  Reconcilers = {"c1"}
  MaxCalls = 2
  MaxPolls = 2
  MaxUnknown = 1
  MaxMarks = 0
  e1 = e1
  e2 = e2
  a1 = a1
  t1 = t1
  t2 = t2
  c1 = c1
  c2 = c2
  d1 = d1
  d2 = d2
  p1 = p1
  ref = ref
  u1 = u1
  x1 = x1
  x2 = x2
  k1 = k1
  k2 = k2
  b1 = b1
  Parts = {"batch", "call", "leasing", "goal", "helper", "window"}
SPECIFICATION EndsSpec
CHECK_DEADLOCK FALSE
PROPERTIES
  CallsEnd
  CloseoutCompletes
  LeaseReturned
