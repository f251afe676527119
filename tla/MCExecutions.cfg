\* Supervised runs, reviews, the closeout of a goal, and ZCode's turns,
\* dispatches and adapter.
CONSTANTS
  None = None
  Execs = {e1, e2}
  Attempts = {}
  Fingerprints = {"fp"}
  Pids = {"p1"}
  MaxVersion = 20
  Runners = {"r1"}
  Reconcilers = {"c1"}
  MaxCalls = 2
  MaxPolls = 2
  MaxUnknown = 1
  MaxMarks = 1
  e1 = e1
  e2 = e2
  a1 = a1
  t1 = t1
  t2 = t2
  c1 = c1
  c2 = c2
  d1 = d1
  d2 = d2
  p1 = p1
  ref = ref
  u1 = u1
  x1 = x1
  x2 = x2
  k1 = k1
  k2 = k2
  b1 = b1
  Parts = {"run", "review", "overtaken", "replay", "closeout", "hostile", "turn", "dispatch", "adapter"}
SPECIFICATION Spec
SYMMETRY Symmetry
CHECK_DEADLOCK FALSE
INVARIANTS
  SupervisedSafety
  
  CloseoutSafety
  TurnSafety
  AuthorityLostLate
  CollectedIsReal
PROPERTY
  CollectedIsFinal
