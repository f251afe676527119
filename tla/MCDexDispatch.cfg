\* Three threads of two processes, one attempt under two claim generations.
CONSTANTS
  None = None
  e1 = e1
  a1 = a1
  w1 = w1
  w2 = w2
  t1 = t1
  t2 = t2
  t3 = t3
  Execs = {e1}
  Attempts = {a1}
  Fingerprints = {"fp"}
  Pids = {}
  MaxVersion = 1
  Wires = {w1, w2}
  Threads = {t1, t2, t3}
  WireOf <- MCWireOf
  Bindings <- MCBindings
  Views <- MCViews
  Results = {"r1"}
SYMMETRY Symmetry
SPECIFICATION DexSpec
CHECK_DEADLOCK FALSE
INVARIANT DexSafety
PROPERTY RefinesDispatchOnce
