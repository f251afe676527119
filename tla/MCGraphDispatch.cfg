\* Two calls at a time for one node that two requests name, with an operator.
CONSTANTS
  None = None
  j1 = j1
  w1 = w1
  w2 = w2
  t1 = t1
  m1 = m1
  m2 = m2
  d1 = d1
  d2 = d2
  Jobs = {j1}
  Workers = {w1, w2}
  Terms = {t1}
  Budgets = {1, 2}
  Refs = {m1, m2}
  OtherRef = "other"
  MaxVersion = 9
  Callers = {d1, d2}
  Requests <- MCRequests
  Failures = {"NO_MUTATION", "PARTIAL_MUTATION"}
SYMMETRY Symmetry
SPECIFICATION DispatchSpec
CHECK_DEADLOCK FALSE
INVARIANTS
  JobsSafety
  DispatchSafety
PROPERTIES
  ClaimNeverPassesOn
  SafeAnswers
