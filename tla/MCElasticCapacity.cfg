\* Two tries of one task and another task, over a store that may fail.
CONSTANTS
  None = None
  o1 = o1
  o2 = o2
  w1 = w1
  w2 = w2
  w3 = w3
  l1 = l1
  l2 = l2
  r1 = r1
  r2 = r2
  c1 = c1
  c2 = c2
  c3 = c3
  c4 = c4
  c5 = c5
  main = main
  alias = alias
  lost = lost
  h1 = h1
  p = p
  q = q
  Owners = {o1, o2}
  Workers = {w1, w2, w3}
  LeaseIds = {l1, l2}
  ReservationIds = {r1, r2}
  Worktrees = {main}
  Paths = {p}
  Requests <- MCElasticRequests
  ProvisionTerms <- MCTerms
  Observations = {}
  LegacyWorkers = {}
  LegacyOwners = {}
  HotspotOf <- MCHotspotOf
  MaxExtraWorkers = 1
  MaxTime = 0
  Calls = {c1, c2, c3, c4, c5}
  OwnerOf <- MCOwnerOf
  RequestOf <- MCRequestOf
  ViaExpand = {c3}
  Policies <- MCPolicies
  Pool = {w1}
  Facts <- MCFacts
  Faults = {c1, c2, c3}
SPECIFICATION CapacitySpec
SYMMETRY MCElasticSymmetry
CHECK_DEADLOCK FALSE
INVARIANTS
  ElasticSafety
