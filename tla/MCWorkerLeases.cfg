\* The store alone: leases, expiry, reconciliation, legacy rows, a reservation.
CONSTANTS
  None = None
  o1 = o1
  o2 = o2
  w1 = w1
  w2 = w2
  w3 = w3
  l1 = l1
  l2 = l2
  r1 = r1
  r2 = r2
  c1 = c1
  c2 = c2
  c3 = c3
  c4 = c4
  c5 = c5
  main = main
  alias = alias
  lost = lost
  h1 = h1
  p = p
  q = q
  Owners = {o1, o2}
  Workers = {w1, w2}
  LeaseIds = {l1, l2}
  ReservationIds = {r1}
  Worktrees = {main, alias, lost}
  Paths = {p, q}
  Requests <- MCStoreRequests
  ProvisionTerms <- MCStoreTerms
  Observations <- MCObservations
  LegacyWorkers = {w1}
  LegacyOwners = {o1}
  HotspotOf <- MCHotspotOf
  MaxExtraWorkers = 1
  MaxTime = 3
  Calls = {}
  OwnerOf <- MCNothing
  RequestOf <- MCNothing
  ViaExpand = {}
  Policies = {}
  Pool = {}
  Facts = {}
  Faults = {}
SPECIFICATION StoreSpec
SYMMETRY MCStoreSymmetry
CHECK_DEADLOCK FALSE
INVARIANTS
  LeaseSafety
PROPERTIES
  LeaseHistory
