\* Two calls of the batch executor on one provider, with time passing under them.
CONSTANTS
  None = None
  p1 = p1
  ref = ref
  u1 = u1
  u2 = u2
  x1 = x1
  x2 = x2
  k1 = k1
  k2 = k2
  a1 = a1
  a2 = a2
  b1 = b1
  e1 = e1
  c1 = c1
  c2 = c2
  c3 = c3
  c4 = c4
  ProviderIds = {p1}
  EndpointRefs = {ref}
  Urls = {u1}
  Profiles <- MCProfiles
  LegacyProfiles <- MCStartProfile
  Executions = {x1, x2}
  LegacyExecutions = {}
  Batches = {k1, k2}
  AdmissionIds = {a1, a2}
  Ttls = {1}
  Probers = {b1}
  Editors = {}
  MaxGeneration = 2
  MaxTime = 1
  Calls = {c1, c2, c3, c4}
  Plan <- MCPlan
  BatchOf <- MCBatchOf
  Elastic = {c2}
  Denied = {}
  Ttl = 1
  MaxAge = 1
SPECIFICATION CallsSpec
SYMMETRY MCBatchSymmetry
CHECK_DEADLOCK FALSE
INVARIANTS
  BatchSafety
