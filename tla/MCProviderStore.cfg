\* The configuration store of one provider, in the hands of arbitrary callers.
CONSTANTS
  None = None
  p1 = p1
  ref = ref
  u1 = u1
  u2 = u2
  x1 = x1
  x2 = x2
  k1 = k1
  k2 = k2
  a1 = a1
  a2 = a2
  b1 = b1
  e1 = e1
  c1 = c1
  c2 = c2
  c3 = c3
  c4 = c4
  ProviderIds = {p1}
  EndpointRefs = {ref}
  Urls = {u1, u2}
  Profiles <- MCStoreProfiles
  LegacyProfiles <- MCStartProfile
  Executions = {x1, x2}
  LegacyExecutions = {x1}
  Batches = {k1}
  AdmissionIds = {a1, a2}
  Ttls = {1}
  Probers = {b1}
  Editors = {e1}
  MaxGeneration = 3
  MaxTime = 1
  Calls = {}
  Plan <- MCNothing
  BatchOf <- MCNothing
  Elastic = {}
  Denied = {}
  Ttl = 1
  MaxAge = 1
SPECIFICATION StoreSpec
SYMMETRY MCStoreSymmetry
CHECK_DEADLOCK FALSE
INVARIANTS
  ProviderSafety
PROPERTIES
  ConfigurationHistory
