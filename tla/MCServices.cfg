\* Hooks, sidecar, secrets, native files, sandboxes and repositories.
CONSTANTS
  None = None
  k1 = k1
  k2 = k2
  k3 = k3
  r1 = r1
  r2 = r2
  r3 = r3
  p1 = p1
  p2 = p2
  p3 = p3
  b1 = b1
  b2 = b2
  s1 = s1
  s2 = s2
  x = x
  up = up
  Parts = {"bus", "replay", "stm", "room", "relay", "serial", "bridge", "readers", "lanes", "secret",
           "native", "runs", "git"}
  Paths = {x, up}
  Outside = {up}
  Contents = {1, 2, 9}
  TooLarge = {9}
  Workers = {p1, p2, p3}
  Mutation = {p1, p2}
  MaxOps = 2
  MaxEdits = 1
  Runners = {b1, b2}
  MaxRuns = 3
  MaxTime = 3
  StaleAfter = 2
  SweepLimit = 1
  MayResist = TRUE
  Prompt = TRUE
SPECIFICATION Spec
SYMMETRY ServiceSymmetry
CHECK_DEADLOCK FALSE
INVARIANTS
  
  RelaySafety
  SecretSafety
  NativeSafety
  GitSafety
PROPERTIES
  ServiceSteps
