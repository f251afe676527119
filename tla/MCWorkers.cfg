\* Registry, transactions, connectors, new instances and worktrees.
CONSTANTS
  None = None
  Unknown = Unknown
  c1 = c1
  c2 = c2
  p1 = p1
  p2 = p2
  x1 = x1
  Centers = {"center"}
  Projects = {p1, p2}
  MaxWorker = 3
  Defaults = 2
  Trouble = {"save", "restart"}
  Parts = {"registry", "shared", "reload", "lifecycle", "ready", "recovery", "stopping", "script",
           "create", "serial", "classes", "moving"}
SPECIFICATION Spec
SYMMETRY WorkerSymmetry
CHECK_DEADLOCK FALSE
INVARIANTS
  RegistrySafety
  LifecycleSafety
  RecoverySafety
  CreationSafety
  WorktreeSafety
PROPERTIES
  WorkerSteps
