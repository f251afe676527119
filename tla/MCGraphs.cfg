\* Task graphs, their schedules and runs, and orchestrated dispatches.
CONSTANTS
  None = None
  c1 = c1
  c2 = c2
  Parts = {"build", "globs", "batches", "races", "runs", "activations", "jobs", "orch", "again", "gated",
           "inspect", "audit", "submit"}
  Callers = {c1, c2}
  Definitions <- MCDefinitions
  Terms <- MCTerms
  Intents <- MCIntents
  Rows = {1}
  Schemas = {"FRESH", "V1", "V2_UNSTAMPED"}
  Faults = {"crash", "save", "job"}
  MaxEdits = 1
SPECIFICATION Spec
SYMMETRY GraphSymmetry
CHECK_DEADLOCK FALSE
INVARIANTS
  BuilderSafety
  ScheduleSafety
  RunsSafety
  OrchestrationSafety
  ParentSafety
PROPERTIES
  NoSecondChance
