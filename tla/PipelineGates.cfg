SPECIFICATION Spec
CONSTANTS
  None = None
  Confs <- AllConfs
  Kinds = {"fresh", "resume", "clean", "override", "revise"}
  MaxRetries = 1
  MaxWork = 2
  MaxEdits = 1
  MaxStarts = 3
  MaxCrashes = 1
  Faults = {"throw", "expire"}
CHECK_DEADLOCK FALSE
INVARIANTS TypeOK  BriefBound
PROPERTIES PendKept
