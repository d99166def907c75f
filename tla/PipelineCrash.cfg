SPECIFICATION Spec
CONSTANTS
  None = None
  Confs <- PlainConfs
  Kinds = {"fresh", "resume"}
  MaxRetries = 1
  MaxWork = 2
  MaxEdits = 0
  MaxStarts = 2
  MaxCrashes = 1
  Faults = {}
CHECK_DEADLOCK FALSE
INVARIANTS PublishedJudged
