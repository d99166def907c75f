SPECIFICATION Spec
CONSTANTS
  a = a  b = b  c = c  NoTask = NoTask  p1 = p1  p2 = p2
  Tasks <- Free
  Deps <- FreeDeps
  Subtasks <- FreeSubtasks
  Priority <- FreePriority
  Slots = {p1}
  MaxKicks = 1
  MaxTimers = 1
  MaxRetries = 0
  MaxCrashes = 0
  InitialConfig <- Base
  Configs <- Mixed
  Ops = {"enqueue", "start", "config", "remove", "outside"}
  Faults = {"fence", "start_throws"}
  Outcomes = {"changed", "awaiting"}
  External = {}
  Contestable = {}
INVARIANTS OutcomesDurable GuardNeverUndercounts
CHECK_DEADLOCK FALSE
