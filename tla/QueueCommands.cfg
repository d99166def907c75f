SPECIFICATION Spec
CONSTANTS
  a = a  b = b  c = c  NoTask = NoTask  p1 = p1  p2 = p2
  Tasks <- Free
  Deps <- FreeDeps
  Subtasks <- FreeSubtasks
  Priority <- FreePriority
  Slots = {p1, p2}
  MaxKicks = 1
  MaxTimers = 2
  MaxRetries = 1
  MaxCrashes = 0
  InitialConfig <- Base
  Configs <- OnlyBase
  Ops = {"enqueue", "start", "pause", "resume", "stop", "abort", "cancel", "retry"}
  Faults = {"stop_unconfirmed"}
  Outcomes = {"ok", "bad"}
  External = {}
  Contestable = {}
SYMMETRY PassSymmetry
INVARIANTS TypeOK GuardNeverUndercounts DispatchMutex
CHECK_DEADLOCK FALSE
