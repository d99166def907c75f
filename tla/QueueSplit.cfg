SPECIFICATION Spec
CONSTANTS
  a = a  b = b  c = c  NoTask = NoTask  p1 = p1  p2 = p2
  Tasks <- Split
  Deps <- SplitDeps
  Subtasks <- SplitSubtasks
  Priority <- SplitPriority
  Slots = {p1}
  MaxKicks = 1
  MaxTimers = 1
  MaxRetries = 0
  MaxCrashes = 0
  InitialConfig <- Base
  Configs <- OnlyBase
  Ops = {"enqueue", "start"}
  Faults = {}
  Outcomes = {"ok"}
  External = {c}
  Contestable = {a}
INVARIANTS ReadyDepsMet StartedDepsMet
CHECK_DEADLOCK FALSE
