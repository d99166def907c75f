SPECIFICATION Spec
CONSTANTS
  a = a  b = b  c = c  NoTask = NoTask  p1 = p1  p2 = p2
  Tasks <- Pair
  Deps <- PairDeps
  Subtasks <- PairSubtasks
  Priority <- PairPriority
  Slots = {p1}
  MaxKicks = 1
  MaxTimers = 1
  MaxRetries = 0
  MaxCrashes = 1
  InitialConfig <- Base
  Configs <- OnlyBase
  Ops = {"enqueue", "start", "decide", "resume"}
  Faults = {"enrich", "directory", "start_throws", "compact", "lag"}
  Outcomes = {"ok", "awaiting"}
  External = {}
  Contestable = {}
INVARIANTS OutcomesDurable GuardNeverUndercounts ReadyDepsMet LaneWatched
PROPERTY CompletedIsFinal
CHECK_DEADLOCK FALSE
