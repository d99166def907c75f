SPECIFICATION FairSpec
CONSTANTS
  a = a  b = b  c = c  NoTask = NoTask  p1 = p1  p2 = p2
  Tasks <- Pair
  Deps <- PairDeps
  Subtasks <- PairSubtasks
  Priority <- PairPriority
  Slots = {p1, p2}
  MaxKicks = 2
  MaxTimers = 2
  MaxRetries = 0
  MaxCrashes = 0
  InitialConfig <- Base
  Configs <- OnlyBase
  Ops = {"enqueue", "start"}
  Faults = {"lag"}
  Outcomes = {"ok", "bad"}
  External = {}
  Contestable = {}
INVARIANTS LaneWatched ReadyDepsMet
PROPERTY EventuallySettles
CHECK_DEADLOCK FALSE
