SPECIFICATION FairSpec
CONSTANTS
  Hosts = {h1}
  NoHost = NoHost
  MaxEpochs = 3
  MaxChildren = 2
  MaxRetries = 1
  MaxRestarts = 1
  Telemetry = TRUE
  Faults = {"throw", "lost", "refuse", "launch", "stop"}
CHECK_DEADLOCK FALSE
PROPERTIES DecisionApplied
