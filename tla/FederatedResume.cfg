SPECIFICATION Spec
CONSTANTS
  Hosts = {h1, h2}
  NoHost = NoHost
  MaxEpochs = 3
  MaxChildren = 3
  MaxRetries = 1
  MaxRestarts = 1
  Telemetry = TRUE
  Faults = {"throw", "lost", "launch", "stop"}
SYMMETRY JobSymmetry
CHECK_DEADLOCK FALSE
INVARIANTS TypeOK OneChild ResumedOnce SameSession
PROPERTIES EndStays
