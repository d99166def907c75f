SPECIFICATION Spec
CONSTANTS
  Callers = {p1, p2, p3, p4}
  Left = Left
  None = None
  MaxCrashes = 1
  Faults = {"timeout", "staging", "operation"}
SYMMETRY CallerSymmetry
INVARIANTS TypeOK HolderRecorded OneWriter LeftBehind
CHECK_DEADLOCK FALSE
