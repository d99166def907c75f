SPECIFICATION Spec
CONSTANTS
  p1 = p1  p2 = p2  p3 = p3  NoToken = NoToken
  Procs = {p1, p2, p3}
  MaxTries = 1
  MaxCrashes = 1
SYMMETRY LockSymmetry
INVARIANTS TypeOK CleanExclusive Retirable
CHECK_DEADLOCK FALSE
