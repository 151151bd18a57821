SPECIFICATION Spec
CONSTANTS
  p1 = p1
  p2 = p2
  r1 = r1
  r2 = r2
  r3 = r3
  r4 = r4
  None = None
  Passwords <- TwoPasswords
  First = p1
  Requests <- Four
  MayCall <- WithChanges
  MaxAttempts = 2
  LockTime = 1
  StaleFirst = TRUE
  MfaEnabled = TRUE
  MaxTime = 2
SYMMETRY Symmetry
INVARIANTS ThresholdLocks
PROPERTIES  DeadPasswordsStayDead
CHECK_DEADLOCK FALSE
