SPECIFICATION UseCaseSpec
CONSTANTS
  q1 = q1
  q2 = q2
  q3 = q3
  q4 = q4
  q5 = q5
  Runs <- Five
  MayRun <- Mixed
  MaxFailures = 1
  LockFor = 1
  LastInstant = 2
SYMMETRY Symmetry
INVARIANT UnverifiedRefused
CHECK_DEADLOCK FALSE
