SPECIFICATION UseCaseSpec
CONSTANTS
  q1 = q1
  q2 = q2
  q3 = q3
  q4 = q4
  q5 = q5
  Runs <- Five
  MayRun <- Mixed
  MaxFailures = 2
  LockFor = 1
  LastInstant = 2
SYMMETRY Symmetry
INVARIANTS FailuresCounted StuckExplained
PROPERTY OnlyStaleSavesUndo
CHECK_DEADLOCK FALSE
