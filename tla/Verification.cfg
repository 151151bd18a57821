SPECIFICATION Spec
CONSTANTS
  r1 = r1
  r2 = r2
  r3 = r3
  r4 = r4
  r5 = r5
  None = None
  Requests <- Five
  MayCall <- SendOrVerify
  MaxAttempts = 2
  Life <- Lives
  MaxTime = 2
SYMMETRY Symmetry
INVARIANTS LimitRetires ConsumedForAReason ActiveTogetherOverlapped
PROPERTIES SpentIsFinal ExhaustedIsFinal
CHECK_DEADLOCK FALSE
