SPECIFICATION ThrottlerSpec
CONSTANTS
  r1 = r1
  r2 = r2
  r3 = r3
  Requests <- Three
  Ttl = 2
  Limit = 1
  BlockFor = 2
  MaxTime = 5
SYMMETRY Symmetry
INVARIANTS WithinLimit RefusedForRate
CHECK_DEADLOCK FALSE
