SPECIFICATION FairSpec
CONSTANTS
  u1 = u1
  r1 = r1
  r2 = r2
  r3 = r3
  None = None
  Users <- OneUser
  Requests <- Three
  MayCall <- EveryHandler
  MayDisable <- OneUser
  AccessTtl = 2
  PlainTtl = FALSE
  FallbackTtl = 1
  SessionTtl = 1
  SharedStore = TRUE
  MaxTime = 2
INVARIANTS SignedOutAccessRejected SignedOutRowsRevoked ReplacedTokensAreUsed NoFalseAlarm
PROPERTIES DrainedIsFinal ImplementsIssuance RequestsTerminate
CHECK_DEADLOCK FALSE
