SPECIFICATION Spec
CONSTANTS
  r1 = r1
  r2 = r2
  r3 = r3
  r4 = r4
  u1 = u1
  u2 = u2
  c1 = c1
  None = None
  Super = Super
  Default = Default
  Custom = Custom
  Users <- TwoUsers
  Admins <- OneAdmin
  Codes <- OneCode
  Requests <- Four
  MayCall <- AfterCreation
  MayName <- SuperAndCustom
SYMMETRY Symmetry
INVARIANTS CacheExplained OrphansExplained DuplicatesOverlapped
PROPERTY LastHolderRaced
CHECK_DEADLOCK FALSE
