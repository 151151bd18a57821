SPECIFICATION Spec
CONSTANTS
  r1 = r1
  r2 = r2
  r3 = r3
  r4 = r4
  r5 = r5
  None = None
  Requests <- Five
  MayCall <- Lifecycle
SYMMETRY Symmetry
INVARIANTS EnabledHasCodes BatchesOverlapped
PROPERTIES SpentCodesStaySpent SettledSecretKept
CHECK_DEADLOCK FALSE
