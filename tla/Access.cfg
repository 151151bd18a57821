SPECIFICATION Spec
CONSTANTS
  r1 = r1
  r2 = r2
  admin = admin
  manage = manage
  Calls <- Two
  Roles <- One
  SuperRoles = {}
  SystemRoles = {}
  Codes = {manage}
  Wildcard = Wildcard
  Seeded = {}
  Routes <- Guarded
  CacheTtl = 2
  AccessTtl = 2
  Latency = 1
SYMMETRY Symmetry
INVARIANTS
  OpenedByWhatWasHeld
  TokensCatchUp
CHECK_DEADLOCK FALSE
