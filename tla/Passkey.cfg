SPECIFICATION PasskeySpec
CONSTANTS
  r1 = r1
  r2 = r2
  r3 = r3
  r4 = r4
  r5 = r5
  u1 = u1
  k1 = k1
  k2 = k2
  Nothing = Nothing
  Requests <- Five
  Users <- OneUser
  Creds <- TwoCreds
  OwnerOf <- TwoOwned
  Counting <- OneCred
  MaxCount = 2
  MayCall <- Ceremonies
SYMMETRY Symmetry
PROPERTIES ConsumedAsOneUse CounterBackRaced
CHECK_DEADLOCK FALSE
