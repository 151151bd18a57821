SPECIFICATION AccountsSpec
CONSTANTS
  r1 = r1
  r2 = r2
  r3 = r3
  u1 = u1
  e1 = e1
  p1 = p1
  x1 = x1
  Absent = Absent
  Calls <- Three
  Residents <- OneResident
  Emails <- OneEmail
  Usernames <- Nothing
  Phones <- OnePhone
  Externals <- OneExternal
  Linkable = {"email_otp", "oauth"}
  MayAsk <- AnyOperation
SYMMETRY Symmetry
INVARIANTS CompleteAccounts MailedIdentitiesAgree MixedSessionsExplained ConflictsExplained
PROPERTY AttachedByProof
CHECK_DEADLOCK FALSE
