SPECIFICATION Spec
CONSTANTS
  s1 = s1
  s2 = s2
  a1 = a1
  a2 = a2
  Sessions <- TwoSessions
  Accounts <- TwoAccounts
  NoAccount = NoAccount
  NoSession = NoSession
  AuthSlots = 1
  ClientLimit = 2
  MailCap = 1
  MaxOps = 1
CHECK_DEADLOCK FALSE
INVARIANT ConfirmedSurvives
