CONSTANTS
  a = a
  b = b
  guilds = guilds
  Manifest = Manifest
  Commit = Commit
  AccountFiles <- Accounts
  OtherFiles <- Others
  Transactions <- Commits
  MaxCalls = 2
  MaxErrors = 1
  MaxCrashes = 1
SPECIFICATION Spec
CHECK_DEADLOCK FALSE
INVARIANT ConfirmedSurvives
