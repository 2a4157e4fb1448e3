SPECIFICATION SpecBoth
CONSTANTS
  a = a
  b = b
  c = c
  x = x
  y = y
  guilds = guilds
  Players <- ThreePlayers
  Items <- TwoItems
  Coins <- OneCoin
  Worth <- Price
  Capacity = 1
  MaxGold = 1
  FirstItems <- Start
  FirstGold <- Purses
  NoTrade = NoTrade
  Places = 3
  MaxDoubts = 1
  DoubtCrowd <- Traders
  AccountFiles <- Accounts
  OtherFiles <- Others
  Manifest = Manifest
  Commit = Commit
  Transactions <- Commits
  MaxCalls = 3
  MaxErrors = 1
  MaxCrashes = 2
CHECK_DEADLOCK FALSE
INVARIANTS Conserved AllOrNothing OnlyDoubtfulReplaces AbortedLeavesNothing
PROPERTY OnlyAgreed
