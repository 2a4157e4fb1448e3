CONSTANTS
  a = a
  c = c
  Export = Export
  Barrier = Barrier
  NoJob = NoJob
  Accounts <- OneAccount
  CharStates <- OneState
  CriticalSets <- PlayerSave
  QueueCap = 1
  AccountBatch = 2
  StateBatch = 2
  MaxSeq = 4
  MaxCrashes = 1
SPECIFICATION FairSpec
INVARIANT BarrierDrains
INVARIANT CriticalDurable
PROPERTY NoStaleOverwrite
PROPERTY ExportNeverRegresses
PROPERTY ImplementsSnapshotStore
PROPERTY FlushReturns
PROPERTY SnapshotLands
CHECK_DEADLOCK FALSE
