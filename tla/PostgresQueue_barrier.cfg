CONSTANTS
  a = a
  c = c
  Export = Export
  Barrier = Barrier
  NoJob = NoJob
  Accounts <- OneAccount
  CharStates <- OneState
  CriticalSets <- PlayerSave
  QueueCap = 1
  AccountBatch = 2
  StateBatch = 2
  MaxSeq = 4
  MaxCrashes = 0
SPECIFICATION Spec
CHECK_DEADLOCK FALSE
INVARIANT BarrierDrainsAll
