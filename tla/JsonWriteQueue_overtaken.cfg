CONSTANTS
  a = a
  b = b
  Barrier = Barrier
  NoJob = NoJob
  Keys <- TwoFiles
  SyncSets <- Saves
  QueueCap = 2
  MaxVersion = 3
  MaxCrashes = 1
SPECIFICATION Spec
PROPERTY NoStaleOverwrite
