SPECIFICATION SpecBoth
CONSTANTS
  s1 = s1
  s2 = s2
  Senders <- TwoSessions
  ChannelCap = 2
  BatchLimit = 3
  AdminCap = 1
  InFlight = 2
  w = w
  p = p
  x = x
  e1 = e1
  e2 = e2
  e3 = e3
  NoEntry = NoEntry
  NoOne = NoOne
  Goroutines <- ThreeGoroutines
  Entries <- ThreeEntries
  NumKeys = 2
INVARIANTS BacklogBounded MutualExclusion EntriesReclaimed NoCircularWait
PROPERTIES ImplementsMailboxes TickRuns RoundsAreFair LockReturns ImplementsKeyLocks
