SPECIFICATION FairSpec
CONSTANTS
  t1 = t1
  t2 = t2
  Threads <- MCThreads
  Capacity = 2
  MaxMessages = 3
INVARIANTS EveryMessageOnce ShutdownFlushes
PROPERTIES AcceptedAreWritten ShutdownReturns
