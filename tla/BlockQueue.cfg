\* Two threads can wait while the third enqueues or aborts.
SPECIFICATION FairSpec
CONSTANTS
  t1 = t1
  t2 = t2
  t3 = t3
  v1 = v1
  v2 = v2
  NoValue = NoValue
  Threads <- MCThreads
  Values <- MCValues
  MaxItems = 3
CHECK_DEADLOCK TRUE
INVARIANTS
  NoLostWakeup
  AbortReachesAll
PROPERTIES
  CodesMeanWhatTheySay
  ImplementsFifo
  DequeueReturns
