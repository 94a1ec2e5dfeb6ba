\* Handles of two threads over a count with an object and one without; a timer
\* whose callbacks add and delete timers.
SPECIFICATION FairSpec
CONSTANTS
  t1 = t1
  t2 = t2
  h1 = h1
  h2 = h2
  h3 = h3
  h4 = h4
  b1 = b1
  b2 = b2
  Null = Null
  Raw = Raw
  Threads <- MCThreads
  Handles <- MCHandles
  Blocks <- MCBlocks
  MaxCount = 2
  Delays <- MCDelays
  MaxTimers = 3
  MaxLate = 4
CHECK_DEADLOCK FALSE
INVARIANTS
  CountsExact
  FiresInOrder
PROPERTIES
  ImplementsOwnership
  LastOwnerFrees
  TimersFire
