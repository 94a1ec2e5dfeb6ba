\* Three threads on two nodes: every node is reused, so that a late thread may
\* meet the stamps of the next lap.  Only t1 is sure to keep running: t2 and t3
\* may stop between any two accesses.
SPECIFICATION FairSpec
CONSTANTS
  t1 = t1
  t2 = t2
  t3 = t3
  v1 = v1
  v2 = v2
  NoValue = NoValue
  Threads <- MCThreads
  Values <- MCValues
  Offers <- MCOffers
  Live <- MCLive
  Capacity = 2
  MaxTail = 3
CHECK_DEADLOCK TRUE
INVARIANTS
  SlotExclusive
  ObjectLifetime
  DestructorExact
  SizeNeverWraps
PROPERTIES
  FailsForAReason
  ImplementsFifo
  NonBlocking
