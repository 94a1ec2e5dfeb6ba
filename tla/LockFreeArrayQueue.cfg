\* Three threads on two slots; the third index is of the second lap.
SPECIFICATION FairSpec
CONSTANTS
  t1 = t1
  t2 = t2
  t3 = t3
  v1 = v1
  v2 = v2
  NoValue = NoValue
  Threads <- MCThreads
  Values <- MCValues
  Offers <- MCOffers
  Size = 2
  MaxWrite = 3
CHECK_DEADLOCK FALSE
INVARIANTS
  SlotExclusive
  SpinsForAPeer
PROPERTIES
  FailsForAReason
  ImplementsFifo
  CallsEnd
