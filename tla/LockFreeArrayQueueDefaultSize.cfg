\* Three slots stand for the default 65535: one less than a power of two.
SPECIFICATION FairSpec
CONSTANTS
  t1 = t1
  t2 = t2
  t3 = t3
  v1 = v1
  v2 = v2
  NoValue = NoValue
  Threads <- MCThreads
  Values <- MCValues
  Offers <- MCOffers
  Size = 3
  MaxWrite = 2
CHECK_DEADLOCK FALSE
PROPERTIES
  CallsEnd
