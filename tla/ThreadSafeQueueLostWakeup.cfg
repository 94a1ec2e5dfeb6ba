\* The producers and consumers of test_ThreadSafeQueue: as many pushes as pops.
SPECIFICATION ClientSpec
CONSTANTS
  t1 = t1
  t2 = t2
  t3 = t3
  v1 = v1
  v2 = v2
  n1 = n1
  n2 = n2
  n3 = n3
  NoValue = NoValue
  Null = Null
  NoThread = NoThread
  Pushers <- MCProducer
  WaitPoppers <- MCConsumer
  TryPoppers = {}
  Values <- MCValues
  Offers <- MCOneOffer
  Nodes <- MCNodes
  MaxCalls = 2
  MaxSpurious = 0
CHECK_DEADLOCK FALSE
PROPERTIES
  AllJoined
