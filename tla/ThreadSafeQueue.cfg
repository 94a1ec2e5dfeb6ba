\* t1 pushes, t2 pushes and pops, t3 pops, each makes two calls.  Three addresses:
\* fewer than the pushes, so that freed nodes are allocated again.
SPECIFICATION FairSpec
CONSTANTS
  t1 = t1
  t2 = t2
  t3 = t3
  v1 = v1
  v2 = v2
  n1 = n1
  n2 = n2
  n3 = n3
  NoValue = NoValue
  Null = Null
  NoThread = NoThread
  Pushers <- MCPushers
  WaitPoppers <- MCWaitPoppers
  TryPoppers <- MCTryPoppers
  Values <- MCValues
  Offers <- MCOffers
  Nodes <- MCNodes
  MaxCalls = 2
  MaxSpurious = 1
CHECK_DEADLOCK FALSE
INVARIANTS
  ListShape
  OneOwner
  EndsApart
PROPERTIES
  ImplementsFifo
  CallsEnd
