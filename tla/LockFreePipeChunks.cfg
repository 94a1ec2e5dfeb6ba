\* Chunks of two items, and memory for every chunk that three items ask for.
SPECIFICATION PortSpec
CONSTANTS
  v1 = v1
  v2 = v2
  k1 = k1
  k2 = k2
  k3 = k3
  k4 = k4
  NoValue = NoValue
  Null = Null
  Junk = Junk
  Values <- MCValues
  Chunks <- MCChunks
  N = 2
  MaxWrites = 2
  WeakFails = TRUE
CHECK_DEADLOCK FALSE
INVARIANTS
  ReadsOnlyItems
