\* Chunks of two items: the items span up to three chunks, and emptied chunks are
\* used again.
SPECIFICATION MCSpec
CONSTANTS
  v1 = v1
  v2 = v2
  k1 = k1
  k2 = k2
  k3 = k3
  NoValue = NoValue
  Null = Null
  Junk = Junk
  Values <- MCValues
  Chunks <- MCChunks
  N = 2
  MaxWrites = 5
CHECK_DEADLOCK FALSE
INVARIANTS
  TypeOK
  ChunksOwned
  AddressesInOrder
  SleeperIsCalled
PROPERTIES
  ImplementsPipe
  Delivered
