CONSTANTS
  Wallets = {w1, w2}
  Programs = {p1, p2}
  Nodes = {n1, n2}
  Clusters = {c1, c2}
  Definitions = {d1}
  Operator = w1
  FinalizeOffset = 15
  BufferSize = 2
  HeapSize = 2
  PoolSize = 1
CONSTANTS
  Offsets <- MCOffsets
  Fee <- MCFee
  Chunks <- MCChunks
  Stakes <- MCStakes
  Topics <- MCTopics
SPECIFICATION Spec
CHECK_DEADLOCK FALSE
INVARIANTS
  TypeOK
  CheckedAsBuilt
  MxeIsWhole
  ClaimsAreWhole
  ReadersSeeQueue
  DearestIsRead
  DiscoveryIsSound

  
