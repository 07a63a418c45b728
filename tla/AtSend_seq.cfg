SPECIFICATION FairSpec
CONSTANTS
  a = a
  b = b
  Nodes <- MCNodes
  MaxSends <- MCMaxSends
  SendsA = 2
  SendsB = 1
  MaxChunks <- MCMaxChunks
  ChunksA = 1
  ChunksB = 2
  SnoBase = {1}
  SnoMod = 8
  Group = Group
INVARIANTS TypeOK OkMeansDelivered
PROPERTIES SendAnswered
CHECK_DEADLOCK FALSE
