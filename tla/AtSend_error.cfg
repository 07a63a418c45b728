SPECIFICATION Spec
CONSTANTS
  a = a
  b = b
  Nodes <- MCNodes
  MaxSends <- MCMaxSends
  SendsA = 1
  SendsB = 1
  MaxChunks <- MCMaxChunks
  ChunksA = 1
  ChunksB = 1
  SnoBase = {1}
  SnoMod = 32
  Group = Group
PROPERTIES AckedIsOk
CHECK_DEADLOCK FALSE
