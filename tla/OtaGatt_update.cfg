SPECIFICATION FairSpec
CONSTANTS
  w = w
  Sectors = 3
  CellsOf = 1
  IdxMod = 5
  CacheSize = 1
  CacheMod = 3
  TermPolls = 2
  Crcs = {1}
  Sums = {2}
  HeadBits <- MCBits
  BodyBits <- MCBits
  FirstWord <- MCBits
INVARIANTS TypeOK RunsWholeImage StartsErased
PROPERTIES VerdictIsFinal FinishReboots
CHECK_DEADLOCK FALSE
