SPECIFICATION Spec
CONSTANTS
  Page = 2
  Sector = 4
  Size = 8
  bit = bit
  Bits = {bit}
  Bufs <- MCBufs
  Owns <- MCOwns
INVARIANTS TypeOK FetchSafe CriticalSectionKept
PROPERTIES ImplementsNor
