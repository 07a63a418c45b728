SPECIFICATION MCSpec
CONSTANTS
  Keys = {k1, k2}
  Vals <- MCVals
  ValLen <- MCValLen
  short = short
  long = long
  Cap = 11
  PageStarts = {}
  BlankLen = 3
  NoRec = NoRec
  NoVal = NoVal
  Damaged = Damaged
  Modes = {"neither"}
PROPERTY WriteReturns
