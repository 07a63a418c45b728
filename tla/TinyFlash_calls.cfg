SPECIFICATION MCSpec
CONSTANTS
  Keys = {k1, k2}
  Vals <- MCVals
  ValLen <- MCValLen
  short = short
  long = long
  Cap = 12
  PageStarts = {8}
  BlankLen = 3
  NoRec = NoRec
  NoVal = NoVal
  Damaged = Damaged
  Modes = {"formats", "losses"}
INVARIANTS TypeOK LogReadable OneRecordPerKey
PROPERTIES ImplementsKV SurvivesPowerLoss WriteReturns
