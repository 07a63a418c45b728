SPECIFICATION Spec
CONSTANTS
  Size = 4
  CleanAt = 3
  Config = 2
INVARIANTS TypeOK ResetIsComplete OneCount
PROPERTIES OnlyByGesture GestureResets
