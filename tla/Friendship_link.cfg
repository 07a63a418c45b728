SPECIFICATION FairSpec
CONSTANTS
  a = a
  m1 = m1
  first = first
  second = second
  Fn = {f1, f2}
  Lpn = {a}
  Msgs = {m1, g1}
  Dst <- MCDst
  Groups = {first, second}
  GroupList <- MCGroupList
  ReportMax = 1
  SlotMax = 1
  RetryMax = 2
  Restarts = 1
  None = None
INVARIANTS TypeOK NothingTwice GroupsKnown
PROPERTIES ForgottenIsReceived FindsFriend NothingKept
