SPECIFICATION Spec
CONSTANTS
  DevNames = {d1}
  MeshNames = {n1}
  MeshPwds = {p1}
  Addrs = {a1}
  Ttls = {2, 9}
  DefaultName = n0
  DefaultPwd = p0
  OutOfMesh = nx
  MacAddr = a0
  None = None
  Damaged = Damaged
  Erased = Erased
  Garbled = Garbled
  Valid = Valid
INVARIANTS AdvNameIsName
