SPECIFICATION Spec
CONSTANTS
  MaxId <- MCMaxId
  Lo = {lo1}
  ip1 = ip1
  ip2 = ip2
  ip3 = ip3
  Ip = {ip1, ip2, ip3}
  Overlaps <- MCOverlaps
  p1 = p1
  q1 = q1
  Parent = {p1, q1}
  LinkedParent = {p1}
  SubCfg <- MCSubCfg
  Vtep = {vt1}
  Vni = {v1}
  LoClient = {c1}
  SubClient = {c2, c4}
  Editor = {c2}
  VtepClient = {c3}
  Boot = boot
  MaxDeath = 1
  NoName = NoName
  None = None
CHECK_DEADLOCK FALSE
INVARIANTS
  IfIndexUnique
  NamesResolve
  LoopbacksKept
