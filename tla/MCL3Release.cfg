SPECIFICATION L3Spec
CONSTANTS
  Prefix = {p1}
  NextHop = {n1, n2}
  Attached = {n1}
  MaxEcmpCnt = 0
  Connected = {}
  Null = {}
  RouteOpCap = 1
  RouteCap = 2
  Plugins = {"sai", "linux"}
  arpd = arpd
  Client = {arpd}
  Owner <- MCOwner
  Mac = {m1}
  Port = {e1}
  None = None
  MaxListed = 2
  MaxRef = 1
INVARIANT NoRefusedRemoval
CHECK_DEADLOCK FALSE
