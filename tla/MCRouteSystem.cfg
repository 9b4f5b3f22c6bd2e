SPECIFICATION MCSpec
CONSTANTS
  p1 = p1
  p2 = p2
  n1 = n1
  n2 = n2
  n3 = n3
  Prefix = {p1, p2}
  NextHop = {n1, n2, n3}
  Connected = {}
  Null = {}
  RouteOpCap = 1
  RouteCap = 2
  Plugins = {"sai", "linux"}
  MaxEcmpCnt = 0
INVARIANTS
  NoDanglingRoute
  RouteCountsExact
  RouteGroupsKnown
  AsicAgrees
  KeysMatchDb
  RouteCountExact
  KernelAgrees
PROPERTIES
  ImplementsFib
  HandlerReturns
