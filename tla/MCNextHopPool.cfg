SPECIFICATION PoolSpec
CONSTANTS
  NextHop = {n1, n2, n3}
  MaxRoutes = 1
  MaxGroupRoutes = 2
  MaxCounted = 1
SYMMETRY Symmetry
INVARIANTS
  CountsExact
  EntriesCounted
  GroupMembersInHw
PROPERTY RemovedOnlyUnused
