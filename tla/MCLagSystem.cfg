SPECIFICATION FairSpec
CONSTANTS
  Port = {e1, e2}
  LagId = {1, 2}
  Name = {bond1, bond2}
  MaxActive = 1
  MaxLags <- MCMaxLags
  Schedule = {"serial", "lag"}
  Addressed = {1}
  None = None
INVARIANTS
  MembersAgree
  CountsFollowLinks
\* The process may end.
CHECK_DEADLOCK FALSE
PROPERTY CallsReturn
