SPECIFICATION Spec
CONSTANTS
  Port = {e1, e2}
  ClientVlan = {2}
  SysRsvdVlan = {4, 5}
  Handler = {h1, h2}
  Overlap = FALSE
  MaxIps = 2
  MaxMembers = 3
  None = None
SYMMETRY Symmetry
\* UpdateVlan may panic, which ends the process.
CHECK_DEADLOCK FALSE
INVARIANTS
  HwFollowsConfig
  PvidJustified
  SysVlansServePorts
  ActiveCountsExact
  IpOperSound
  TrapsFollowAdmin
