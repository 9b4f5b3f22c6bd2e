SPECIFICATION Spec
CONSTANTS
  Port = {e1}
  ClientVlan = {2}
  SysRsvdVlan = {4}
  Handler = {h1}
  Overlap = TRUE
  MaxIps = 0
  MaxMembers = 1
  None = None
\* UpdateVlan may panic, which ends the process.
CHECK_DEADLOCK FALSE
INVARIANT AdminDownOverrides
