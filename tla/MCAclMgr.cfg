SPECIFICATION Spec
CONSTANTS
  Acl = {a1, a2}
  Rule = {r1, r2}
  Prefix = {}
  Content = {permit, deny, noMask}
  Refused = {noMask}
  MaxTable = 3
  MaxEntry = 3
  Client = {c1}
  Boot = boot
  Overlap = FALSE
  MaxAttach = 2
  None = None
SYMMETRY Symmetry
INVARIANTS
  RulesInHwKept
  ConfiguredInHw
  TablesReachable
PROPERTY UpdatesReachHw
