SPECIFICATION FairSpec
CONSTANTS
  Port = {e1}
  LagId = {1}
  Name = {bond1}
  MaxActive = 1
  MaxLags <- MCMaxLags
  Schedule = {"any"}
  Addressed = {1}
  None = None
\* The link handler and the address update may wait for each other for ever.
CHECK_DEADLOCK FALSE
PROPERTY UpdatesNotified
