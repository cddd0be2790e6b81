SPECIFICATION FairSpec
CONSTANTS
  worker = worker
  direct = direct
  wrapped = wrapped
  None = None
  Gone = Gone
  Workers = {worker}
  Users = {direct, wrapped}
  Direct = {direct}
  Brings <- MCBrings
  Prio <- MCPrio
  MaxEdits = 1
  MaxCrashes = 1
INVARIANTS
  Kept
  AsAsked
PROPERTIES
  AllReturn
CHECK_DEADLOCK FALSE
