SPECIFICATION Spec
CONSTANTS
  Names = {urgent, later}
  Colors = {red}
  Workspaces = {w1}
  NoColor = NoColor
  LostAcks = {}
  StaleRefresh = TRUE
  WithOverlap = TRUE
  MaxCalls = 2
  MaxMutations = 1
  MaxFaults = 0
  MaxCrashes = 0
INVARIANTS AssignedIsDefined
CHECK_DEADLOCK FALSE
