SPECIFICATION FairSpec
CONSTANTS
  Names = {urgent, later}
  Colors = {red, sky}
  Workspaces = {w1, w2}
  NoColor = NoColor
  LostAcks = {"journal", "catalog", "records", "remove", "marker"}
  StaleRefresh = FALSE
  WithOverlap = FALSE
  MaxCalls = 2
  MaxMutations = 2
  MaxFaults = 2
  MaxCrashes = 1
INVARIANTS AssignedIsDefined RejectedHasNoEffect CachesAreDurable
PROPERTIES AtomicCommit RegistryFieldsKept RequestEnds PreparedIsDecided
CHECK_DEADLOCK FALSE
