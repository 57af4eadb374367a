SPECIFICATION FairSpec
CONSTANTS
  Names = {loop, advisor}
  Roots = {agents}
  Managed = {m1}
  MaxSaveAttempts = 2
  PartialCleanup = FALSE
  MaxCalls = 1
  MaxEdits = 2
  MaxFaults = 1
  MaxCrashes = 2
 
PROPERTIES SaveIsAtomic 
CHECK_DEADLOCK FALSE
