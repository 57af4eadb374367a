SPECIFICATION FairSpec
CONSTANTS
  Ticks = {t1, t2}
  FairTicks = {t2}
  Manuals = {m}
  Targets = {"team", "agent"}
  NoSlot = NoSlot
  InitMaxRuns = {1, 2}
  Expiry = {NoSlot, 1}
  MaxTime = 1
  MaxRequests = 1
  MaxFaults = 1
  MaxStops = 2
INVARIANTS TypeOK RunningIsExecuting AdmissionsRecorded DrainedBeforeShutdown
PROPERTIES DueSlotFires 
CHECK_DEADLOCK FALSE
