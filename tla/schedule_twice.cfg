SPECIFICATION Spec
CONSTANTS
  Ticks = {t1, t2}
  FairTicks = {}
  Manuals = {}
  Targets = {"team"}
  NoSlot = NoSlot
  InitMaxRuns = {1}
  Expiry = {NoSlot}
  MaxTime = 0
  MaxRequests = 0
  MaxFaults = 0
  MaxStops = 0
INVARIANTS MaxRunsKept
CHECK_DEADLOCK FALSE
