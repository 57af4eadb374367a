SPECIFICATION FairSpec
CONSTANTS
  Names = {urgent, later}
  Colors = {red}
  NoColor = NoColor
  JournalLimit = 2
  MaxChanges = 3
  MaxRefreshes = 1
  MaxDrops = 1
  MaxRestarts = 1
INVARIANTS NothingMissing StreamUnbroken
PROPERTIES EventuallyCaughtUp
CHECK_DEADLOCK FALSE
