SPECIFICATION FairSpec
CONSTANTS
  Conns = {c1}
  BufferLimit = 1
  MaxData = 3
  MaxSends = 2
  MaxRetries = 1
  MaxFailures = 1
INVARIANTS SessionReceivesPrefix
PROPERTIES AttachedClientIsServed DataSocketsEnd
CHECK_DEADLOCK FALSE
