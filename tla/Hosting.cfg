CONSTANTS
  Peer = {p}
  IsLeader = TRUE
  Instance = {i1, i2}
  Sender = {s1, s2}
  Capacity = 1
  MaxPartitions = 1
  None = None
SPECIFICATION FairSpec
INVARIANTS FailsOnlyInGap DeliveredOnce
PROPERTIES TellEnds NodeStandsDown
CHECK_DEADLOCK FALSE
