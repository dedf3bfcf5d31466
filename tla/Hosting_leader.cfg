CONSTANTS
  Peer = {p, q}
  IsLeader = TRUE
  Instance = {i1}
  Sender = {}
  Capacity = 1
  MaxPartitions = 1
  None = None
SPECIFICATION FairSpec
PROPERTY LeaderStandsDown
CHECK_DEADLOCK FALSE
