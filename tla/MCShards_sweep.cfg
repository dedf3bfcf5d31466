SPECIFICATION FairSpec
CONSTANTS
  Node = {1, 2, 3}
  Process = {1, 2}
  Shard <- TiedShard
  Score <- MCScore
  MaxId = 3
  None = None
  Sender = {1, 2}
  MaxAgreed = 3
INVARIANT Released
PROPERTY MinimalMoves
PROPERTY VacatedStops
CHECK_DEADLOCK FALSE
