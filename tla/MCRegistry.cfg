SPECIFICATION FairSpec
CONSTANTS
  Segment = {"p", "c"}
  Path <- Pair
  TopLevel <- Top
  Instance = {i1, i2}
  Caller = {k1}
  Nobody = Nobody
INVARIANTS Reachable RowsLeave NoOrphans StopReachesAll
PROPERTIES AskedEnds StopTerminates
CHECK_DEADLOCK FALSE
