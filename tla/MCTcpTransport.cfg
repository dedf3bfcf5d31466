CONSTANTS
  a = a
  b = b
  m = m
  None = None
  Peer = {p}
  Call <- TwoAndOne
  Rpc <- Requests
  Kind <- Kinds
  Conn = {c1, c2}
  Capacity = 1
  MayCancel = {b, m}
SPECIFICATION FairSpec
INVARIANTS WaiterHeard EvictionHarmless CorpseGone
PROPERTIES ImplementsAtMostOnce CallEnds
CHECK_DEADLOCK FALSE
