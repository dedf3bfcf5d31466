SPECIFICATION Spec
CONSTANTS
  e1 = e1
  e2 = e2
  Event = {e1, e2}
  NoSnapshot = NoSnapshot
  NoView = NoView
  Instance = {i1, i2}
  Effect <- RaceEffects
  MaxSeq = 3
INVARIANT StateIsHistory
