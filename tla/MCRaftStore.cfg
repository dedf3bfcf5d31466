CONSTANTS
  MaxIndex = 3
  MaxVote = 1
  Kind <- Kinds
  None = None
SPECIFICATION Spec
INVARIANTS NeverTorn CommittedKept AppliedAgreed PurgedIsCovered
PROPERTY ImplementsAtomicStore
