SPECIFICATION Spec
CONSTANTS
  Node = {1, 2}
  Sender = {1}
  Command = {c1, c2, c3}
  Window = 2
  Attempts = 2
  MaxRestarts = 1
  Ambiguous = {2}
SYMMETRY Commands
INVARIANT WindowHolds
INVARIANT FailureIsTrue
PROPERTY DropsOnlyRepeats
CHECK_DEADLOCK FALSE
