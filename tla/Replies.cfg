SPECIFICATION FairSpec
CONSTANTS
  Node = {1, 2}
  Client = {1}
  Host = {1, 2}
  Unsteady = {1, 2}
  Ask = {a1, a2}
  Capacity = 1
  MaxHops = 2
INVARIANTS OneAnswerer AnswersMatch OwedAnswer RowsEnd
PROPERTIES AskEnds
CHECK_DEADLOCK FALSE
