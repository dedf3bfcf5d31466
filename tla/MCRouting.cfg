CONSTANTS
  S = S
  T = T
  n1 = n1
  n2 = n2
  c1 = c1
  c2 = c2
  c3 = c3
  c4 = c4
  x = x
  y = y
  y2 = y2
  xy = xy
  Node = {n1, n2}
  ShardType = {S, T}
  TypeName <- Types
  Startup <- Orders
  Id = {x, y, y2, xy}
  Spelling <- Text
  Command = {c1, c2, c3, c4}
  TypeOf <- Told
  Reads <- Found
  AppName <- Names
  MaxRows <- Rows
  MaxNet = 1
  None = None
SPECIFICATION RoutingSpec
INVARIANTS RightActor ForeignMeansRefused OneReading
PROPERTY SweepExact
