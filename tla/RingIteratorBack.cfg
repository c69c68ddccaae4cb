CONSTANTS
  Cap = 3
  Values = {a}
  Blank = blank
  WordMod = 256
  NegativeJumps = TRUE
SPECIFICATION ItSpec
INVARIANT PointsAtPosition
