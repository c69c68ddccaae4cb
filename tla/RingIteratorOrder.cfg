CONSTANTS
  Cap = 3
  Values = {a}
  Blank = blank
  WordMod = 256
  NegativeJumps = FALSE
SPECIFICATION ItSpec
INVARIANT OrderAgreesWithDistance
