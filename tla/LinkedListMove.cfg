CONSTANTS
  Items = {i1, i2}
  Roots = {r1, r2}
  MoveUnlinked = TRUE
  NoNode = none
SPECIFICATION WalkSpec
INVARIANT DoublyLinked
CHECK_DEADLOCK FALSE
