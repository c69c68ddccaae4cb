\* Three items (one visited, one current, one to come) and a second list to move to.
CONSTANTS
  Items = {i1, i2, i3}
  Roots = {r1, r2}
  MoveUnlinked = FALSE
  NoNode = none
SPECIFICATION WalkSpec
INVARIANTS DoublyLinked LoopFindsAll
PROPERTIES ImplementsLists WalkEnds
