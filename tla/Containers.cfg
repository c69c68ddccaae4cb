\* Five slots wrap in every way, and are not a power of two; two values tell order from identity.
CONSTANTS
  Cap = 5
  Values = {a, b}
  Blank = blank
  WordMod = 256
  NegativeJumps = FALSE
  \* A header of one and of two bytes before and after a view of up to five.
  Bytes = {0, 1, 2}
  Chunks <- MCChunks
  MaxStore = 5
  Limit = 3
  Items = {a, b}
  NoItem = blank
  \* Five indices in a byte leave three stray bits; the last of the flags is beyond a long.
  Width = 8
  IntBits = 32
  Count = 5
  Given <- MCGiven
  Flags <- MCFlags
  Unnamed = "unnamed"
  LongBits = 3
  Members = {a, b}
  OffsetMod = 5
  MaxGroups = 3
  IndexMod = 8
  W = 3
  Capacity = 2
  Chars = {a, b}
  MaxForeign = 3
  Owners = {o1, o2}
  Resources = {r1, r2, r3}
  Gone = gone
  AssignOverHeld = FALSE
  Makers = {m1, m2}
  Names = {d1, d2, d3}
  Nowhere = nowhere
  Attempts = 2
  MoveOverHeld = FALSE
SPECIFICATION ContainersSpec
INVARIANTS
  NoGhosts AccessAgrees LoopMeetsElements  GroupsAsClosed LoopTakesRange
  NumbersAreRight TextsCompareAlone ReleasedInOrder OwnDirectoriesGo
PROPERTIES
  ImplementsWindow BytesAgree VectorAgrees
