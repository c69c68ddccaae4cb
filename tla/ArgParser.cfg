SPECIFICATION Spec
CONSTANTS
  Chains <- MCChains
  Words <- MCWords
  MaxWords = 4
  NoShort = NoShort
INVARIANTS
  LineAsRead
  ErrorsAreTrue
  LeavesTheRest
CHECK_DEADLOCK FALSE
