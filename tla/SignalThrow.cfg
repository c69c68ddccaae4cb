CONSTANTS
  t1 = t1
  t2 = t2
  Scenes <- QuietScene
  Objects = {o1, o2}
  Null = null
  Signals = {sigint, sigterm}
SPECIFICATION Spec
INVARIANT RefusalIsTrue
CHECK_DEADLOCK FALSE
