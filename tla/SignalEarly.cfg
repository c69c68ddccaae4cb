CONSTANTS
  t1 = t1
  t2 = t2
  Scenes <- SignalledScene
  Objects = {o1, o2}
  Null = null
  Signals = {sigint, sigterm}
SPECIFICATION Spec
INVARIANT HandledOnceOnly
CHECK_DEADLOCK FALSE
