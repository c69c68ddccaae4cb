CONSTANTS
  Threads = {t1}
  Handles = {h1, h2}
  MaxFd = 2
  StdinMayClose = TRUE
SPECIFICATION Spec
INVARIANT AcceptedNotZero
CHECK_DEADLOCK FALSE
