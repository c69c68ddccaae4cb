CONSTANTS
  t1 = t1
  t2 = t2
  Scenes <- MCScenes
  Objects = {o1, o2}
  Null = null
  Signals = {sigint, sigterm}
  Sites <- MCSites
  Errnos = {4, 11}
  path_given = path_given
  bad_ip_address = bad_ip_address
  Messages = {path_given, bad_ip_address}
  Nullptr = nullptr
  KeepErrno = TRUE
  c = c
  s = s
  Ends = {c, s}
  Dialogues <- MCDialogues
  \* Less than most buffers, so that they are cut.
  Room = 2
  Crashers = {u1, u2}
  Exceptions = {x1, x2}
  NoStack = nostack
  FatalSignals <- MCFatal
  Abort = "SIGABRT"
  \* A crash in the middle of another.
  MaxCrashes = 2
SPECIFICATION ProcessSpec
INVARIANTS HandlerFindsObject InstanceIsArmed FailuresAreTold StreamIsTrue TracesAreTrue
PROPERTIES SignalStops StreamsEnd CrashEnds
CHECK_DEADLOCK FALSE
