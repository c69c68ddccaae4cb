\* Two threads, three handles, descriptors 0..3, of which 0 stays taken.
CONSTANTS
  Threads = {t1, t2}
  Handles = {h1, h2, h3}
  MaxFd = 3
  StdinMayClose = FALSE
  Sockets = {s1, s2}
  Hosts = {1}
  \* Ports of two base-4 digits: none, one whose bytes differ, one too large.
  Half = 4
  Ports = {0, 6, 17}
  Ephemeral = {9, 14}
  Texts <- MCTexts
  MaxQueued = 2
  MaxSent = 3
  AddrHolders = {a1, a2}
  Refused = refused
  EmptyText = ""
  Dotted <- MCDotted
  Resolved <- MCResolved
  Shown <- MCShown
SYMMETRY Symmetry
SPECIFICATION SocketsSpec
INVARIANTS Ownership NoLeak DatagramsAgree AnswersAsMade
CHECK_DEADLOCK FALSE
