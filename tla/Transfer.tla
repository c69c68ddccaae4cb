------------------------------- MODULE Transfer -------------------------------
(***************************************************************************)
(* read_all, write_all and setblocking, which wrap_c has twice: as members *)
(* of Socket (socket.cpp) and as functions over Fd (io.cpp).  Two ends of  *)
(* a stream each make the calls of a script.  The kernel takes and gives   *)
(* as much as it likes; every error of a system call, EINTR and EAGAIN     *)
(* included, is thrown, and the end that throws or has made its last call  *)
(* closes its socket (its destructor).                                     *)
(***************************************************************************)
EXTENDS Integers, Sequences

CONSTANTS
  Ends,       \* the two ends
  Dialogues,  \* what the two ends do, see IsDialogue
  Room        \* bytes the kernel holds per direction

\* A call over n bytes; "mode" makes the descriptor blocking or not, n = 1 or 0.
Calls == [does : {"read", "write", "mode"}, n : Nat]

\* calls[e]: the calls of end e, in order; signals: whether handlers without
\* SA_RESTART interrupt the system calls.
IsDialogue(d) ==
  /\ d.signals \in BOOLEAN
  /\ d.calls \in [Ends -> Seq(Calls)]

ASSUME TransferAssumption ==
  /\ Room \in Nat \ {0}
  /\ \E a, b \in Ends : a # b /\ Ends = {a, b}
  /\ \A d \in Dialogues : IsDialogue(d)

VARIABLES
  dialogue,  \* the one of Dialogues the two ends have
  script,    \* script[e]: the calls still to make, the one e is in first
  done,      \* read_total or write_total of the call e is in
  past,      \* past[e]: bytes of e's calls that have returned, by kind
  wire,      \* wire[e]: what e has written and its peer has not read
  blocking,  \* ends whose descriptor blocks
  state,     \* "running", "finished" or "failed"; the last two have closed
  got,       \* got[e]: the buffers of e's reads, one after the other
  told       \* what e's exception says was transferred, <<>> if nothing

transferVars == <<dialogue, script, done, past, wire, blocking, state, got, told>>

Peer(e) == CHOOSE p \in Ends : p # e
Running(e) == state[e] = "running"
Doing(e, what) == Running(e) /\ script[e] # <<>> /\ Head(script[e]).does = what
Asked(e) == Head(script[e]).n
InMiddle(e, what) == Doing(e, what) /\ done[e] < Asked(e)
AtMost(a, b) == IF a < b THEN a ELSE b

\* buf.subspan: the next bytes of the caller's buffer.
NextBytes(e, k) == [i \in 1 .. k |-> past[e].write + done[e] + i]

\* Mutant: read_all passes the same buffer to every system call.
FilledSame(e, bytes) == SubSeq(got[e], 1, past[e].read) \o bytes

Filled(e, bytes) == SubSeq(got[e], 1, past[e].read + done[e]) \o bytes

Progress(e, k) == done' = [done EXCEPT ![e] = @ + k]

Throws(e, what) ==
  /\ state' = [state EXCEPT ![e] = "failed"]
  /\ told' = [told EXCEPT ![e] = what]
  /\ UNCHANGED <<script, done, past, wire, blocking, got>>

ReadSome(e) ==
  LET w == wire[Peer(e)]
  IN  /\ InMiddle(e, "read")
      /\ \E k \in 1 .. AtMost(Asked(e) - done[e], Len(w)) :
           /\ got' = [got EXCEPT ![e] = Filled(e, SubSeq(w, 1, k))]
           /\ wire' = [wire EXCEPT ![Peer(e)] = SubSeq(w, k + 1, Len(w))]
           /\ Progress(e, k)
      /\ UNCHANGED <<script, past, blocking, state, told>>

\* Mutant: no data yet is taken for the end of the file.
ReadEndEarly(e) ==
  /\ InMiddle(e, "read") /\ wire[Peer(e)] = <<>>
  /\ ~Running(Peer(e)) \/ e \notin blocking
  /\ Throws(e, <<done[e], Asked(e)>>)

\* Mutant: a read of nothing is tried again.
ReadEndRetries(e) ==
  /\ InMiddle(e, "read") /\ wire[Peer(e)] = <<>> /\ ~Running(Peer(e))
  /\ UNCHANGED <<script, done, past, wire, blocking, state, got, told>>

\* ::read returned 0.
ReadEnd(e) ==
  /\ InMiddle(e, "read") /\ wire[Peer(e)] = <<>> /\ ~Running(Peer(e))
  /\ Throws(e, <<done[e], Asked(e)>>)

\* EAGAIN, EINTR, and ECONNRESET after the peer closed over unread bytes.
ReadError(e) ==
  /\ InMiddle(e, "read")
  /\ \/ wire[Peer(e)] = <<>> /\ Running(Peer(e)) /\ (e \notin blocking \/ dialogue.signals)
     \/ ~Running(Peer(e)) /\ wire[e] # <<>>
  /\ Throws(e, <<>>)

\* Mutant: write_all counts one system call as the whole buffer.
WriteSomeOnce(e) ==
  /\ InMiddle(e, "write") /\ Running(Peer(e))
  /\ \E k \in 1 .. AtMost(Asked(e) - done[e], Room - Len(wire[e])) :
       wire' = [wire EXCEPT ![e] = @ \o NextBytes(e, k)] /\ Progress(e, Asked(e) - done[e])
  /\ UNCHANGED <<script, past, blocking, state, got, told>>

WriteSome(e) ==
  /\ InMiddle(e, "write") /\ Running(Peer(e))
  /\ \E k \in 1 .. AtMost(Asked(e) - done[e], Room - Len(wire[e])) :
       wire' = [wire EXCEPT ![e] = @ \o NextBytes(e, k)] /\ Progress(e, k)
  /\ UNCHANGED <<script, past, blocking, state, got, told>>

\* EAGAIN, EINTR, and EPIPE (with SIGPIPE ignored).  No write to a stream
\* returns 0 for bytes it was given, so that what the loop throws then is not here.
WriteError(e) ==
  /\ InMiddle(e, "write")
  /\ \/ ~Running(Peer(e))
     \/ Len(wire[e]) = Room /\ (e \notin blocking \/ dialogue.signals)
  /\ Throws(e, <<>>)

\* The loop is left: the whole buffer is transferred, or was empty.
Returns(e) ==
  /\ Doing(e, "read") \/ Doing(e, "write")
  /\ done[e] = Asked(e)
  /\ past' = [past EXCEPT ![e][Head(script[e]).does] = @ + Asked(e)]
  /\ script' = [script EXCEPT ![e] = Tail(@)]
  /\ done' = [done EXCEPT ![e] = 0]
  /\ UNCHANGED <<wire, blocking, state, got, told>>

SetBlocking(e) ==
  /\ Doing(e, "mode")
  /\ blocking' = IF Asked(e) = 1 THEN blocking \union {e} ELSE blocking \ {e}
  /\ script' = [script EXCEPT ![e] = Tail(@)]
  /\ UNCHANGED <<done, past, wire, state, got, told>>

Finish(e) ==
  /\ Running(e) /\ script[e] = <<>>
  /\ state' = [state EXCEPT ![e] = "finished"]
  /\ UNCHANGED <<script, done, past, wire, blocking, got, told>>

TransferInit ==
  /\ dialogue \in Dialogues
  /\ script = dialogue.calls
  /\ done = [e \in Ends |-> 0]
  /\ past = [e \in Ends |-> [read |-> 0, write |-> 0]]
  /\ wire = [e \in Ends |-> <<>>]
  /\ blocking = Ends
  /\ state = [e \in Ends |-> "running"]
  /\ got = [e \in Ends |-> <<>>]
  /\ told = [e \in Ends |-> <<>>]

EndStep(e) ==
  /\ UNCHANGED dialogue
  /\ \/ ReadSome(e) \/ ReadEnd(e) \/ ReadError(e) \/ WriteSome(e) \/ WriteError(e)
     \/ Returns(e) \/ SetBlocking(e) \/ Finish(e)

TransferNext == \E e \in Ends : EndStep(e)

\* Each end runs on while its calls do not block.
TransferSpec == TransferInit /\ [][TransferNext]_transferVars /\ \A e \in Ends : WF_transferVars(EndStep(e))
-----------------------------------------------------------------------------
(* Properties.                                                             *)

\* What an end believes to have transferred, in calls that returned and in
\* the one it is in (write_total, read_total).
Counted(e, what) == past[e][what] + IF script[e] # <<>> /\ Head(script[e]).does = what THEN done[e] ELSE 0

\* However the kernel cuts the buffers up, the bytes arrive in order, none
\* twice and none skipped, and both loops count those that did
\* (socket.cpp:133-169, io.cpp:83-121).
BytesInOrder ==
  \A e \in Ends :
    /\ got[Peer(e)] \o wire[e] = [i \in 1 .. Counted(e, "write") |-> i]
    /\ Len(got[e]) = Counted(e, "read")

\* "reached end of file" (socket.cpp:142, io.cpp:92) is said only when the
\* peer has closed and everything it wrote was read, and the two numbers are
\* those of the call.
EndOfFileIsTrue ==
  \A e \in Ends : told[e] # <<>> =>
    /\ ~Running(Peer(e)) /\ Len(got[e]) = Counted(Peer(e), "write")
    /\ told[e] = <<Len(got[e]) - past[e].read, Asked(e)>>

\* What an end is told of the stream is what became of it.
StreamIsTrue == BytesInOrder /\ EndOfFileIsTrue

\* An end that closes, by throwing from the middle of a call as well, frees
\* the other: it finishes or throws, and does not wait for ever.
HangUpFreesPeer ==
  \A e \in Ends : ~Running(e) ~> ~Running(Peer(e))

\* Each end reads what the other writes, call by call, and nobody interrupts.
Mirrored ==
  /\ ~dialogue.signals
  /\ \A e \in Ends :
       LET mine == dialogue.calls[e]
           theirs == dialogue.calls[Peer(e)]
       IN  /\ Len(mine) = Len(theirs)
           /\ \A i \in DOMAIN mine :
                mine[i].n = theirs[i].n /\ {mine[i].does, theirs[i].does} = {"read", "write"}

\* Such ends both come to the end of their scripts without an exception,
\* whatever the sizes are against the kernel's room.
MirroredFinish == Mirrored ~> \A e \in Ends : state[e] = "finished"

\* Nobody waits for ever, but for two ends that both wait.
StreamsEnd == HangUpFreesPeer /\ MirroredFinish
=============================================================================
