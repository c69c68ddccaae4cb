----------------------------- MODULE FdOwnership -----------------------------
(***************************************************************************)
(* Ownership of POSIX descriptors by the RAII handles of mpk::mix::wrap_c: *)
(* Fd (src/wrap_c/fd.cpp), Socket (src/wrap_c/socket.cpp) and the          *)
(* borrowing AttachedSocket.  The kernel hands out the lowest free number  *)
(* and reuses it as soon as it is closed, so a handle that keeps a number  *)
(* it no longer owns ends up closing, or reading, somebody else's file.    *)
(*                                                                         *)
(* Threads run one library call at a time.  A call that closes a           *)
(* descriptor takes two steps, the system call and the rest of the         *)
(* function, and other threads may be given the freed number in between.   *)
(* Two threads never use one handle at once (the classes are not           *)
(* synchronised): that is the callers' side of the contract, Busy below.   *)
(***************************************************************************)
EXTENDS Naturals

CONSTANTS
  Threads,        \* threads that call the library
  Handles,        \* storage for Fd and Socket objects
  MaxFd,          \* descriptor numbers are 0 .. MaxFd (RLIMIT_NOFILE)
  StdinMayClose   \* TRUE: the program may run with descriptor 0 closed

ASSUME FdAssumption ==
  /\ MaxFd \in Nat
  /\ StdinMayClose \in BOOLEAN

VARIABLES
  open,      \* the kernel's table: descriptor numbers in use
  outside,   \* open numbers the rest of the program has to close itself
  live,      \* handles that are constructed objects
  borrowed,  \* live handles that are AttachedSocket, which do not own
  fd,        \* fd[h]: the member fd_ (0 is "empty")
  call       \* call[t]: the library call thread t is in

vars == <<open, outside, live, borrowed, fd, call>>

Fds == 0 .. MaxFd
IsLowest(n, S) == n \in S /\ \A m \in S : n <= m

(***************************************************************************)
(* Where a call stands: "close" is before ::close(fd_), "finish" is after  *)
(* it (the kernel has freed the number, fd_ is still to be overwritten),   *)
(* "check" is accept() between taking the descriptor and decoding the peer *)
(* address.  `then` is what follows the close: return to the caller, end   *)
(* of the destructor, or the assignment of a moved-in or attached number.  *)
(***************************************************************************)
Call == [at : {"idle", "close", "finish", "check"},
         then : {"return", "die", "take", "store"},
         h : Handles, src : Handles, arg : Fds]

Idle(t) == call[t].at = "idle"
Busy(h) == \E t \in Threads :
             /\ ~Idle(t)
             /\ \/ call[t].h = h
                \/ call[t].then = "take" /\ call[t].src = h
InCall(n) == \E t \in Threads :
             /\ call[t].at \in {"close", "finish"}
             /\ call[t].then = "store" /\ call[t].arg = n
Lent(n) == \E b \in borrowed : fd[b] = n

Usable(h) == h \in live \ borrowed /\ ~Busy(h)
Unused(h) == h \notin live /\ ~Busy(h)
Return(t) == call' = [call EXCEPT ![t].at = "idle", ![t].then = "return"]

Empty(h) == fd[h] = 0

(***************************************************************************)
(* Every closing call opens with close(): an empty handle skips the system *)
(* call.  The caller keeps a lent descriptor alive while it is lent.       *)
(***************************************************************************)
BeginClose(t, h, then, src, arg) ==
  /\ Idle(t) /\ Usable(h) /\ ~Lent(fd[h])
  /\ call' = [call EXCEPT ![t] =
       [at |-> IF Empty(h) THEN "finish" ELSE "close",
        then |-> then, h |-> h, src |-> src, arg |-> arg]]
  /\ UNCHANGED <<open, outside, live, borrowed, fd>>

Close(t, h)   == BeginClose(t, h, "return", h, 0)
Destroy(t, h) == BeginClose(t, h, "die", h, 0)

\* Mutant: move assignment that overwrites fd_ without closing it.
MoveAssignNoClose(t, h, that) ==
  /\ h # that
  /\ Usable(that) /\ ~Lent(fd[that])
  /\ Idle(t) /\ Usable(h) /\ ~Lent(fd[h])
  /\ fd' = [fd EXCEPT ![h] = fd[that], ![that] = 0]
  /\ UNCHANGED <<open, outside, live, borrowed, call>>

MoveAssign(t, h, that) ==
  /\ h # that                     \* self-assignment returns at once
  /\ Usable(that) /\ ~Lent(fd[that])
  /\ BeginClose(t, h, "take", that, 0)

\* attach(n): 0 only closes; any other n is a number the caller owns.
Attach(t, h, n) ==
  /\ \/ n = 0
     \/ n \in outside /\ n # 0 /\ ~InCall(n) /\ ~Lent(n)
  /\ BeginClose(t, h, "store", h, n)

\* The close() system call frees the number whatever it returns; a failure
\* is logged and the call goes on.
CloseSyscall(t) ==
  /\ call[t].at = "close"
  /\ open' = open \ {fd[call[t].h]}
  /\ call' = [call EXCEPT ![t].at = "finish"]
  /\ UNCHANGED <<outside, live, borrowed, fd>>

\* Mutant: close() forgets fd_ = 0.
FinishCallKeepsFd(t) ==
  LET h == call[t].h
      n == call[t].arg
  IN /\ call[t].at = "finish"
     /\ fd' = CASE call[t].then = "take" ->
                     [fd EXCEPT ![h] = fd[call[t].src], ![call[t].src] = 0]
                [] call[t].then = "store" -> [fd EXCEPT ![h] = n]
                [] OTHER -> fd
     /\ outside' = IF call[t].then = "store" /\ n # 0
                     THEN outside \ {n} ELSE outside
     /\ live' = IF call[t].then = "die" THEN live \ {h} ELSE live
     /\ Return(t)
     /\ UNCHANGED <<open, borrowed>>

\* fd_ = 0, then the assignment that follows the close.
FinishCall(t) ==
  LET h == call[t].h
      then == call[t].then
      src == call[t].src
      n == call[t].arg
  IN /\ call[t].at = "finish"
     /\ fd' = CASE then = "take" -> [fd EXCEPT ![h] = fd[src], ![src] = 0]
                [] then = "store" -> [fd EXCEPT ![h] = n]
                [] OTHER -> [fd EXCEPT ![h] = 0]
     /\ outside' = IF then = "store" /\ n # 0 THEN outside \ {n} ELSE outside
     /\ live' = IF then = "die" THEN live \ {h} ELSE live
     /\ Return(t)
     /\ UNCHANGED <<open, borrowed>>

-----------------------------------------------------------------------------
(* Constructors.  A failing system call (no free number) throws and leaves *)
(* everything as it was: the step is simply not taken.                     *)

DefaultConstruct(t, h) ==
  /\ Idle(t) /\ Unused(h)
  /\ live' = live \union {h}
  /\ fd' = [fd EXCEPT ![h] = 0]
  /\ UNCHANGED <<open, outside, borrowed, call>>

\* Mutant: a move constructor that copies, leaving the source its number.
MoveConstructCopies(t, h, that) ==
  /\ Idle(t) /\ Unused(h) /\ Usable(that) /\ ~Lent(fd[that])
  /\ live' = live \union {h}
  /\ fd' = [fd EXCEPT ![h] = fd[that]]
  /\ UNCHANGED <<open, outside, borrowed, call>>

MoveConstruct(t, h, that) ==
  /\ Idle(t) /\ Unused(h) /\ Usable(that) /\ ~Lent(fd[that])
  /\ live' = live \union {h}
  /\ fd' = [fd EXCEPT ![h] = fd[that], ![that] = 0]
  /\ UNCHANGED <<open, outside, borrowed, call>>

\* Fd{Unsafe, n} and Socket{Unsafe, n}: the caller's number becomes owned.
Adopt(t, h, n) ==
  /\ Idle(t) /\ Unused(h)
  /\ n \in outside \ {0} /\ ~InCall(n) /\ ~Lent(n)
  /\ live' = live \union {h}
  /\ fd' = [fd EXCEPT ![h] = n]
  /\ outside' = outside \ {n}
  /\ UNCHANGED <<open, borrowed, call>>

\* A new descriptor wrapped in a new handle.
NewHandle(h, n) ==
  /\ Unused(h)
  /\ IsLowest(n, Fds \ open)
  /\ open' = open \union {n}
  /\ live' = live \union {h}
  /\ fd' = [fd EXCEPT ![h] = n]
  /\ UNCHANGED <<outside, borrowed>>

\* socket(), file()
OpenNew(t, h) ==
  /\ Idle(t)
  /\ \E n \in Fds : NewHandle(h, n)
  /\ UNCHANGED call

\* dup() of any live socket whose number is open, an empty one included:
\* that duplicates descriptor 0.
Dup(t, h, that) ==
  /\ Idle(t) /\ that \in live /\ ~Busy(that) /\ fd[that] \in open
  /\ \E n \in Fds : NewHandle(h, n)
  /\ UNCHANGED call

SocketPair(t, h, g) ==
  /\ Idle(t) /\ Unused(h) /\ Unused(g) /\ h # g
  /\ \E n, m \in Fds :
       /\ IsLowest(n, Fds \ open)
       /\ IsLowest(m, Fds \ (open \union {n}))
       /\ open' = open \union {n, m}
       /\ fd' = [fd EXCEPT ![h] = n, ![g] = m]
  /\ live' = live \union {h, g}
  /\ UNCHANGED <<outside, borrowed, call>>

\* accept(): the new descriptor is in a local handle before the peer
\* address is decoded, which may throw.
Accept(t, h, listener) ==
  /\ Idle(t) /\ listener \in live /\ ~Busy(listener)
  /\ ~Empty(listener) /\ fd[listener] \in open
  /\ \E n \in Fds : NewHandle(h, n)
  /\ call' = [call EXCEPT ![t] =
       [at |-> "check", then |-> "return", h |-> h, src |-> h, arg |-> 0]]

AcceptReturns(t) ==
  /\ call[t].at = "check"
  /\ Return(t)
  /\ UNCHANGED <<open, outside, live, borrowed, fd>>

\* addr_from_sockaddr_in throws: unwinding runs the local's destructor.
AcceptUnwinds(t) ==
  /\ call[t].at = "check"
  /\ call' = [call EXCEPT
       ![t].at = IF Empty(call[t].h) THEN "finish" ELSE "close",
       ![t].then = "die"]
  /\ UNCHANGED <<open, outside, live, borrowed, fd>>

-----------------------------------------------------------------------------
Detach(t, h) ==
  /\ Idle(t) /\ Usable(h) /\ ~Lent(fd[h])
  /\ outside' = IF Empty(h) THEN outside ELSE outside \union {fd[h]}
  /\ fd' = [fd EXCEPT ![h] = 0]
  /\ UNCHANGED <<open, live, borrowed, call>>

\* AttachedSocket{n} on a number that somebody else owns, and its end.
Borrow(t, h, n) ==
  /\ Idle(t) /\ Unused(h)
  /\ \/ n \in outside /\ ~InCall(n)
     \/ \E g \in live : Usable(g) /\ fd[g] = n
  /\ n # 0
  /\ live' = live \union {h}
  /\ borrowed' = borrowed \union {h}
  /\ fd' = [fd EXCEPT ![h] = n]
  /\ UNCHANGED <<open, outside, call>>

\* Mutant: ~AttachedSocket without the detach, so ~Socket closes the number.
EndBorrowCloses(t, h) ==
  /\ Idle(t) /\ h \in borrowed
  /\ open' = open \ {fd[h]}
  /\ live' = live \ {h}
  /\ borrowed' = borrowed \ {h}
  /\ fd' = [fd EXCEPT ![h] = 0]
  /\ UNCHANGED <<outside, call>>

\* Mutant: the storage stays marked as a borrower after its end.
EndBorrowStaysBorrowed(t, h) ==
  /\ Idle(t) /\ h \in borrowed
  /\ live' = live \ {h}
  /\ fd' = [fd EXCEPT ![h] = 0]
  /\ UNCHANGED <<open, outside, borrowed, call>>

EndBorrow(t, h) ==
  /\ Idle(t) /\ h \in borrowed
  /\ live' = live \ {h}
  /\ borrowed' = borrowed \ {h}
  /\ fd' = [fd EXCEPT ![h] = 0]
  /\ UNCHANGED <<open, outside, call>>

\* The rest of the program, which opens and closes files of its own.
OutsideOpen ==
  /\ \E n \in Fds :
       /\ IsLowest(n, Fds \ open)
       /\ open' = open \union {n}
       /\ outside' = outside \union {n}
  /\ UNCHANGED <<live, borrowed, fd, call>>

OutsideClose(n) ==
  /\ n \in outside /\ ~InCall(n) /\ ~Lent(n)
  /\ n # 0 \/ StdinMayClose
  /\ open' = open \ {n}
  /\ outside' = outside \ {n}
  /\ UNCHANGED <<live, borrowed, fd, call>>

Init ==
  /\ open \in SUBSET Fds
  /\ StdinMayClose \/ 0 \in open
  /\ outside = open
  /\ live = {} /\ borrowed = {}
  /\ fd = [h \in Handles |-> 0]
  /\ call \in [Threads -> {c \in Call : c.at = "idle" /\ c.then = "return"
                                       /\ c.src = c.h /\ c.arg = 0}]

CallStep(t) ==
  \/ CloseSyscall(t)
  \/ FinishCall(t)
  \/ AcceptReturns(t)
  \/ AcceptUnwinds(t)

ThreadStep(t) ==
  \/ CallStep(t)
  \/ \E h \in Handles :
       \/ DefaultConstruct(t, h) \/ OpenNew(t, h)
       \/ Close(t, h) \/ Destroy(t, h) \/ Detach(t, h) \/ EndBorrow(t, h)
       \/ \E n \in Fds : Attach(t, h, n) \/ Adopt(t, h, n) \/ Borrow(t, h, n)
       \/ \E g \in Handles :
            \/ MoveConstruct(t, h, g) \/ MoveAssign(t, h, g)
            \/ Dup(t, h, g) \/ Accept(t, h, g) \/ SocketPair(t, h, g)

Next ==
  \/ \E t \in Threads : ThreadStep(t)
  \/ OutsideOpen
  \/ \E n \in Fds : OutsideClose(n)

Spec == Init /\ [][Next]_vars

-----------------------------------------------------------------------------
(* Properties.                                                             *)

TypeOK ==
  /\ open \subseteq Fds
  /\ outside \subseteq Fds
  /\ borrowed \subseteq live /\ live \subseteq Handles
  /\ fd \in [Handles -> Fds]
  /\ call \in [Threads -> Call]

\* The number was freed by the first half of the call in progress on h.
Freed(h) == \E t \in Threads : call[t].at = "finish" /\ call[t].h = h

\* Handles that answer for a descriptor: their destructor will close it.
Owning == {h \in live \ borrowed : ~Empty(h) /\ ~Freed(h)}

\* Whoever holds a number can use it: fd_ of a non-empty Fd or Socket, and
\* every number the rest of the program was given by detach(), is open.
\* Violating it takes a close that forgets to reset the member.
HeldIsOpen ==
  /\ outside \subseteq open
  /\ \A h \in Owning : fd[h] \in open

\* No descriptor has two owners, so none is closed twice (fd.cpp:53-66,
\* socket.cpp:52-65): the second close would hit whatever other thread was
\* given the number meanwhile.
OneOwner ==
  /\ \A h, g \in Owning : fd[h] = fd[g] => h = g
  /\ \A h \in Owning : fd[h] \notin outside

\* No descriptor is lost: each open one still has an owner that will close
\* it, through moves, a throwing accept() and unwinding included.
NoLeak ==
  \A n \in open : n \in outside \/ \E h \in Owning : fd[h] = n

\* A lent number (AttachedSocket) is open as long as it is lent, and is not
\* closed by the borrower's end.
LentIsOpen == \A h \in borrowed : fd[h] \in open

\* Who may close a number and who may use it is settled at every moment, in
\* the middle of each call as well.
Ownership == TypeOK /\ HeldIsOpen /\ OneOwner /\ LentIsOpen

\* The assertion of accept() (socket.cpp:217, io.cpp:183): the number it got
\* is not 0.
AcceptedNotZero ==
  \A t \in Threads : call[t].at = "check" => fd[call[t].h] > 0
=============================================================================
