--------------------------- MODULE FdOwnershipProofs ---------------------------
(* Descriptor ownership is sound for any number of threads, handles and    *)
(* descriptors, as long as descriptor 0 stays taken.                       *)
EXTENDS FdOwnership, TLAPS

\* What makes the three ownership facts inductive.  A handle in a call is an
\* object that owns, no two calls meet on one handle, a descriptor about to
\* be closed or stored is nobody's loan, and 0 stays with the program.
CallOK(t) ==
  /\ call[t].h \in live \ borrowed
  /\ call[t].at \in {"close", "check"} => ~Empty(call[t].h)
  /\ call[t].at \in {"close", "check"} => ~Lent(fd[call[t].h])
  /\ call[t].then = "take" =>
       /\ call[t].src \in live \ borrowed
       /\ call[t].src # call[t].h
       /\ ~Lent(fd[call[t].src])
  /\ call[t].then = "store" =>
       /\ call[t].at # "check"
       /\ call[t].arg # 0 => call[t].arg \in outside /\ ~Lent(call[t].arg)

Apart(t, u) ==
  /\ call[t].h # call[u].h
  /\ call[t].then = "take" => call[t].src # call[u].h
  /\ call[t].then = "take" /\ call[u].then = "take" =>
       call[t].src # call[u].src
  /\ call[t].then = "store" /\ call[u].then = "store" /\ call[t].arg # 0 =>
       call[t].arg # call[u].arg

CallInv ==
  /\ 0 \in outside
  /\ \A t \in Threads : ~Idle(t) => CallOK(t)
  /\ \A t, u \in Threads : t # u /\ ~Idle(t) /\ ~Idle(u) => Apart(t, u)

\* Ownership is sound, and inductive.
IInv == TypeOK /\ HeldIsOpen /\ OneOwner /\ NoLeak /\ LentIsOpen /\ CallInv

-----------------------------------------------------------------------------
USE FdAssumption DEF Fds, Call, TypeOK

LEMMA InitInv ==
  ASSUME ~StdinMayClose, Init
  PROVE  IInv
BY DEF Init, IInv, HeldIsOpen, OneOwner, NoLeak, LentIsOpen, CallOK, Apart, CallInv,
       Owning, Freed, Empty, Idle, Lent

\* Leaving a call keeps the other fields of its record.
LEMMA ReturnTyped ==
  ASSUME TypeOK, NEW t \in Threads, Return(t)
  PROVE  /\ call' \in [Threads -> Call]
         /\ call'[t].at = "idle"
         /\ \A u \in Threads \ {t} : call'[u] = call[u]
<1>1. [call[t] EXCEPT !.at = "idle", !.then = "return"] \in Call
  OBVIOUS
<1>2. call' = [call EXCEPT ![t] =
                [call[t] EXCEPT !.at = "idle", !.then = "return"]]
  BY DEF Return
<1>3. QED  BY <1>1, <1>2

\* So does unwinding out of accept().
LEMMA UnwindTyped ==
  ASSUME TypeOK, NEW t \in Threads, AcceptUnwinds(t)
  PROVE  /\ call' \in [Threads -> Call]
         /\ call'[t].h = call[t].h /\ call'[t].then = "die"
         /\ call'[t].at \in {"finish", "close"}
         /\ call'[t].at = "close" <=> ~Empty(call[t].h)
         /\ \A u \in Threads \ {t} : call'[u] = call[u]
<1> DEFINE c == [call[t] EXCEPT !.at = IF Empty(call[t].h) THEN "finish" ELSE "close",
                                !.then = "die"]
<1>1. c \in Call /\ c.h = call[t].h /\ c.then = "die"
  BY DEF Empty
<1>2. c.at \in {"finish", "close"} /\ (c.at = "close" <=> ~Empty(call[t].h))
  BY DEF Empty
<1>3. call' = [call EXCEPT ![t] = c]
  BY DEF AcceptUnwinds
<1> HIDE DEF c
<1>4. QED  BY <1>1, <1>2, <1>3

LEMMA CloseSyscallInv ==
  ASSUME IInv, ~StdinMayClose, NEW t \in Threads, CloseSyscall(t)
  PROVE  IInv'
<1> USE DEF CloseSyscall, IInv, Idle, Empty, NewHandle, IsLowest, Unused, Usable, Busy, Return, InCall
<1>1. TypeOK'
  OBVIOUS
<1>2. CallInv'
  BY DEF CallOK, Apart, CallInv, Lent, OneOwner, Owning, Freed
<1>3. HeldIsOpen'
  BY DEF CallOK, Apart, CallInv, HeldIsOpen, Owning, Freed, OneOwner
<1>4. OneOwner'
  BY DEF CallOK, Apart, CallInv, HeldIsOpen, Owning, Freed, OneOwner
<1>5. NoLeak'
  BY DEF CallOK, Apart, CallInv, NoLeak, Owning, Freed, OneOwner
<1>6. LentIsOpen'
  BY DEF CallOK, Apart, CallInv, LentIsOpen, Lent, HeldIsOpen, Owning, Freed
<1>7. QED  BY <1>1, <1>2, <1>3, <1>4, <1>5, <1>6

LEMMA FinishCallInv ==
  ASSUME IInv, ~StdinMayClose, NEW t \in Threads, FinishCall(t)
  PROVE  IInv'
<1> USE DEF FinishCall, IInv, Idle, Empty, NewHandle, IsLowest, Unused, Usable, Busy, Return, InCall
<1>1. TypeOK'
  <2>1. call[t] \in Call
    OBVIOUS
  <2>2. fd' \in [Handles -> Fds]
    BY <2>1
  <2>3. outside' \subseteq Fds /\ live' \subseteq live /\ borrowed' = borrowed
    BY <2>1
  <2>4. borrowed' \subseteq live'
    BY <2>1, <2>3 DEF CallOK, Apart, CallInv
  <2>5. QED  BY <2>2, <2>3, <2>4, ReturnTyped
<1>2. CallInv'
  BY DEF CallOK, Apart, CallInv, Lent, OneOwner, Owning, Freed
<1>3. HeldIsOpen'
  <2>1. outside' \subseteq open'
    BY DEF HeldIsOpen
  <2>2. ASSUME NEW h \in Owning'  PROVE fd'[h] \in open'
    <3>1. CASE call[t].then = "take" /\ h = call[t].h
      <4>1. call[t].src \in live \ borrowed /\ fd[call[t].src] = fd'[h]
        BY <3>1 DEF CallOK, Apart, CallInv
      <4>2. ~Freed(call[t].src)
        BY <3>1 DEF CallOK, Apart, CallInv, Freed
      <4>3. fd'[h] # 0
        BY <2>2 DEF Owning
      <4>4. QED  BY <4>1, <4>2, <4>3 DEF HeldIsOpen, Owning
    <3>2. CASE call[t].then = "store" /\ h = call[t].h
      <4>1. fd'[h] = call[t].arg /\ fd'[h] # 0
        BY <2>2, <3>2 DEF CallOK, Apart, CallInv, Owning
      <4>2. QED  BY <3>2, <4>1 DEF CallOK, Apart, CallInv, HeldIsOpen
    <3>3. CASE call[t].then \notin {"take", "store"} /\ h = call[t].h
      <4>1. fd'[h] = 0
        BY <3>3 DEF CallOK, Apart, CallInv
      <4>2. QED  BY <2>2, <4>1 DEF Owning
    <3>4. CASE h # call[t].h
      <4>1. fd'[h] \in {0, fd[h]} /\ fd'[h] # 0
        BY <2>2, <3>4 DEF CallOK, Apart, CallInv, Owning
      <4>2. h \in live \ borrowed
        BY <2>2, <3>4 DEF Owning
      <4>3. ~Freed(h)
        <5>1. \A u \in Threads : call[u].at = "finish" /\ call[u].h = h => call'[u] = call[u]
          BY <3>4, ReturnTyped
        <5>2. QED  BY <2>2, <5>1 DEF Owning, Freed
      <4>4. QED  BY <4>1, <4>2, <4>3 DEF HeldIsOpen, Owning
    <3>5. QED  BY <3>1, <3>2, <3>3, <3>4
  <2>3. QED  BY <2>1, <2>2 DEF HeldIsOpen
<1>4. OneOwner'
  BY DEF CallOK, Apart, CallInv, HeldIsOpen, Owning, Freed, OneOwner
<1>5. NoLeak'
  BY DEF CallOK, Apart, CallInv, NoLeak, Owning, Freed, OneOwner
<1>6. LentIsOpen'
  BY DEF CallOK, Apart, CallInv, LentIsOpen, Lent, HeldIsOpen, Owning, Freed
<1>7. QED  BY <1>1, <1>2, <1>3, <1>4, <1>5, <1>6

LEMMA DefaultConstructInv ==
  ASSUME IInv, ~StdinMayClose, NEW t \in Threads, NEW h \in Handles, DefaultConstruct(t, h)
  PROVE  IInv'
<1> USE DEF DefaultConstruct, IInv, Idle, Empty, NewHandle, IsLowest, Unused, Usable, Busy, Return, InCall
<1>1. TypeOK'
  OBVIOUS
<1>2. CallInv'
  BY DEF CallOK, Apart, CallInv, Lent, OneOwner, Owning, Freed
<1>3. HeldIsOpen'
  BY DEF CallOK, Apart, CallInv, HeldIsOpen, Owning, Freed, OneOwner
<1>4. OneOwner'
  BY DEF CallOK, Apart, CallInv, HeldIsOpen, Owning, Freed, OneOwner
<1>5. NoLeak'
  BY DEF CallOK, Apart, CallInv, NoLeak, Owning, Freed, OneOwner
<1>6. LentIsOpen'
  BY DEF CallOK, Apart, CallInv, LentIsOpen, Lent, HeldIsOpen, Owning, Freed
<1>7. QED  BY <1>1, <1>2, <1>3, <1>4, <1>5, <1>6

LEMMA MoveConstructInv ==
  ASSUME IInv, ~StdinMayClose, NEW t \in Threads, NEW h \in Handles, NEW g \in Handles, MoveConstruct(t, h, g)
  PROVE  IInv'
<1> USE DEF MoveConstruct, IInv, Idle, Empty, NewHandle, IsLowest, Unused, Usable, Busy, Return, InCall
<1>1. TypeOK'
  <2>1. 0 \in Fds /\ fd[g] \in Fds
    OBVIOUS
  <2>2. fd' \in [Handles -> Fds]
    BY <2>1
  <2>3. borrowed' \subseteq live' /\ live' \subseteq Handles
    OBVIOUS
  <2>4. QED  BY <2>2, <2>3
<1>2. CallInv'
  BY DEF CallOK, Apart, CallInv, Lent, OneOwner, Owning, Freed
<1>3. HeldIsOpen'
  BY DEF CallOK, Apart, CallInv, HeldIsOpen, Owning, Freed, OneOwner
<1>4. OneOwner'
  BY DEF CallOK, Apart, CallInv, HeldIsOpen, Owning, Freed, OneOwner
<1>5. NoLeak'
  BY DEF CallOK, Apart, CallInv, NoLeak, Owning, Freed, OneOwner
<1>6. LentIsOpen'
  BY DEF CallOK, Apart, CallInv, LentIsOpen, Lent, HeldIsOpen, Owning, Freed
<1>7. QED  BY <1>1, <1>2, <1>3, <1>4, <1>5, <1>6

LEMMA AdoptInv ==
  ASSUME IInv, ~StdinMayClose, NEW t \in Threads, NEW h \in Handles, NEW n \in Fds, Adopt(t, h, n)
  PROVE  IInv'
<1> USE DEF Adopt, IInv, Idle, Empty, NewHandle, IsLowest, Unused, Usable, Busy, Return, InCall
<1>1. TypeOK'
  OBVIOUS
<1>2. CallInv'
  BY DEF CallOK, Apart, CallInv, Lent, OneOwner, Owning, Freed
<1>3. HeldIsOpen'
  BY DEF CallOK, Apart, CallInv, HeldIsOpen, Owning, Freed, OneOwner
<1>4. OneOwner'
  BY DEF CallOK, Apart, CallInv, HeldIsOpen, Owning, Freed, OneOwner
<1>5. NoLeak'
  BY DEF CallOK, Apart, CallInv, NoLeak, Owning, Freed, OneOwner
<1>6. LentIsOpen'
  BY DEF CallOK, Apart, CallInv, LentIsOpen, Lent, HeldIsOpen, Owning, Freed
<1>7. QED  BY <1>1, <1>2, <1>3, <1>4, <1>5, <1>6

LEMMA OpenNewInv ==
  ASSUME IInv, ~StdinMayClose, NEW t \in Threads, NEW h \in Handles, OpenNew(t, h)
  PROVE  IInv'
<1> USE DEF OpenNew, IInv, Idle, Empty, NewHandle, IsLowest, Unused, Usable, Busy, Return, InCall
<1>1. TypeOK'
  OBVIOUS
<1>2. CallInv'
  BY DEF CallOK, Apart, CallInv, Lent, OneOwner, Owning, Freed
<1>3. HeldIsOpen'
  BY DEF CallOK, Apart, CallInv, HeldIsOpen, Owning, Freed, OneOwner
<1>4. OneOwner'
  BY DEF CallOK, Apart, CallInv, HeldIsOpen, Owning, Freed, OneOwner
<1>5. NoLeak'
  <2> PICK n \in Fds : n \notin open /\ open' = open \union {n} /\ fd' = [fd EXCEPT ![h] = n]
    OBVIOUS
  <2>1. h \in Owning' /\ fd'[h] = n
    BY DEF CallOK, Apart, CallInv, HeldIsOpen, Owning, Freed
  <2>2. \A k \in Owning : k # h /\ k \in Owning' /\ fd'[k] = fd[k]
    BY DEF Owning, Freed
  <2>3. QED  BY <2>1, <2>2 DEF NoLeak
<1>6. LentIsOpen'
  BY DEF CallOK, Apart, CallInv, LentIsOpen, Lent, HeldIsOpen, Owning, Freed
<1>7. QED  BY <1>1, <1>2, <1>3, <1>4, <1>5, <1>6

LEMMA DupInv ==
  ASSUME IInv, ~StdinMayClose, NEW t \in Threads, NEW h \in Handles, NEW g \in Handles, Dup(t, h, g)
  PROVE  IInv'
<1> USE DEF Dup, IInv, Idle, Empty, NewHandle, IsLowest, Unused, Usable, Busy, Return, InCall
<1>1. TypeOK'
  OBVIOUS
<1>2. CallInv'
  BY DEF CallOK, Apart, CallInv, Lent, OneOwner, Owning, Freed
<1>3. HeldIsOpen'
  BY DEF CallOK, Apart, CallInv, HeldIsOpen, Owning, Freed, OneOwner
<1>4. OneOwner'
  BY DEF CallOK, Apart, CallInv, HeldIsOpen, Owning, Freed, OneOwner
<1>5. NoLeak'
  <2> PICK n \in Fds : n \notin open /\ open' = open \union {n} /\ fd' = [fd EXCEPT ![h] = n]
    OBVIOUS
  <2>1. h \in Owning' /\ fd'[h] = n
    BY DEF CallOK, Apart, CallInv, HeldIsOpen, Owning, Freed
  <2>2. \A k \in Owning : k # h /\ k \in Owning' /\ fd'[k] = fd[k]
    BY DEF Owning, Freed
  <2>3. QED  BY <2>1, <2>2 DEF NoLeak
<1>6. LentIsOpen'
  BY DEF CallOK, Apart, CallInv, LentIsOpen, Lent, HeldIsOpen, Owning, Freed
<1>7. QED  BY <1>1, <1>2, <1>3, <1>4, <1>5, <1>6

LEMMA SocketPairInv ==
  ASSUME IInv, ~StdinMayClose, NEW t \in Threads, NEW h \in Handles, NEW g \in Handles, SocketPair(t, h, g)
  PROVE  IInv'
<1> USE DEF SocketPair, IInv, Idle, Empty, NewHandle, IsLowest, Unused, Usable, Busy, Return, InCall
<1>1. TypeOK'
  OBVIOUS
<1>2. CallInv'
  BY DEF CallOK, Apart, CallInv, Lent, OneOwner, Owning, Freed
<1>3. HeldIsOpen'
  BY DEF CallOK, Apart, CallInv, HeldIsOpen, Owning, Freed, OneOwner
<1>4. OneOwner'
  BY DEF CallOK, Apart, CallInv, HeldIsOpen, Owning, Freed, OneOwner
<1>5. NoLeak'
  <2> PICK n \in Fds, m \in Fds :
        /\ n \notin open /\ m \notin open
        /\ open' = open \union {n, m} /\ fd' = [fd EXCEPT ![h] = n, ![g] = m]
    OBVIOUS
  <2>1. h \in Owning' /\ fd'[h] = n /\ g \in Owning' /\ fd'[g] = m
    BY DEF CallOK, Apart, CallInv, HeldIsOpen, Owning, Freed
  <2>2. ASSUME NEW k \in Owning  PROVE k \in Owning' /\ fd'[k] = fd[k]
    <3>1. k # h /\ k # g /\ fd'[k] = fd[k]
      BY DEF Owning
    <3>2. k \in live /\ k \notin borrowed /\ fd[k] # 0 /\ ~Freed(k)
      BY DEF Owning
    <3>3. k \in live' /\ k \notin borrowed' /\ call' = call
      BY <3>2
    <3>4. ~Freed(k)'
      BY <3>2, <3>3 DEF Freed
    <3>5. QED  BY <3>1, <3>2, <3>3, <3>4 DEF Owning, Freed
  <2>3. SUFFICES ASSUME NEW p \in open'
                 PROVE  p \in outside' \/ \E k \in Owning' : fd'[k] = p
    BY DEF NoLeak
  <2>4. CASE p \in {n, m}
    BY <2>1, <2>4
  <2>5. CASE p \in open
    <3>1. p \in outside \/ \E k \in Owning : fd[k] = p
      BY <2>5 DEF NoLeak
    <3>2. outside' = outside
      OBVIOUS
    <3>3. QED  BY <2>2, <3>1, <3>2
  <2>6. QED  BY <2>4, <2>5
<1>6. LentIsOpen'
  BY DEF CallOK, Apart, CallInv, LentIsOpen, Lent, HeldIsOpen, Owning, Freed
<1>7. QED  BY <1>1, <1>2, <1>3, <1>4, <1>5, <1>6

LEMMA AcceptInv ==
  ASSUME IInv, ~StdinMayClose, NEW t \in Threads, NEW h \in Handles, NEW g \in Handles, Accept(t, h, g)
  PROVE  IInv'
<1> USE DEF Accept, IInv, Idle, Empty, NewHandle, IsLowest, Unused, Usable, Busy, Return, InCall
<1>1. TypeOK'
  OBVIOUS
<1>2. CallInv'
  BY DEF CallOK, Apart, CallInv, Lent, HeldIsOpen, LentIsOpen, Owning, Freed
<1>3. HeldIsOpen'
  BY DEF CallOK, Apart, CallInv, HeldIsOpen, Owning, Freed, OneOwner
<1>4. OneOwner'
  BY DEF CallOK, Apart, CallInv, HeldIsOpen, Owning, Freed, OneOwner
<1>5. NoLeak'
  <2> PICK n \in Fds : n \notin open /\ open' = open \union {n} /\ fd' = [fd EXCEPT ![h] = n]
    OBVIOUS
  <2>1. h \in Owning' /\ fd'[h] = n
    BY DEF CallOK, Apart, CallInv, HeldIsOpen, Owning, Freed
  <2>2. \A k \in Owning : k # h /\ k \in Owning' /\ fd'[k] = fd[k]
    BY DEF Owning, Freed
  <2>3. QED  BY <2>1, <2>2 DEF NoLeak
<1>6. LentIsOpen'
  BY DEF CallOK, Apart, CallInv, LentIsOpen, Lent, HeldIsOpen, Owning, Freed
<1>7. QED  BY <1>1, <1>2, <1>3, <1>4, <1>5, <1>6

LEMMA AcceptReturnsInv ==
  ASSUME IInv, ~StdinMayClose, NEW t \in Threads, AcceptReturns(t)
  PROVE  IInv'
<1> USE DEF AcceptReturns, IInv, Idle, Empty, NewHandle, IsLowest, Unused, Usable, Busy, Return, InCall
<1>1. TypeOK'
  BY ReturnTyped
<1>2. CallInv'
  BY DEF CallOK, Apart, CallInv, Lent, OneOwner, Owning, Freed
<1>3. ASSUME NEW h \in Handles  PROVE Freed(h)' <=> Freed(h)
  BY DEF Freed
<1>4. Owning' = Owning /\ fd' = fd /\ open' = open /\ outside' = outside /\ borrowed' = borrowed
  BY <1>3 DEF Owning
<1>5. HeldIsOpen'
  BY <1>4 DEF HeldIsOpen
<1>6. OneOwner'
  BY <1>4 DEF OneOwner
<1>7. NoLeak'
  BY <1>4 DEF NoLeak
<1>8. LentIsOpen'
  BY <1>4 DEF LentIsOpen
<1>9. QED  BY <1>1, <1>2, <1>5, <1>6, <1>7, <1>8

LEMMA AcceptUnwindsInv ==
  ASSUME IInv, ~StdinMayClose, NEW t \in Threads, AcceptUnwinds(t)
  PROVE  IInv'
<1> USE DEF AcceptUnwinds, IInv, Idle, Empty, NewHandle, IsLowest, Unused, Usable, Busy, Return, InCall
<1>1. TypeOK'
  BY UnwindTyped
<1>2. CallInv'
  <2>1. call[t].at = "check" /\ UNCHANGED <<open, outside, live, borrowed, fd>>
    OBVIOUS
  <2> HIDE DEF AcceptUnwinds
  <2>2. ASSUME NEW u \in Threads, ~Idle(u)'
        PROVE  CallOK(u)'
    <3>1. CallOK(u)
      BY <2>1, <2>2, UnwindTyped DEF CallInv
    <3>2. CASE u = t
      BY <2>1, <3>1, <3>2, UnwindTyped DEF CallOK, Lent
    <3>3. CASE u # t
      BY <2>1, <3>1, <3>3, UnwindTyped DEF CallOK, Lent
    <3>4. QED  BY <3>2, <3>3
  <2>3. ASSUME NEW u \in Threads, NEW v \in Threads,
               u # v, ~Idle(u)', ~Idle(v)'
        PROVE  Apart(u, v)'
    BY <2>1, <2>3, UnwindTyped DEF CallInv, Apart
  <2>4. QED  BY <2>1, <2>2, <2>3 DEF CallInv
<1>3. call[t].at = "check" /\ UNCHANGED <<open, outside, live, borrowed, fd>>
  OBVIOUS
<1>4. ~Idle(t) /\ ~Empty(call[t].h)
  BY <1>3 DEF CallInv, CallOK
<1> HIDE DEF AcceptUnwinds
<1>5. call'[t].at = "close" /\ \A u \in Threads \ {t} : call'[u] = call[u]
  BY <1>4, UnwindTyped
<1>6. \A h : Freed(h)' <=> Freed(h)
  BY <1>3, <1>5 DEF Freed
<1>7. Owning' = Owning
  BY <1>3, <1>6 DEF Owning
<1>8. HeldIsOpen' /\ OneOwner' /\ NoLeak'
  BY <1>3, <1>7 DEF HeldIsOpen, OneOwner, NoLeak
<1>9. LentIsOpen'
  BY <1>3 DEF LentIsOpen
<1>10. QED  BY <1>1, <1>2, <1>8, <1>9

LEMMA DetachInv ==
  ASSUME IInv, ~StdinMayClose, NEW t \in Threads, NEW h \in Handles, Detach(t, h)
  PROVE  IInv'
<1> USE DEF Detach, IInv, Idle, Empty, NewHandle, IsLowest, Unused, Usable, Busy, Return, InCall
<1>1. TypeOK'
  <2>1. outside' \subseteq Fds
    OBVIOUS
  <2>2. QED  BY <2>1
<1>2. CallInv'
  BY DEF CallOK, Apart, CallInv, Lent, OneOwner, Owning, Freed
<1>3. HeldIsOpen'
  <2>1. ~Empty(h) => fd[h] \in open
    BY DEF HeldIsOpen, Owning, Freed
  <2>2. outside' \subseteq open'
    BY <2>1 DEF HeldIsOpen
  <2>3. \A g \in Owning' : fd'[g] \in open'
    BY DEF HeldIsOpen, Owning, Freed
  <2>4. QED  BY <2>2, <2>3 DEF HeldIsOpen
<1>4. OneOwner'
  BY DEF CallOK, Apart, CallInv, HeldIsOpen, Owning, Freed, OneOwner
<1>5. NoLeak'
  BY DEF CallOK, Apart, CallInv, NoLeak, Owning, Freed, OneOwner
<1>6. LentIsOpen'
  BY DEF CallOK, Apart, CallInv, LentIsOpen, Lent, HeldIsOpen, Owning, Freed
<1>7. QED  BY <1>1, <1>2, <1>3, <1>4, <1>5, <1>6

LEMMA BorrowInv ==
  ASSUME IInv, ~StdinMayClose, NEW t \in Threads, NEW h \in Handles, NEW n \in Fds, Borrow(t, h, n)
  PROVE  IInv'
<1> USE DEF Borrow, IInv, Idle, Empty, NewHandle, IsLowest, Unused, Usable, Busy, Return, InCall
<1>1. TypeOK'
  OBVIOUS
<1>2. CallInv'
  BY DEF CallOK, Apart, CallInv, Lent, OneOwner, Owning, Freed
<1>3. HeldIsOpen'
  BY DEF CallOK, Apart, CallInv, HeldIsOpen, Owning, Freed, OneOwner
<1>4. OneOwner'
  BY DEF CallOK, Apart, CallInv, HeldIsOpen, Owning, Freed, OneOwner
<1>5. NoLeak'
  BY DEF CallOK, Apart, CallInv, NoLeak, Owning, Freed, OneOwner
<1>6. LentIsOpen'
  BY DEF CallOK, Apart, CallInv, LentIsOpen, Lent, HeldIsOpen, Owning, Freed
<1>7. QED  BY <1>1, <1>2, <1>3, <1>4, <1>5, <1>6

LEMMA EndBorrowInv ==
  ASSUME IInv, ~StdinMayClose, NEW t \in Threads, NEW h \in Handles, EndBorrow(t, h)
  PROVE  IInv'
<1> USE DEF EndBorrow, IInv, Idle, Empty, NewHandle, IsLowest, Unused, Usable, Busy, Return, InCall
<1>1. TypeOK'
  OBVIOUS
<1>2. CallInv'
  BY DEF CallOK, Apart, CallInv, Lent, OneOwner, Owning, Freed
<1>3. HeldIsOpen'
  BY DEF CallOK, Apart, CallInv, HeldIsOpen, Owning, Freed, OneOwner
<1>4. OneOwner'
  BY DEF CallOK, Apart, CallInv, HeldIsOpen, Owning, Freed, OneOwner
<1>5. NoLeak'
  BY DEF CallOK, Apart, CallInv, NoLeak, Owning, Freed, OneOwner
<1>6. LentIsOpen'
  BY DEF CallOK, Apart, CallInv, LentIsOpen, Lent, HeldIsOpen, Owning, Freed
<1>7. QED  BY <1>1, <1>2, <1>3, <1>4, <1>5, <1>6

LEMMA OutsideOpenInv ==
  ASSUME IInv, ~StdinMayClose, OutsideOpen
  PROVE  IInv'
<1> USE DEF OutsideOpen, IInv, Idle, Empty, NewHandle, IsLowest, Unused, Usable, Busy, Return, InCall
<1>1. TypeOK'
  OBVIOUS
<1>2. CallInv'
  BY DEF CallOK, Apart, CallInv, Lent, OneOwner, Owning, Freed
<1>3. HeldIsOpen'
  BY DEF CallOK, Apart, CallInv, HeldIsOpen, Owning, Freed, OneOwner
<1>4. OneOwner'
  BY DEF CallOK, Apart, CallInv, HeldIsOpen, Owning, Freed, OneOwner
<1>5. NoLeak'
  BY DEF CallOK, Apart, CallInv, NoLeak, Owning, Freed, OneOwner
<1>6. LentIsOpen'
  BY DEF CallOK, Apart, CallInv, LentIsOpen, Lent, HeldIsOpen, Owning, Freed
<1>7. QED  BY <1>1, <1>2, <1>3, <1>4, <1>5, <1>6

LEMMA OutsideCloseInv ==
  ASSUME IInv, ~StdinMayClose, NEW n \in Fds, OutsideClose(n)
  PROVE  IInv'
<1> USE DEF OutsideClose, IInv, Idle, Empty, NewHandle, IsLowest, Unused, Usable, Busy, Return, InCall
<1>1. TypeOK'
  OBVIOUS
<1>2. CallInv'
  BY DEF CallOK, Apart, CallInv, Lent, OneOwner, Owning, Freed
<1>3. HeldIsOpen'
  BY DEF CallOK, Apart, CallInv, HeldIsOpen, Owning, Freed, OneOwner
<1>4. OneOwner'
  BY DEF CallOK, Apart, CallInv, HeldIsOpen, Owning, Freed, OneOwner
<1>5. NoLeak'
  BY DEF CallOK, Apart, CallInv, NoLeak, Owning, Freed, OneOwner
<1>6. LentIsOpen'
  BY DEF CallOK, Apart, CallInv, LentIsOpen, Lent, HeldIsOpen, Owning, Freed
<1>7. QED  BY <1>1, <1>2, <1>3, <1>4, <1>5, <1>6

-----------------------------------------------------------------------------
(* Calls that begin with close().                                          *)

LEMMA BeginCloseInv ==
  ASSUME IInv, NEW t \in Threads, NEW h \in Handles, NEW src \in Handles,
         NEW arg \in Fds, NEW then \in {"return", "die", "take", "store"},
         BeginClose(t, h, then, src, arg),
         then = "take" => src # h /\ Usable(src) /\ ~Lent(fd[src]),
         then = "store" /\ arg # 0 =>
           arg \in outside /\ ~InCall(arg) /\ ~Lent(arg)
  PROVE  IInv'
<1> USE DEF BeginClose, IInv, Idle, Empty, Usable, Busy
<1>1. TypeOK'
  OBVIOUS
<1>2. CallInv'
  BY DEF CallOK, Apart, CallInv, Lent, InCall
<1>3. Owning' = Owning
  BY DEF Owning, Freed
<1>4. HeldIsOpen' /\ OneOwner' /\ NoLeak' /\ LentIsOpen'
  BY <1>3 DEF HeldIsOpen, OneOwner, NoLeak, LentIsOpen
<1>5. QED  BY <1>1, <1>2, <1>4

LEMMA CloseInv ==
  ASSUME IInv, NEW t \in Threads, NEW h \in Handles,
         Close(t, h) \/ Destroy(t, h)
  PROVE  IInv'
<1>1. 0 \in Fds
  OBVIOUS
<1>2. QED  BY <1>1, BeginCloseInv DEF Close, Destroy

LEMMA MoveAssignInv ==
  ASSUME IInv, NEW t \in Threads, NEW h \in Handles, NEW g \in Handles,
         MoveAssign(t, h, g)
  PROVE  IInv'
<1>1. 0 \in Fds
  OBVIOUS
<1>2. QED  BY <1>1, BeginCloseInv DEF MoveAssign

LEMMA AttachInv ==
  ASSUME IInv, NEW t \in Threads, NEW h \in Handles,
         NEW n \in Fds, Attach(t, h, n)
  PROVE  IInv'
BY BeginCloseInv DEF Attach

-----------------------------------------------------------------------------
LEMMA NextInv ==
  ASSUME IInv, ~StdinMayClose, [Next]_vars
  PROVE  IInv'
<1>1. ASSUME NEW t \in Threads, CallStep(t)  PROVE IInv'
  BY <1>1, CloseSyscallInv, FinishCallInv, AcceptReturnsInv, AcceptUnwindsInv
  DEF CallStep
<1>2. ASSUME NEW t \in Threads, NEW h \in Handles,
             \/ DefaultConstruct(t, h) \/ OpenNew(t, h)
             \/ Close(t, h) \/ Destroy(t, h) \/ Detach(t, h) \/ EndBorrow(t, h)
      PROVE IInv'
  BY <1>2, DefaultConstructInv, OpenNewInv, CloseInv, DetachInv, EndBorrowInv
<1>3. ASSUME NEW t \in Threads, NEW h \in Handles, NEW n \in Fds,
             Attach(t, h, n) \/ Adopt(t, h, n) \/ Borrow(t, h, n)
      PROVE IInv'
  BY <1>3, AttachInv, AdoptInv, BorrowInv
<1>4. ASSUME NEW t \in Threads, NEW h \in Handles, NEW g \in Handles,
             \/ MoveConstruct(t, h, g) \/ MoveAssign(t, h, g)
             \/ Dup(t, h, g) \/ Accept(t, h, g) \/ SocketPair(t, h, g)
      PROVE IInv'
  BY <1>4, MoveConstructInv, MoveAssignInv, DupInv, AcceptInv, SocketPairInv
<1>5. CASE OutsideOpen
  BY <1>5, OutsideOpenInv
<1>6. ASSUME NEW n \in Fds, OutsideClose(n)  PROVE IInv'
  BY <1>6, OutsideCloseInv
<1>7. CASE UNCHANGED vars
  BY <1>7 DEF vars, IInv, HeldIsOpen, OneOwner, NoLeak, LentIsOpen, CallOK,
              Apart, CallInv, Owning, Freed, Empty, Idle, Lent
<1>8. QED
  BY <1>1, <1>2, <1>3, <1>4, <1>5, <1>6, <1>7 DEF Next, ThreadStep

\* The types of the handles' and the kernel's state are kept.
THEOREM Typed == ASSUME ~StdinMayClose
                 PROVE  Spec => []TypeOK
<1>1. IInv => TypeOK
  BY DEF IInv
<1>2. QED  BY <1>1, InitInv, NextInv, PTL DEF Spec

\* Every number a handle or the program holds is open: a non-empty Fd or
\* Socket never refers to a closed, or reused, descriptor.
THEOREM HandlesStayOpen == ASSUME ~StdinMayClose
                           PROVE  Spec => []HeldIsOpen
<1>1. IInv => HeldIsOpen
  BY DEF IInv
<1>2. QED  BY <1>1, InitInv, NextInv, PTL DEF Spec

\* No descriptor is ever closed twice: it has one owner at a time.
THEOREM SingleOwner == ASSUME ~StdinMayClose
                       PROVE  Spec => []OneOwner
<1>1. IInv => OneOwner
  BY DEF IInv
<1>2. QED  BY <1>1, InitInv, NextInv, PTL DEF Spec

\* No descriptor is lost by a move, a failed accept() or a destructor.
THEOREM NothingLeaks == ASSUME ~StdinMayClose
                        PROVE  Spec => []NoLeak
<1>1. IInv => NoLeak
  BY DEF IInv
<1>2. QED  BY <1>1, InitInv, NextInv, PTL DEF Spec

\* A descriptor lent to an AttachedSocket outlives the loan.
THEOREM LoansOutlived == ASSUME ~StdinMayClose
                         PROVE  Spec => []LentIsOpen
<1>1. IInv => LentIsOpen
  BY DEF IInv
<1>2. QED  BY <1>1, InitInv, NextInv, PTL DEF Spec

\* Together: who may close and who may use a number is settled, for any number
\* of threads and handles.
THEOREM OwnershipKept == ASSUME ~StdinMayClose
                         PROVE  Spec => []Ownership
BY Typed, HandlesStayOpen, SingleOwner, LoansOutlived, PTL DEF Ownership
=============================================================================
