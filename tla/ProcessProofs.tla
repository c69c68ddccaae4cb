---------------------------- MODULE ProcessProofs ----------------------------
(***************************************************************************)
(* Proofs about what a process goes through: its signal handler, a checked *)
(* system call, a dialogue over a stream and a crash.                      *)
(***************************************************************************)
EXTENDS SignalHandler, CheckedCalls, Transfer, CrashHandlers,
        FiniteSetTheorems, SequenceTheorems, TLAPS

-----------------------------------------------------------------------------
(* The signal handler.                                                     *)

\* Every variable has its type.
SigTypes ==
  /\ scene \in Scenes
  /\ instance \in Objects \union {Null}
  /\ phase \in [Objects -> Phase]
  /\ logged \subseteq Objects /\ stopped \subseteq Objects
  /\ answered \in [Objects -> {"no", "early", "up"}]
  /\ disp \in [Signals -> {"default", "ours"}]
  /\ frames \in [Threads -> Seq(Frame)]
  /\ deliveries \in 0 .. scene.deliveries

\* Where each kind of call can be; a constructor has its whole loop to do
\* until it installs.
Fits(f) ==
  /\ f.fn = "ctor" => f.at \in {"claim", "fill", "install"} /\ (f.at # "install" => f.left = Signals)
  /\ f.fn = "dtor" => f.at = "restore"
  /\ f.fn = "handler" => f.at \in {"load", "log", "request", "restore"}
  /\ f.fn # "handler" => f.obj \in Objects

\* A constructor or a destructor is what a thread is in before any handler.
FramesFit(t) ==
  \A i \in 1 .. Len(frames[t]) : Fits(frames[t][i]) /\ (frames[t][i].fn # "handler" => i = 1)

\* A constructor or destructor is running on thread t, below any handler.
Held(t) == frames[t] # <<>> /\ frames[t][1].fn # "handler"
Base(t) == frames[t][1]

\* What there is of an object, from the call that is on it.
PhaseAt(f) ==
  IF f.fn = "dtor" THEN "up"
  ELSE IF f.at = "claim" THEN "none" ELSE IF f.at = "fill" THEN "claimed" ELSE "filled"

\* Of the object a thread is on there is as much as its call has made, and a
\* destructor has given back the signals it is done with.
BaseFits(t) ==
  Held(t) => /\ phase[Base(t).obj] = PhaseAt(Base(t))
             /\ Base(t).fn = "dtor" => \A s \in Signals \ Base(t).left : disp[s] = "default"

\* No two threads construct or destroy the same object.
OneUser ==
  \A t, u \in Threads : Held(t) /\ Held(u) /\ Base(t).obj = Base(u).obj => t = u

\* instance is the one object there is anything of, and one that is not up yet
\* has not been signalled while up.
ObjectFits(o) ==
  /\ phase[o] # "none" => instance = o
  /\ phase[o] \in {"claimed", "filled"} => answered[o] # "up"

\* Our handler is never installed without an object behind it.
Armed == \A s \in Signals : disp[s] = "ours" => Exists(instance)

(* On one thread.                                                          *)

\* A handler has interrupted what keeps its object, and what it is about to
\* undo is undone by nobody else.
HandlersFit(t) ==
  \A i \in 1 .. Len(frames[t]) : frames[t][i].fn = "handler" =>
    /\ Exists(instance)
    /\ frames[t][i].at # "load" => frames[t][i].obj = instance
    /\ frames[t][i].at \in {"request", "restore"} => frames[t][i].obj \in logged
    /\ frames[t][i].at = "restore" => \A s \in Signals \ frames[t][i].left : disp[s] = "default"

\* A constructor that no handler has logged for has installed what it is done with.
InstallFits(t) ==
  Held(t) /\ Base(t).fn = "ctor" /\ Base(t).at = "install" /\ Base(t).obj \notin logged
    => \A s \in Signals \ Base(t).left : disp[s] = "ours"

\* An object that is up and that no handler has logged for is installed for every signal.
ArmedFits(t, o) ==
  phase[o] = "up" /\ o \notin logged /\ ~(Held(t) /\ Base(t).obj = o)
    => \A s \in Signals : disp[s] = "ours"

\* An object that was signalled while it was up has given every signal back.
AnsweredFits(o) ==
  phase[o] = "up" /\ answered[o] = "up" => \A s \in Signals : disp[s] = "default"

\* What holds besides when t is the only thread.
AloneFits(t) ==
  HandlersFit(t) /\ InstallFits(t) /\ \A o \in Objects : ArmedFits(t, o) /\ AnsweredFits(o)

\* The inductive invariant: the promises about handlers need what each call in
\* progress has done so far, and on one thread what it has interrupted.
SigInv ==
  /\ SigTypes
  /\ \A t \in Threads : FramesFit(t) /\ BaseFits(t)
  /\ OneUser
  /\ \A o \in Objects : ObjectFits(o)
  /\ Armed
  /\ \A t \in Threads : Threads = {t} => AloneFits(t)

\* There is one thread, by counting them.
LEMMA OneThreadIs ==
  ASSUME SigTypes, OneThread, NEW t \in Threads
  PROVE  Threads = {t}
<1>1. IsFiniteSet(scene.builders) /\ IsFiniteSet(scene.receivers)
  BY SignalAssumption DEF SigTypes, IsScene
<1>2. IsFiniteSet(Threads)
  BY <1>1, FS_Union DEF Threads, Builders, Receivers
<1>3. \E x : Threads = {x}
  BY <1>2, FS_Singleton DEF OneThread
<1>4. QED  BY <1>3

\* An object is in use when a call at the base of a stack is on it.
LEMMA InUseIs ==
  ASSUME SigTypes, \A t \in Threads : FramesFit(t), NEW o \in Objects
  PROVE  InUse(o) <=> \E t \in Threads : Held(t) /\ Base(t).obj = o
<1>1. \A t \in Threads : frames[t] \in Seq(Frame)
  BY DEF SigTypes
<1>2. ASSUME NEW t \in Threads
      PROVE  /\ DOMAIN frames[t] = 1 .. Len(frames[t]) /\ Len(frames[t]) \in Nat
             /\ \A i \in 1 .. Len(frames[t]) : frames[t][i] \in Frame
             /\ frames[t] # <<>> => 1 \in 1 .. Len(frames[t])
  BY <1>1
<1>3. \A f \in Frame : f.fn \in {"ctor", "dtor"} <=> f.fn # "handler"
  BY DEF Frame
<1>4. ASSUME NEW t \in Threads, NEW i \in DOMAIN frames[t],
             frames[t][i].fn \in {"ctor", "dtor"}, frames[t][i].obj = o
      PROVE  Held(t) /\ Base(t).obj = o
  <2>1. i = 1 /\ frames[t] # <<>> /\ frames[t][1].fn # "handler"
    BY <1>2, <1>3, <1>4 DEF FramesFit
  <2>2. QED  BY <1>4, <2>1 DEF Held, Base
<1>5. ASSUME NEW t \in Threads, Held(t), Base(t).obj = o
      PROVE  InUse(o)
  <2>1. 1 \in DOMAIN frames[t] /\ frames[t][1].fn \in {"ctor", "dtor"} /\ frames[t][1].obj = o
    BY <1>2, <1>3, <1>5 DEF Held, Base
  <2>2. QED  BY <2>1 DEF InUse
<1>6. QED  BY <1>4, <1>5 DEF InUse

\* The invariant implies what is promised.
LEMMA SigInvSuffices ==
  ASSUME SigInv
  PROVE  /\ HandlerFindsObject
         /\ SingleInstance /\ ArmedUntilSignalled /\ NextOneKills /\ NothingArmedAfterEnd
<1>1. SigTypes /\ \A t \in Threads : frames[t] \in Seq(Frame)
  BY DEF SigInv, SigTypes
<1>2. SingleInstance
  BY DEF SigInv, ObjectFits, SingleInstance
<1>3. NothingArmedAfterEnd
  BY <1>1 DEF SigInv, Armed, Exists, NothingArmedAfterEnd, SigTypes
<1>4. ASSUME OneThread, NEW t \in Threads PROVE AloneFits(t)
  BY <1>1, <1>4, OneThreadIs DEF SigInv
<1>5. HandlerFindsObject
  <2> SUFFICES ASSUME OneThread, NEW t \in Threads, NEW i \in DOMAIN frames[t],
                      frames[t][i].fn = "handler", frames[t][i].at # "load"
               PROVE  Exists(frames[t][i].obj)
    BY DEF HandlerFindsObject
  <2>1. i \in 1 .. Len(frames[t])
    BY <1>1
  <2>2. QED  BY <1>4, <2>1 DEF AloneFits, HandlersFit
<1>6. ArmedUntilSignalled
  <2> SUFFICES ASSUME OneThread, NEW o \in Objects, phase[o] = "up", ~InUse(o), o \notin logged
               PROVE  \A s \in Signals : disp[s] = "ours"
    BY DEF ArmedUntilSignalled
  <2>1. \E t : Threads = {t}
    <3>1. IsFiniteSet(Threads)
      BY <1>1, SignalAssumption, FS_Union DEF Threads, Builders, Receivers, SigTypes, IsScene
    <3>2. QED  BY <3>1, FS_Singleton DEF OneThread
  <2>2. PICK t \in Threads : TRUE
    BY <2>1
  <2>3. ~(Held(t) /\ Base(t).obj = o)
    BY <1>1, InUseIs DEF SigInv
  <2>4. QED  BY <1>4, <2>3 DEF AloneFits, ArmedFits
<1>7. NextOneKills
  <2> SUFFICES ASSUME OneThread, NEW o \in Objects, phase[o] = "up", answered[o] = "up"
               PROVE  \A s \in Signals : disp[s] = "default"
    BY DEF NextOneKills
  <2>1. \E t : Threads = {t}
    <3>1. IsFiniteSet(Threads)
      BY <1>1, SignalAssumption, FS_Union DEF Threads, Builders, Receivers, SigTypes, IsScene
    <3>2. QED  BY <3>1, FS_Singleton DEF OneThread
  <2>2. PICK t \in Threads : TRUE
    BY <2>1
  <2>3. QED  BY <1>4 DEF AloneFits, AnsweredFits
<1>8. QED  BY <1>2, <1>3, <1>5, <1>6, <1>7

\* It holds at the start.
LEMMA SigInitInv == Init => SigInv
<1> SUFFICES ASSUME Init PROVE SigInv
  OBVIOUS
<1>1. /\ scene \in Scenes /\ instance = Null /\ phase = [o \in Objects |-> "none"]
      /\ logged = {} /\ stopped = {}
      /\ answered = [o \in Objects |-> "no"] /\ disp = [s \in Signals |-> "default"]
      /\ frames = [t \in Threads |-> <<>>] /\ deliveries = 0
  BY DEF Init
<1>2. SigTypes
  BY <1>1, SignalAssumption DEF SigTypes, IsScene, Phase
<1>3. \A t \in Threads : frames[t] = <<>> /\ Len(frames[t]) = 0
  BY <1>1
<1>4. \A t \in Threads : FramesFit(t) /\ BaseFits(t) /\ ~Held(t)
  BY <1>3 DEF FramesFit, BaseFits, Held
<1>5. OneUser /\ Armed /\ \A o \in Objects : ObjectFits(o)
  BY <1>1, <1>4 DEF OneUser, Armed, ObjectFits
<1>6. \A t \in Threads : AloneFits(t)
  BY <1>1, <1>3, <1>4 DEF AloneFits, HandlersFit, InstallFits, ArmedFits, AnsweredFits
<1>7. QED  BY <1>2, <1>4, <1>5, <1>6 DEF SigInv

-----------------------------------------------------------------------------
(* What a call does to the frames.                                         *)

\* The innermost call of a thread.
LEMMA TopIs ==
  ASSUME SigInv, NEW t \in Threads, frames[t] # <<>>
  PROVE  /\ Len(frames[t]) \in Nat /\ Len(frames[t]) >= 1
         /\ Top(t) \in Frame /\ Fits(Top(t))
         /\ Top(t).fn # "handler" => Len(frames[t]) = 1 /\ Held(t) /\ Base(t) = Top(t)
<1>1. frames[t] \in Seq(Frame) /\ FramesFit(t)
  BY DEF SigInv, SigTypes
<1>2. Len(frames[t]) \in Nat /\ Len(frames[t]) >= 1 /\ Top(t) \in Frame
  BY <1>1 DEF Top
<1>3. Fits(Top(t)) /\ (Top(t).fn # "handler" => Len(frames[t]) = 1)
  <2>1. Len(frames[t]) \in 1 .. Len(frames[t])
    BY <1>2
  <2>2. QED  BY <1>1, <2>1 DEF FramesFit, Top
<1>4. QED  BY <1>2, <1>3 DEF Held, Base, Top

\* Calling pushes one frame.
LEMMA EnterIs ==
  ASSUME SigTypes, NEW t \in Threads, NEW f \in Frame, Enter(t, f)
  PROVE  /\ frames' \in [Threads -> Seq(Frame)]
         /\ \A u \in Threads \ {t} : frames'[u] = frames[u]
         /\ Len(frames[t]) \in Nat /\ Len(frames'[t]) = Len(frames[t]) + 1
         /\ \A i \in 1 .. Len(frames[t]) : frames'[t][i] = frames[t][i]
         /\ frames'[t][Len(frames[t]) + 1] = f
<1>1. frames \in [Threads -> Seq(Frame)] /\ frames[t] \in Seq(Frame)
  BY DEF SigTypes
<1>2. frames' = [frames EXCEPT ![t] = Append(frames[t], f)]
  BY DEF Enter
<1>3. QED  BY <1>1, <1>2

\* Going on changes the top frame only.
LEMMA GotoIs ==
  ASSUME SigTypes, NEW t \in Threads, NEW f \in Frame, frames[t] # <<>>, Goto(t, f)
  PROVE  /\ frames' \in [Threads -> Seq(Frame)]
         /\ \A u \in Threads \ {t} : frames'[u] = frames[u]
         /\ Len(frames[t]) \in Nat \ {0} /\ Len(frames'[t]) = Len(frames[t])
         /\ \A i \in 1 .. Len(frames[t]) - 1 : frames'[t][i] = frames[t][i]
         /\ frames'[t][Len(frames[t])] = f
<1>1. frames \in [Threads -> Seq(Frame)] /\ frames[t] \in Seq(Frame)
  BY DEF SigTypes
<1>2. frames' = [frames EXCEPT ![t] = [frames[t] EXCEPT ![Len(frames[t])] = f]]
  BY DEF Goto
<1>3. Len(frames[t]) \in Nat \ {0}
  BY <1>1
<1> DEFINE n == Len(frames[t])
           g == [frames[t] EXCEPT ![n] = f]
<1>4. n \in 1 .. n
  <2>1. \A m \in Nat \ {0} : m \in 1 .. m
    OBVIOUS
  <2>2. QED  BY <1>3, <2>1
<1>5. g \in Seq(Frame) /\ Len(g) = n /\ \A j \in 1 .. n : g[j] = IF j = n THEN f ELSE frames[t][j]
  BY <1>1, <1>4, ExceptSeq
<1>6. frames' = [frames EXCEPT ![t] = g] /\ n \in Nat \ {0}
  BY <1>2, <1>3
<1> HIDE DEF g
<1>7. g[n] = f /\ \A j \in 1 .. n - 1 : g[j] = frames[t][j]
  BY <1>5, <1>6
<1>8. QED  BY <1>1, <1>5, <1>6, <1>7

\* The first elements of a sequence.
LEMMA Front ==
  ASSUME NEW S, NEW s \in Seq(S), NEW n \in 0 .. Len(s)
  PROVE  /\ SubSeq(s, 1, n) \in Seq(S) /\ Len(SubSeq(s, 1, n)) = n
         /\ \A i \in 1 .. n : SubSeq(s, 1, n)[i] = s[i]
OBVIOUS

\* Returning pops one frame.
LEMMA LeaveIs ==
  ASSUME SigTypes, NEW t \in Threads, frames[t] # <<>>, Leave(t)
  PROVE  /\ frames' \in [Threads -> Seq(Frame)]
         /\ \A u \in Threads \ {t} : frames'[u] = frames[u]
         /\ Len(frames[t]) \in Nat \ {0} /\ Len(frames'[t]) = Len(frames[t]) - 1
         /\ \A i \in 1 .. Len(frames[t]) - 1 : frames'[t][i] = frames[t][i]
<1>1. frames \in [Threads -> Seq(Frame)] /\ frames[t] \in Seq(Frame)
  BY DEF SigTypes
<1>2. frames' = [frames EXCEPT ![t] = SubSeq(frames[t], 1, Len(frames[t]) - 1)]
  BY DEF Leave
<1>3. Len(frames[t]) \in Nat \ {0}
  BY <1>1
<1>4. /\ SubSeq(frames[t], 1, Len(frames[t]) - 1) \in Seq(Frame)
      /\ Len(SubSeq(frames[t], 1, Len(frames[t]) - 1)) = Len(frames[t]) - 1
      /\ \A i \in 1 .. Len(frames[t]) - 1 : SubSeq(frames[t], 1, Len(frames[t]) - 1)[i] = frames[t][i]
  <2> DEFINE n == Len(frames[t]) - 1
  <2>1. n \in 0 .. Len(frames[t])
    BY <1>3
  <2> HIDE DEF n
  <2>2. /\ SubSeq(frames[t], 1, n) \in Seq(Frame) /\ Len(SubSeq(frames[t], 1, n)) = n
        /\ \A i \in 1 .. n : SubSeq(frames[t], 1, n)[i] = frames[t][i]
    BY <1>1, <2>1, Front
  <2>3. QED  BY <2>2 DEF n
<1>5. QED  BY <1>1, <1>2, <1>3, <1>4

\* The call at the base of a stack is on an object.
LEMMA HeldFits ==
  ASSUME SigInv, NEW t \in Threads, Held(t)
  PROVE  Fits(Base(t)) /\ Base(t).obj \in Objects
<1>1. frames[t] \in Seq(Frame) /\ frames[t] # <<>> /\ FramesFit(t)
  BY DEF SigInv, SigTypes, Held
<1>2. 1 \in 1 .. Len(frames[t])
  BY <1>1
<1>3. QED  BY <1>1, <1>2 DEF FramesFit, Base, Held, Fits

\* A constructor or destructor begins or goes on.
LEMMA BaseBecomes ==
  ASSUME SigInv, UNCHANGED scene, NEW t \in Threads, NEW f \in Frame, Fits(f), f.fn # "handler",
         \/ frames[t] = <<>> /\ Enter(t, f)
         \/ frames[t] # <<>> /\ Top(t).fn # "handler" /\ Goto(t, f)
  PROVE  /\ Threads' = Threads /\ frames' \in [Threads -> Seq(Frame)]
         /\ \A u \in Threads : FramesFit(u)'
         /\ Held(t)' /\ Base(t)' = f
         /\ \A u \in Threads \ {t} : (Held(u)' <=> Held(u)) /\ Base(u)' = Base(u)
         /\ HandlersFit(t)'
<1>1. SigTypes /\ Threads' = Threads
  BY DEF SigInv, Threads, Builders, Receivers
<1>2. /\ frames' \in [Threads -> Seq(Frame)] /\ \A u \in Threads \ {t} : frames'[u] = frames[u]
      /\ Len(frames'[t]) = 1 /\ frames'[t][1] = f
  <2>1. CASE frames[t] = <<>> /\ Enter(t, f)
    <3>1. Len(frames[t]) = 0
      BY <2>1
    <3>2. \A n \in Nat : n = 0 => n + 1 = 1
      OBVIOUS
    <3>3. Len(frames[t]) + 1 = 1
      BY <3>1, <3>2
    <3>4. /\ frames' \in [Threads -> Seq(Frame)] /\ \A u \in Threads \ {t} : frames'[u] = frames[u]
          /\ Len(frames'[t]) = Len(frames[t]) + 1 /\ frames'[t][Len(frames[t]) + 1] = f
      BY <1>1, <2>1, EnterIs
    <3>5. QED  BY <3>3, <3>4
  <2>2. CASE frames[t] # <<>> /\ Top(t).fn # "handler" /\ Goto(t, f)
    BY <1>1, <2>2, GotoIs, TopIs
  <2>3. QED  BY <2>1, <2>2
<1>3. frames'[t] # <<>>
  <2>1. CASE frames'[t] = <<>>
    <3>1. Len(frames'[t]) = 0
      BY <2>1
    <3>2. QED  BY <1>2, <3>1
  <2>2. QED  BY <2>1
<1>4. \A u \in Threads : FramesFit(u)'
  BY <1>2 DEF SigInv, FramesFit, Fits
<1>5. QED  BY <1>1, <1>2, <1>3, <1>4 DEF Held, Base, HandlersFit

\* It ends.
LEMMA BaseLeaves ==
  ASSUME SigInv, UNCHANGED scene, NEW t \in Threads, frames[t] # <<>>, Top(t).fn # "handler", Leave(t)
  PROVE  /\ Threads' = Threads /\ frames' \in [Threads -> Seq(Frame)]
         /\ \A u \in Threads : FramesFit(u)'
         /\ ~Held(t)'
         /\ \A u \in Threads \ {t} : (Held(u)' <=> Held(u)) /\ Base(u)' = Base(u)
         /\ HandlersFit(t)'
<1>1. SigTypes /\ Threads' = Threads
  BY DEF SigInv, Threads, Builders, Receivers
<1>2. /\ frames' \in [Threads -> Seq(Frame)] /\ \A u \in Threads \ {t} : frames'[u] = frames[u]
      /\ Len(frames'[t]) = 0
  <2>1. Len(frames[t]) = 1
    BY TopIs
  <2>2. Len(frames'[t]) = 1 - 1
    BY <1>1, <2>1, LeaveIs
  <2>3. QED  BY <1>1, <2>2, LeaveIs
<1>3. frames'[t] = <<>>
  BY <1>2
<1>4. \A u \in Threads : FramesFit(u)'
  <2>1. FramesFit(t)'
    BY <1>2 DEF FramesFit
  <2>2. \A u \in Threads \ {t} : FramesFit(u)'
    BY <1>2 DEF SigInv, FramesFit, Fits
  <2>3. QED  BY <2>1, <2>2
<1>5. QED  BY <1>1, <1>2, <1>3, <1>4 DEF Held, Base, HandlersFit

\* A handler leaves what it has interrupted as it is.
LEMMA BasesStay ==
  ASSUME SigInv, UNCHANGED scene, NEW t \in Threads,
         \/ \E f \in Frame : f.fn = "handler" /\ Fits(f) /\ Enter(t, f)
         \/ /\ frames[t] # <<>> /\ Top(t).fn = "handler"
            /\ \/ \E f \in Frame : f.fn = "handler" /\ Fits(f) /\ Goto(t, f)
               \/ Leave(t)
  PROVE  /\ Threads' = Threads /\ frames' \in [Threads -> Seq(Frame)]
         /\ \A u \in Threads : FramesFit(u)'
         /\ \A u \in Threads : (Held(u)' <=> Held(u)) /\ (Held(u) => Base(u)' = Base(u))
<1>1. SigTypes /\ Threads' = Threads
  BY DEF SigInv, Threads, Builders, Receivers
<1>2. FramesFit(t) /\ frames[t] \in Seq(Frame)
  BY DEF SigInv, SigTypes
<1>3. CASE \E f \in Frame : f.fn = "handler" /\ Fits(f) /\ Enter(t, f)
  <2>1. PICK f \in Frame : f.fn = "handler" /\ Fits(f) /\ Enter(t, f)
    BY <1>3
  <2>2. /\ frames' \in [Threads -> Seq(Frame)]
        /\ \A u \in Threads \ {t} : frames'[u] = frames[u]
        /\ Len(frames[t]) \in Nat /\ Len(frames'[t]) = Len(frames[t]) + 1
        /\ \A i \in 1 .. Len(frames[t]) : frames'[t][i] = frames[t][i]
        /\ frames'[t][Len(frames[t]) + 1] = f
    BY <1>1, <2>1, EnterIs
  <2>3. FramesFit(t)'
    <3> SUFFICES ASSUME NEW i \in 1 .. Len(frames'[t])
                 PROVE  Fits(frames'[t][i]) /\ (frames'[t][i].fn # "handler" => i = 1)
      BY DEF FramesFit, Fits
    <3>1. i \in 1 .. Len(frames[t]) \/ i = Len(frames[t]) + 1
      BY <2>2
    <3>2. CASE i \in 1 .. Len(frames[t])
      BY <1>2, <2>2, <3>2 DEF FramesFit
    <3>3. CASE i = Len(frames[t]) + 1
      BY <2>1, <2>2, <3>3
    <3>4. QED  BY <3>1, <3>2, <3>3
  <2>4. \A u \in Threads : FramesFit(u)'
    BY <2>2, <2>3 DEF SigInv, FramesFit, Fits
  <2>5. (Held(t)' <=> Held(t)) /\ (Held(t) => Base(t)' = Base(t))
    <3>1. frames'[t] \in Seq(Frame) /\ frames'[t] # <<>>
      BY <2>2
    <3>2. CASE frames[t] = <<>>
      BY <2>1, <2>2, <3>1, <3>2 DEF Held, Base
    <3>3. CASE frames[t] # <<>>
      <4>1. 1 \in 1 .. Len(frames[t])
        BY <1>2, <2>2, <3>3
      <4>2. QED  BY <2>2, <3>1, <3>3, <4>1 DEF Held, Base
    <3>4. QED  BY <3>2, <3>3
  <2>6. \A u \in Threads : (Held(u)' <=> Held(u)) /\ (Held(u) => Base(u)' = Base(u))
    BY <2>2, <2>5 DEF Held, Base
  <2>7. QED  BY <1>1, <2>2, <2>4, <2>6
<1>4. CASE /\ frames[t] # <<>> /\ Top(t).fn = "handler"
           /\ \E f \in Frame : f.fn = "handler" /\ Fits(f) /\ Goto(t, f)
  <2>1. PICK f \in Frame : f.fn = "handler" /\ Fits(f) /\ Goto(t, f)
    BY <1>4
  <2>2. /\ frames' \in [Threads -> Seq(Frame)]
        /\ \A u \in Threads \ {t} : frames'[u] = frames[u]
        /\ Len(frames[t]) \in Nat \ {0} /\ Len(frames'[t]) = Len(frames[t])
        /\ \A i \in 1 .. Len(frames[t]) - 1 : frames'[t][i] = frames[t][i]
        /\ frames'[t][Len(frames[t])] = f
    BY <1>1, <1>4, <2>1, GotoIs
  <2>3. FramesFit(t)'
    BY <1>2, <2>1, <2>2 DEF FramesFit, Fits
  <2>4. \A u \in Threads : FramesFit(u)'
    BY <2>2, <2>3 DEF SigInv, FramesFit, Fits
  <2>5. (Held(t)' <=> Held(t)) /\ (Held(t) => Base(t)' = Base(t))
    <3>1. frames'[t] \in Seq(Frame) /\ frames'[t] # <<>>
      BY <2>2
    <3>2. CASE Len(frames[t]) = 1
      BY <1>4, <2>1, <2>2, <3>1, <3>2 DEF Held, Base, Top
    <3>3. CASE Len(frames[t]) # 1
      <4>1. 1 \in 1 .. Len(frames[t]) - 1
        <5>1. \A n \in Nat \ {0} : n # 1 => 1 \in 1 .. n - 1
          OBVIOUS
        <5>2. QED  BY <2>2, <3>3, <5>1
      <4>2. QED  BY <1>4, <2>2, <3>1, <4>1 DEF Held, Base
    <3>4. QED  BY <3>2, <3>3
  <2>6. \A u \in Threads : (Held(u)' <=> Held(u)) /\ (Held(u) => Base(u)' = Base(u))
    BY <2>2, <2>5 DEF Held, Base
  <2>7. QED  BY <1>1, <2>2, <2>4, <2>6
<1>5. CASE frames[t] # <<>> /\ Top(t).fn = "handler" /\ Leave(t)
  <2>2. /\ frames' \in [Threads -> Seq(Frame)]
        /\ \A u \in Threads \ {t} : frames'[u] = frames[u]
        /\ Len(frames[t]) \in Nat \ {0} /\ Len(frames'[t]) = Len(frames[t]) - 1
        /\ \A i \in 1 .. Len(frames[t]) - 1 : frames'[t][i] = frames[t][i]
    BY <1>1, <1>5, LeaveIs
  <2>3. FramesFit(t)'
    <3>1. Len(frames[t]) - 1 \in Nat /\ \A i \in 1 .. Len(frames[t]) - 1 : i \in 1 .. Len(frames[t])
      BY <2>2
    <3>2. \A i \in 1 .. Len(frames'[t]) : i \in 1 .. Len(frames[t]) /\ frames'[t][i] = frames[t][i]
      BY <2>2, <3>1
    <3>3. QED  BY <1>2, <3>2 DEF FramesFit, Fits
  <2>4. \A u \in Threads : FramesFit(u)'
    BY <2>2, <2>3 DEF SigInv, FramesFit, Fits
  <2>5. (Held(t)' <=> Held(t)) /\ (Held(t) => Base(t)' = Base(t))
    <3>1. frames'[t] \in Seq(Frame)
      BY <2>2
    <3>2. CASE Len(frames[t]) = 1
      <4>1. frames'[t] = <<>>
        BY <2>2, <3>1, <3>2
      <4>2. QED  BY <1>5, <3>2, <4>1 DEF Held, Base, Top
    <3>3. CASE Len(frames[t]) # 1
      <4>1. 1 \in 1 .. Len(frames[t]) - 1 /\ Len(frames[t]) - 1 # 0
        <5>1. \A n \in Nat \ {0} : n # 1 => 1 \in 1 .. n - 1 /\ n - 1 # 0
          OBVIOUS
        <5>2. QED  BY <2>2, <3>3, <5>1
      <4>3. frames'[t] # <<>>
        <5>1. Len(<<>>) = 0
          OBVIOUS
        <5>2. QED  BY <2>2, <4>1, <5>1
      <4>2. QED  BY <1>5, <2>2, <4>1, <4>3 DEF Held, Base
    <3>4. QED  BY <3>2, <3>3
  <2>6. \A u \in Threads : (Held(u)' <=> Held(u)) /\ (Held(u) => Base(u)' = Base(u))
    BY <2>2, <2>5 DEF Held, Base
  <2>7. QED  BY <1>1, <2>2, <2>4, <2>6
<1>6. QED  BY <1>3, <1>4, <1>5
-----------------------------------------------------------------------------
(* The constructor and the destructor.                                     *)

\* What begins is on an object nobody else is on.
LEMMA BeginKeeps ==
  ASSUME SigInv, UNCHANGED scene, NEW t \in Threads, NEW o \in Objects, Construct(t, o) \/ Destroy(t, o)
  PROVE  SigInv'
<1> DEFINE f == [fn |-> IF Construct(t, o) THEN "ctor" ELSE "dtor",
                 at |-> IF Construct(t, o) THEN "claim" ELSE "restore",
                 obj |-> o, left |-> Signals, sig |-> Null, held |-> FALSE]
<1>1. /\ frames[t] = <<>> /\ ~InUse(o) /\ Enter(t, f) /\ phase[o] = PhaseAt(f)
      /\ UNCHANGED <<instance, phase, logged, stopped, answered, disp, deliveries>>
  <2>1. CASE Construct(t, o)
    BY <2>1 DEF Construct, Outermost, PhaseAt
  <2>2. CASE ~Construct(t, o) /\ Destroy(t, o)
    BY <2>2 DEF Destroy, Outermost, PhaseAt
  <2>3. QED  BY <2>1, <2>2
<1>2. /\ f \in Frame /\ Fits(f) /\ f.fn # "handler" /\ f.obj = o /\ f.left = Signals
      /\ f.at # "install"
  BY DEF Frame, Fits
<1> HIDE DEF f
<1>3. /\ Threads' = Threads /\ frames' \in [Threads -> Seq(Frame)] /\ \A u \in Threads : FramesFit(u)'
      /\ Held(t)' /\ Base(t)' = f
      /\ \A u \in Threads \ {t} : (Held(u)' <=> Held(u)) /\ Base(u)' = Base(u)
      /\ HandlersFit(t)'
  BY <1>1, <1>2, BaseBecomes
<1>4. ~Held(t) /\ \A u \in Threads : ~(Held(u) /\ Base(u).obj = o)
  BY <1>1, InUseIs DEF SigInv, Held
<1>5. SigTypes'
  BY <1>1, <1>3 DEF SigInv, SigTypes
<1>6. \A u \in Threads : BaseFits(u)'
  <2>1. BaseFits(t)'
    BY <1>1, <1>2, <1>3 DEF BaseFits
  <2>2. \A u \in Threads \ {t} : BaseFits(u)'
    BY <1>1, <1>3 DEF SigInv, BaseFits
  <2>3. QED  BY <2>1, <2>2
<1>7. OneUser'
  BY <1>2, <1>3, <1>4 DEF SigInv, OneUser
<1>8. Armed' /\ \A p \in Objects : ObjectFits(p)'
  BY <1>1 DEF SigInv, Armed, Exists, ObjectFits
<1>9. ASSUME Threads = {t} PROVE AloneFits(t)'
  <2>1. AloneFits(t)
    BY <1>9 DEF SigInv
  <2>2. InstallFits(t)'
    BY <1>2, <1>3 DEF InstallFits
  <2>3. \A p \in Objects : ArmedFits(t, p)' /\ AnsweredFits(p)'
    BY <1>1, <1>4, <2>1 DEF AloneFits, ArmedFits, AnsweredFits
  <2>4. QED  BY <1>3, <2>2, <2>3 DEF AloneFits
<1>10. \A u \in Threads : Threads' = {u} => AloneFits(u)'
  BY <1>3, <1>9
<1>11. QED  BY <1>3, <1>5, <1>6, <1>7, <1>8, <1>10 DEF SigInv

\* The constructor makes itself the instance (signal_handler.cpp).
LEMMA ClaimKeeps ==
  ASSUME SigInv, UNCHANGED scene, NEW t \in Threads, Claim(t)
  PROVE  SigInv'
<1> DEFINE o == Top(t).obj
           f == [Top(t) EXCEPT !.at = "fill"]
<1>1. frames[t] # <<>> /\ Top(t).fn = "ctor" /\ Top(t).at = "claim" /\ UNCHANGED <<disp, deliveries>>
  BY DEF Claim, In
<1>2. /\ Top(t) \in Frame /\ Fits(Top(t)) /\ Held(t) /\ Base(t) = Top(t) /\ o \in Objects
  BY <1>1, TopIs DEF Fits
<1>3. phase[o] = "none" /\ SigTypes
  BY <1>1, <1>2 DEF SigInv, BaseFits, PhaseAt
<1>4. CASE instance = Null
  <2>1. /\ instance' = o /\ phase' = [phase EXCEPT ![o] = "claimed"]
        /\ logged' = logged \ {o} /\ stopped' = stopped \ {o}
        /\ answered' = [answered EXCEPT ![o] = "no"] /\ Goto(t, f)
    BY <1>4 DEF Claim
  <2>2. f \in Frame /\ Fits(f) /\ f.fn = "ctor" /\ f.at = "fill" /\ f.obj = o
    BY <1>1, <1>2 DEF Frame, Fits
  <2> HIDE DEF o, f
  <2>3. /\ Threads' = Threads /\ frames' \in [Threads -> Seq(Frame)] /\ \A u \in Threads : FramesFit(u)'
        /\ Held(t)' /\ Base(t)' = f
        /\ \A u \in Threads \ {t} : (Held(u)' <=> Held(u)) /\ Base(u)' = Base(u)
        /\ HandlersFit(t)'
    BY <1>1, <2>1, <2>2, BaseBecomes
  <2>4. /\ phase' \in [Objects -> Phase] /\ phase'[o] = "claimed"
        /\ \A p \in Objects \ {o} : phase'[p] = phase[p]
        /\ answered' \in [Objects -> {"no", "early", "up"}] /\ answered'[o] = "no"
        /\ \A p \in Objects \ {o} : answered'[p] = answered[p]
    BY <1>2, <1>3, <2>1 DEF SigTypes, Phase, o
  <2>5. SigTypes'
    BY <1>1, <1>2, <1>3, <2>1, <2>3, <2>4 DEF SigTypes, o
  <2>6. \A p \in Objects : phase[p] = "none"
    BY <1>4, SignalAssumption DEF SigInv, ObjectFits
  <2>7. \A s \in Signals : disp[s] = "default"
    BY <1>3, <1>4 DEF SigInv, Armed, Exists, SigTypes
  <2>8. \A u \in Threads \ {t} : Held(u) => Base(u).obj # o /\ Base(u).obj \in Objects
    BY <1>2, HeldFits DEF SigInv, OneUser, o
  <2>9. \A u \in Threads : BaseFits(u)'
    <3>1. BaseFits(t)'
      BY <2>2, <2>3, <2>4 DEF BaseFits, PhaseAt
    <3>2. \A u \in Threads \ {t} : BaseFits(u)'
      BY <1>1, <2>3, <2>4, <2>8 DEF SigInv, BaseFits
    <3>3. QED  BY <3>1, <3>2
  <2>10. OneUser'
    BY <1>2, <2>2, <2>3 DEF SigInv, OneUser, o
  <2>11. \A p \in Objects : ObjectFits(p)'
    BY <2>1, <2>4, <2>6 DEF ObjectFits
  <2>12. Armed'
    BY <1>1, <2>7 DEF Armed
  <2>13. AloneFits(t)'
    <3>1. InstallFits(t)'
      BY <2>2, <2>3 DEF InstallFits
    <3>2. \A p \in Objects : phase'[p] # "up"
      BY <2>4, <2>6
    <3>3. QED  BY <2>3, <3>1, <3>2 DEF AloneFits, ArmedFits, AnsweredFits
  <2>14. QED  BY <2>3, <2>5, <2>9, <2>10, <2>11, <2>12, <2>13 DEF SigInv
<1>5. CASE instance # Null
  <2>1. Leave(t) /\ UNCHANGED <<instance, phase, logged, stopped, answered>>
    BY <1>5 DEF Claim
  <2> HIDE DEF o, f
  <2>2. /\ Threads' = Threads /\ frames' \in [Threads -> Seq(Frame)] /\ \A u \in Threads : FramesFit(u)'
        /\ ~Held(t)'
        /\ \A u \in Threads \ {t} : (Held(u)' <=> Held(u)) /\ Base(u)' = Base(u)
        /\ HandlersFit(t)'
    BY <1>1, <2>1, BaseLeaves
  <2>3. SigTypes'
    BY <1>1, <1>3, <2>1, <2>2 DEF SigTypes
  <2>4. \A u \in Threads : BaseFits(u)'
    BY <1>1, <2>1, <2>2 DEF SigInv, BaseFits
  <2>5. OneUser'
    BY <2>2 DEF SigInv, OneUser
  <2>6. Armed' /\ \A p \in Objects : ObjectFits(p)'
    BY <1>1, <2>1 DEF SigInv, Armed, Exists, ObjectFits
  <2>7. ASSUME Threads = {t} PROVE AloneFits(t)'
    <3>1. AloneFits(t)
      BY <2>7 DEF SigInv
    <3>2. InstallFits(t)'
      BY <2>2 DEF InstallFits
    <3>3. \A p \in Objects : ArmedFits(t, p)' /\ AnsweredFits(p)'
      BY <1>1, <1>2, <1>3, <2>1, <3>1 DEF AloneFits, ArmedFits, AnsweredFits, o
    <3>4. QED  BY <2>2, <3>2, <3>3 DEF AloneFits
  <2>8. QED  BY <2>2, <2>3, <2>4, <2>5, <2>6, <2>7 DEF SigInv
<1>6. QED  BY <1>4, <1>5

\* A constructor goes on from the step it is at.
LEMMA FillKeeps ==
  ASSUME SigInv, UNCHANGED scene, NEW t \in Threads, Fill(t)
  PROVE  SigInv'
<1> DEFINE o == Top(t).obj
           f == [Top(t) EXCEPT !.at = "install"]
<1>1. /\ frames[t] # <<>> /\ Top(t).fn = "ctor" /\ Top(t).at = "fill" /\ Goto(t, f)
      /\ phase' = [phase EXCEPT ![o] = "filled"]
      /\ UNCHANGED <<instance, logged, stopped, answered, disp, deliveries>>
  BY DEF Fill, In
<1>2. /\ Top(t) \in Frame /\ Fits(Top(t)) /\ Held(t) /\ Base(t) = Top(t) /\ o \in Objects
  BY <1>1, TopIs DEF Fits
<1>3. phase[o] = "claimed" /\ SigTypes /\ instance = o
  BY <1>1, <1>2 DEF SigInv, BaseFits, PhaseAt, ObjectFits
<1>4. f \in Frame /\ Fits(f) /\ f.fn = "ctor" /\ f.at = "install" /\ f.obj = o /\ f.left = Signals
  BY <1>1, <1>2 DEF Frame, Fits
<1> HIDE DEF o, f
<1>5. /\ Threads' = Threads /\ frames' \in [Threads -> Seq(Frame)] /\ \A u \in Threads : FramesFit(u)'
      /\ Held(t)' /\ Base(t)' = f
      /\ \A u \in Threads \ {t} : (Held(u)' <=> Held(u)) /\ Base(u)' = Base(u)
      /\ HandlersFit(t)'
  BY <1>1, <1>4, BaseBecomes
<1>6. /\ phase' \in [Objects -> Phase] /\ phase'[o] = "filled"
      /\ \A p \in Objects \ {o} : phase'[p] = phase[p]
  BY <1>1, <1>2, <1>3 DEF SigTypes, Phase, o
<1>7. SigTypes'
  BY <1>1, <1>3, <1>5, <1>6 DEF SigTypes
<1>8. \A s \in Signals : disp[s] = "default"
  BY <1>3 DEF SigInv, Armed, Exists, SigTypes
<1>9. \A u \in Threads \ {t} : Held(u) => Base(u).obj # o /\ Base(u).obj \in Objects
  BY <1>2, HeldFits DEF SigInv, OneUser, o
<1>10. \A u \in Threads : BaseFits(u)'
  <2>1. BaseFits(t)'
    BY <1>4, <1>5, <1>6 DEF BaseFits, PhaseAt
  <2>2. \A u \in Threads \ {t} : BaseFits(u)'
    BY <1>1, <1>5, <1>6, <1>9 DEF SigInv, BaseFits
  <2>3. QED  BY <2>1, <2>2
<1>11. OneUser'
  BY <1>2, <1>4, <1>5 DEF SigInv, OneUser, o
<1>12. \A p \in Objects : ObjectFits(p)'
  BY <1>1, <1>2, <1>3, <1>6 DEF SigInv, ObjectFits, o
<1>13. Armed'
  BY <1>1, <1>8 DEF Armed
<1>14. AloneFits(t)'
  <2>1. InstallFits(t)'
    BY <1>4, <1>5 DEF InstallFits
  <2>2. \A p \in Objects : phase'[p] # "up"
    BY <1>3, <1>6 DEF SigInv, ObjectFits
  <2>3. QED  BY <1>5, <2>1, <2>2 DEF AloneFits, ArmedFits, AnsweredFits
<1>15. QED  BY <1>5, <1>7, <1>10, <1>11, <1>12, <1>13, <1>14 DEF SigInv

\* What ends on an object that is not up leaves none, or an up one.
LEMMA EndKeeps ==
  ASSUME SigInv, UNCHANGED scene, NEW t \in Threads, FillThrows(t) \/ Constructed(t) \/ Destroyed(t)
  PROVE  SigInv'
<1> DEFINE o == Top(t).obj
<1>1. /\ frames[t] # <<>> /\ Top(t).fn \in {"ctor", "dtor"} /\ Leave(t)
      /\ UNCHANGED <<logged, stopped, answered, disp, deliveries>>
  BY DEF FillThrows, Constructed, Destroyed, In
<1>2. /\ Top(t) \in Frame /\ Fits(Top(t)) /\ Held(t) /\ Base(t) = Top(t) /\ o \in Objects
  BY <1>1, TopIs DEF Fits
<1>3. SigTypes /\ phase[o] = PhaseAt(Top(t)) /\ Null \notin Objects
  BY <1>2, SignalAssumption DEF SigInv, BaseFits
<1> HIDE DEF o
<1>4. /\ Threads' = Threads /\ frames' \in [Threads -> Seq(Frame)] /\ \A u \in Threads : FramesFit(u)'
      /\ ~Held(t)'
      /\ \A u \in Threads \ {t} : (Held(u)' <=> Held(u)) /\ Base(u)' = Base(u)
      /\ HandlersFit(t)'
  BY <1>1, BaseLeaves
<1>5. \A u \in Threads \ {t} : Held(u) => Base(u).obj # o /\ Base(u).obj \in Objects
  BY <1>2, HeldFits DEF SigInv, OneUser, o
<1>6. OneUser'
  BY <1>4 DEF SigInv, OneUser
<1>7. InstallFits(t)'
  BY <1>4 DEF InstallFits
<1>8. CASE FillThrows(t)
  <2>1. phase' = [phase EXCEPT ![o] = "none"] /\ instance' = instance /\ phase[o] = "claimed"
    BY <1>3, <1>8 DEF FillThrows, In, o, PhaseAt
  <2>2. /\ phase' \in [Objects -> Phase] /\ phase'[o] = "none"
        /\ \A p \in Objects \ {o} : phase'[p] = phase[p]
    BY <1>2, <1>3, <2>1 DEF SigTypes, Phase, o
  <2>3. instance = o
    BY <1>2, <2>1 DEF SigInv, ObjectFits, o
  <2>4. \A p \in Objects : phase'[p] = "none"
    BY <2>2, <2>3 DEF SigInv, ObjectFits
  <2>5. \A s \in Signals : disp[s] = "default"
    BY <1>3, <2>1, <2>3 DEF SigInv, Armed, Exists, SigTypes
  <2>6. SigTypes'
    BY <1>1, <1>3, <1>4, <2>1, <2>2 DEF SigTypes
  <2>7. \A u \in Threads : BaseFits(u)'
    BY <1>1, <1>4, <1>5, <2>2 DEF SigInv, BaseFits
  <2>8. \A p \in Objects : ObjectFits(p)'
    BY <2>4 DEF ObjectFits
  <2>9. Armed'
    BY <1>1, <2>5 DEF Armed
  <2>10. AloneFits(t)'
    BY <1>4, <1>7, <2>4 DEF AloneFits, ArmedFits, AnsweredFits
  <2>11. QED  BY <1>4, <1>6, <2>6, <2>7, <2>8, <2>9, <2>10 DEF SigInv
<1>9. CASE Constructed(t)
  <2>1. /\ phase' = [phase EXCEPT ![o] = "up"] /\ instance' = instance /\ phase[o] = "filled"
        /\ Top(t).left = {} /\ Top(t).fn = "ctor" /\ Top(t).at = "install"
    BY <1>3, <1>9 DEF Constructed, In, o, PhaseAt
  <2>2. /\ phase' \in [Objects -> Phase] /\ phase'[o] = "up"
        /\ \A p \in Objects \ {o} : phase'[p] = phase[p]
    BY <1>2, <1>3, <2>1 DEF SigTypes, Phase, o
  <2>3. instance = o /\ answered[o] # "up"
    BY <1>2, <2>1 DEF SigInv, ObjectFits, o
  <2>4. \A p \in Objects \ {o} : phase'[p] = "none"
    BY <2>2, <2>3 DEF SigInv, ObjectFits, SigTypes
  <2>5. SigTypes'
    BY <1>1, <1>3, <1>4, <2>1, <2>2 DEF SigTypes
  <2>6. \A u \in Threads : BaseFits(u)'
    BY <1>1, <1>4, <1>5, <2>2 DEF SigInv, BaseFits
  <2>7. \A p \in Objects : ObjectFits(p)'
    BY <2>1, <2>2, <2>3, <2>4 DEF ObjectFits
  <2>8. Armed'
    BY <1>1, <1>2, <1>3, <2>1, <2>2, <2>3 DEF SigInv, Armed, Exists, o
  <2>9. ASSUME Threads = {t} PROVE AloneFits(t)'
    <3>1. AloneFits(t)
      BY <2>9 DEF SigInv
    <3>2. o \notin logged => \A s \in Signals : disp[s] = "ours"
      BY <1>2, <2>1, <3>1 DEF AloneFits, InstallFits, o
    <3>3. \A p \in Objects : ArmedFits(t, p)' /\ AnsweredFits(p)'
      BY <1>1, <2>3, <2>4, <3>2 DEF ArmedFits, AnsweredFits
    <3>4. QED  BY <1>4, <1>7, <3>3 DEF AloneFits
  <2>10. QED  BY <1>4, <1>6, <2>5, <2>6, <2>7, <2>8, <2>9 DEF SigInv
<1>10. CASE Destroyed(t)
  <2>1. /\ phase' = [phase EXCEPT ![o] = "none"] /\ instance' = Null /\ phase[o] = "up"
        /\ Top(t).left = {} /\ Top(t).fn = "dtor"
    BY <1>3, <1>10 DEF Destroyed, In, o, PhaseAt
  <2>2. /\ phase' \in [Objects -> Phase] /\ phase'[o] = "none"
        /\ \A p \in Objects \ {o} : phase'[p] = phase[p]
    BY <1>2, <1>3, <2>1 DEF SigTypes, Phase, o
  <2>3. instance = o
    BY <1>2, <2>1 DEF SigInv, ObjectFits, o
  <2>4. \A p \in Objects : phase'[p] = "none"
    BY <2>2, <2>3 DEF SigInv, ObjectFits
  <2>5. \A s \in Signals : disp[s] = "default"
    BY <1>2, <2>1 DEF SigInv, BaseFits
  <2>6. SigTypes'
    BY <1>1, <1>3, <1>4, <2>1, <2>2 DEF SigTypes
  <2>7. \A u \in Threads : BaseFits(u)'
    BY <1>1, <1>4, <1>5, <2>2 DEF SigInv, BaseFits
  <2>8. \A p \in Objects : ObjectFits(p)'
    BY <2>4 DEF ObjectFits
  <2>9. Armed'
    BY <1>1, <2>5 DEF Armed
  <2>10. AloneFits(t)'
    BY <1>4, <1>7, <2>4 DEF AloneFits, ArmedFits, AnsweredFits
  <2>11. QED  BY <1>4, <1>6, <2>6, <2>7, <2>8, <2>9, <2>10 DEF SigInv
<1>11. QED  BY <1>8, <1>9, <1>10

\* It installs our handler for one signal more.
LEMMA InstallKeeps ==
  ASSUME SigInv, UNCHANGED scene, NEW t \in Threads, Install(t)
  PROVE  SigInv'
<1> DEFINE o == Top(t).obj
<1>1. /\ frames[t] # <<>> /\ Top(t).fn = "ctor" /\ Top(t).at = "install"
      /\ UNCHANGED <<instance, phase, logged, stopped, answered, deliveries>>
  BY DEF Install, In
<1>2. PICK s \in Top(t).left :
        disp' = [disp EXCEPT ![s] = "ours"] /\ Goto(t, [Top(t) EXCEPT !.left = Top(t).left \ {s}])
  <2>1. Top(t) \in Frame
    BY <1>1, TopIs
  <2>2. QED  BY <2>1 DEF Install, Frame
<1> DEFINE f == [Top(t) EXCEPT !.left = Top(t).left \ {s}]
<1>3. /\ Top(t) \in Frame /\ Fits(Top(t)) /\ Held(t) /\ Base(t) = Top(t) /\ o \in Objects
  BY <1>1, TopIs DEF Fits
<1>4. /\ f \in Frame /\ Fits(f) /\ f.fn = "ctor" /\ f.at = "install" /\ f.obj = o
      /\ f.left = Top(t).left \ {s} /\ s \in Signals
  BY <1>1, <1>3 DEF Frame, Fits
<1>5. phase[o] = "filled" /\ SigTypes /\ instance = o /\ Null \notin Objects
  BY <1>1, <1>3, SignalAssumption DEF SigInv, BaseFits, PhaseAt, ObjectFits
<1>6. Goto(t, f)
  BY <1>2
<1> HIDE DEF o, f
<1>7. /\ Threads' = Threads /\ frames' \in [Threads -> Seq(Frame)] /\ \A u \in Threads : FramesFit(u)'
      /\ Held(t)' /\ Base(t)' = f
      /\ \A u \in Threads \ {t} : (Held(u)' <=> Held(u)) /\ Base(u)' = Base(u)
      /\ HandlersFit(t)'
  BY <1>1, <1>4, <1>6, BaseBecomes
<1>8. /\ disp' \in [Signals -> {"default", "ours"}] /\ disp'[s] = "ours"
      /\ \A r \in Signals \ {s} : disp'[r] = disp[r]
  BY <1>2, <1>4, <1>5 DEF SigTypes
<1>9. SigTypes'
  BY <1>1, <1>5, <1>7, <1>8 DEF SigTypes
<1>10. \A p \in Objects \ {o} : phase[p] = "none"
  BY <1>5 DEF SigInv, ObjectFits
<1>11. \A u \in Threads : BaseFits(u)'
  <2>1. BaseFits(t)'
    BY <1>1, <1>4, <1>5, <1>7 DEF BaseFits, PhaseAt
  <2>2. \A u \in Threads \ {t} : Held(u) => Base(u).obj # o /\ Base(u).obj \in Objects
    BY <1>3, HeldFits DEF SigInv, OneUser, o
  <2>3. \A u \in Threads \ {t} : Held(u) => Base(u).fn # "dtor"
    BY <1>10, <2>2 DEF SigInv, BaseFits, PhaseAt
  <2>4. \A u \in Threads \ {t} : BaseFits(u)'
    BY <1>1, <1>7, <2>3 DEF SigInv, BaseFits
  <2>5. QED  BY <2>1, <2>4
<1>12. OneUser'
  BY <1>3, <1>4, <1>7 DEF SigInv, OneUser, o
<1>13. \A p \in Objects : ObjectFits(p)'
  BY <1>1 DEF SigInv, ObjectFits
<1>14. Armed'
  BY <1>1, <1>3, <1>5 DEF Armed, Exists, o
<1>15. ASSUME Threads = {t} PROVE AloneFits(t)'
  <2>1. AloneFits(t)
    BY <1>15 DEF SigInv
  <2>2. InstallFits(t)'
    BY <1>1, <1>3, <1>4, <1>7, <1>8, <2>1 DEF AloneFits, InstallFits, o
  <2>3. \A p \in Objects : phase'[p] # "up"
    BY <1>1, <1>5, <1>10
  <2>4. QED  BY <1>7, <2>2, <2>3 DEF AloneFits, ArmedFits, AnsweredFits
<1>16. QED  BY <1>7, <1>9, <1>11, <1>12, <1>13, <1>14, <1>15 DEF SigInv

\* The destructor gives one signal back.
LEMMA RestoreKeeps ==
  ASSUME SigInv, UNCHANGED scene, NEW t \in Threads, SetDefault(t), Top(t).fn # "handler"
  PROVE  SigInv'
<1> DEFINE o == Top(t).obj
<1>1. /\ frames[t] # <<>> /\ Top(t).at = "restore"
      /\ UNCHANGED <<instance, phase, logged, stopped, answered, deliveries>>
  BY DEF SetDefault
<1>2. Top(t) \in Frame /\ Fits(Top(t)) /\ Held(t) /\ Base(t) = Top(t)
  BY <1>1, TopIs
<1>3. Top(t).fn = "dtor" /\ o \in Objects
  BY <1>1, <1>2 DEF Frame, Fits
<1>4. PICK s \in Top(t).left :
        disp' = [disp EXCEPT ![s] = "default"] /\ Goto(t, [Top(t) EXCEPT !.left = Top(t).left \ {s}])
  BY <1>2 DEF SetDefault, Frame
<1> DEFINE f == [Top(t) EXCEPT !.left = Top(t).left \ {s}]
<1>5. /\ f \in Frame /\ Fits(f) /\ f.fn = "dtor" /\ f.at = "restore" /\ f.obj = o
      /\ f.left = Top(t).left \ {s} /\ s \in Signals
  BY <1>1, <1>2, <1>3 DEF Frame, Fits
<1>6. phase[o] = "up" /\ SigTypes /\ instance = o
  BY <1>2, <1>3 DEF SigInv, BaseFits, PhaseAt, ObjectFits
<1>7. Goto(t, f)
  BY <1>4
<1> HIDE DEF o, f
<1>8. /\ Threads' = Threads /\ frames' \in [Threads -> Seq(Frame)] /\ \A u \in Threads : FramesFit(u)'
      /\ Held(t)' /\ Base(t)' = f
      /\ \A u \in Threads \ {t} : (Held(u)' <=> Held(u)) /\ Base(u)' = Base(u)
      /\ HandlersFit(t)'
  BY <1>1, <1>5, <1>7, BaseBecomes
<1>9. /\ disp' \in [Signals -> {"default", "ours"}] /\ disp'[s] = "default"
      /\ \A r \in Signals \ {s} : disp'[r] = disp[r]
  BY <1>4, <1>5, <1>6 DEF SigTypes
<1>10. SigTypes'
  BY <1>1, <1>6, <1>8, <1>9 DEF SigTypes
<1>11. \A u \in Threads : BaseFits(u)'
  <2>1. BaseFits(t)'
    BY <1>1, <1>2, <1>3, <1>5, <1>6, <1>8, <1>9 DEF SigInv, BaseFits, PhaseAt
  <2>2. \A u \in Threads \ {t} : BaseFits(u)'
    BY <1>1, <1>8, <1>9 DEF SigInv, BaseFits
  <2>3. QED  BY <2>1, <2>2
<1>12. OneUser'
  BY <1>2, <1>5, <1>8 DEF SigInv, OneUser, o
<1>13. \A p \in Objects : ObjectFits(p)'
  BY <1>1 DEF SigInv, ObjectFits
<1>14. Armed'
  BY <1>1, <1>9 DEF SigInv, Armed, Exists
<1>15. ASSUME Threads = {t} PROVE AloneFits(t)'
  <2>1. AloneFits(t)
    BY <1>15 DEF SigInv
  <2>2. InstallFits(t)'
    BY <1>5, <1>8 DEF InstallFits
  <2>3. \A p \in Objects \ {o} : phase[p] # "up"
    BY <1>6 DEF SigInv, ObjectFits
  <2>4. \A p \in Objects : ArmedFits(t, p)' /\ AnsweredFits(p)'
    BY <1>1, <1>5, <1>8, <1>9, <2>1, <2>3 DEF AloneFits, ArmedFits, AnsweredFits
  <2>5. QED  BY <1>8, <2>2, <2>4 DEF AloneFits
<1>16. QED  BY <1>8, <1>10, <1>11, <1>12, <1>13, <1>14, <1>15 DEF SigInv
-----------------------------------------------------------------------------
(* Signals.                                                                *)

\* A handler only takes handlers away and never touches the object's phase.
LEMMA HandlerKeeps ==
  ASSUME SigInv, SigTypes', UNCHANGED <<scene, instance, phase>>, Threads' = Threads,
         \A u \in Threads : FramesFit(u)',
         \A u \in Threads : (Held(u)' <=> Held(u)) /\ (Held(u) => Base(u)' = Base(u)),
         \A s \in Signals : disp'[s] = disp[s] \/ disp'[s] = "default",
         \A o \in Objects : answered'[o] = answered[o] \/ (phase[o] # "up" => answered'[o] # "up"),
         \A u \in Threads : Threads = {u} => AloneFits(u)'
  PROVE  SigInv'
<1>1. \A u \in Threads : BaseFits(u)'
  BY DEF SigInv, BaseFits
<1>2. OneUser'
  BY DEF SigInv, OneUser
<1>3. \A o \in Objects : ObjectFits(o)'
  BY DEF SigInv, ObjectFits
<1>4. Armed'
  BY DEF SigInv, Armed, Exists
<1>5. QED  BY <1>1, <1>2, <1>3, <1>4 DEF SigInv

\* What a thread's bases are for does not change with its handlers.
LEMMA AloneStays ==
  ASSUME SigInv, NEW t \in Threads, AloneFits(t), UNCHANGED <<phase, disp>>, logged \subseteq logged',
         Held(t)' <=> Held(t), Held(t) => Base(t)' = Base(t)
  PROVE  InstallFits(t)' /\ \A o \in Objects : ArmedFits(t, o)'
BY DEF AloneFits, InstallFits, ArmedFits

\* A signal interrupts a thread.
LEMMA DeliverKeeps ==
  ASSUME SigInv, UNCHANGED scene, NEW t \in Threads, NEW s \in Signals, NEW held \in BOOLEAN,
         Deliver(t, s, held)
  PROVE  SigInv'
<1>1. /\ deliveries < scene.deliveries /\ deliveries' = deliveries + 1
      /\ UNCHANGED <<instance, phase, logged, stopped, answered, disp>>
  BY DEF Deliver
<1>2. SigTypes /\ scene.deliveries \in Nat
  BY SignalAssumption DEF SigInv, SigTypes, IsScene
<1>3. deliveries' \in 0 .. scene'.deliveries
  BY <1>1, <1>2 DEF SigTypes
<1>4. Threads' = Threads
  BY DEF Threads, Builders, Receivers
<1>5. CASE disp[s] # "ours"
  <2>1. UNCHANGED frames
    BY <1>5 DEF Deliver
  <2>2. SigTypes'
    BY <1>1, <1>2, <1>3, <1>4, <2>1 DEF SigTypes
  <2>3. \A u \in Threads : FramesFit(u)' /\ (Held(u)' <=> Held(u)) /\ Base(u)' = Base(u)
    BY <2>1 DEF SigInv, FramesFit, Held, Base
  <2>4. \A u \in Threads : Threads = {u} => AloneFits(u)'
    BY <1>1, <2>1 DEF SigInv, AloneFits, HandlersFit, InstallFits, ArmedFits, AnsweredFits, Exists, Held, Base
  <2>5. QED  BY <1>1, <1>4, <2>2, <2>3, <2>4, HandlerKeeps
<1>6. CASE disp[s] = "ours"
  <2> DEFINE f == [fn |-> "handler", at |-> "load", obj |-> Null, left |-> {}, sig |-> s,
                   held |-> held]
  <2>1. Enter(t, f)
    BY <1>6 DEF Deliver
  <2>2. f \in Frame /\ Fits(f) /\ f.fn = "handler" /\ f.at = "load"
    BY DEF Frame, Fits
  <2> HIDE DEF f
  <2>3. /\ frames' \in [Threads -> Seq(Frame)] /\ \A u \in Threads : FramesFit(u)'
        /\ \A u \in Threads : (Held(u)' <=> Held(u)) /\ (Held(u) => Base(u)' = Base(u))
    BY <2>1, <2>2, BasesStay
  <2>4. SigTypes'
    BY <1>1, <1>2, <1>3, <1>4, <2>3 DEF SigTypes
  <2>5. ASSUME Threads = {t} PROVE AloneFits(t)'
    <3>1. AloneFits(t) /\ Exists(instance)
      BY <1>6, <2>5 DEF SigInv, Armed
    <3>2. /\ Len(frames[t]) \in Nat /\ Len(frames'[t]) = Len(frames[t]) + 1
          /\ \A i \in 1 .. Len(frames[t]) : frames'[t][i] = frames[t][i]
          /\ frames'[t][Len(frames[t]) + 1] = f
      BY <1>2, <2>1, <2>2, EnterIs
    <3>3. Exists(instance)'
      BY <1>1, <3>1 DEF Exists
    <3>4. HandlersFit(t)'
      <4> SUFFICES ASSUME NEW i \in 1 .. Len(frames'[t]), frames'[t][i].fn = "handler"
                   PROVE  /\ frames'[t][i].at # "load" => frames'[t][i].obj = instance'
                          /\ frames'[t][i].at \in {"request", "restore"} => frames'[t][i].obj \in logged'
                          /\ frames'[t][i].at = "restore" =>
                               \A r \in Signals \ frames'[t][i].left : disp'[r] = "default"
        BY <3>3 DEF HandlersFit
      <4>1. i \in 1 .. Len(frames[t]) \/ i = Len(frames[t]) + 1
        BY <3>2
      <4>2. CASE i \in 1 .. Len(frames[t])
        BY <1>1, <3>1, <3>2, <4>2 DEF AloneFits, HandlersFit
      <4>3. CASE i = Len(frames[t]) + 1
        BY <2>2, <3>2, <4>3
      <4>4. QED  BY <4>1, <4>2, <4>3
    <3>5. \A o \in Objects : AnsweredFits(o)'
      BY <1>1, <3>1 DEF AloneFits, AnsweredFits
    <3>6. QED  BY <1>1, <2>3, <3>1, <3>4, <3>5, AloneStays DEF AloneFits
  <2>6. \A u \in Threads : Threads = {u} => AloneFits(u)'
    BY <2>5
  <2>7. QED  BY <1>1, <1>4, <2>3, <2>4, <2>6, HandlerKeeps
<1>7. QED  BY <1>5, <1>6

\* A handler's next step.
LEMMA HandlerGoes ==
  ASSUME SigInv, UNCHANGED scene, NEW t \in Threads, frames[t] # <<>>, Top(t).fn = "handler",
         Load(t) \/ LogSignal(t) \/ RequestStop(t) \/ SetDefault(t)
  PROVE  SigInv'
<1>1. UNCHANGED <<instance, phase, answered, deliveries>> /\ Threads' = Threads
  BY DEF Load, LogSignal, RequestStop, SetDefault, Threads, Builders, Receivers
<1>2. Top(t) \in Frame /\ Fits(Top(t)) /\ SigTypes
  BY TopIs DEF SigInv
<1>3. frames[t] \in Seq(Frame) /\ Len(frames[t]) \in 1 .. Len(frames[t])
  <2>1. \A n \in Nat : n >= 1 => n \in 1 .. n
    OBVIOUS
  <2>2. QED  BY <1>2, <2>1, TopIs DEF SigTypes
<1>4. ASSUME NEW f \in Frame, Fits(f), f.fn = "handler", Goto(t, f),
             disp' \in [Signals -> {"default", "ours"}], logged' \subseteq Objects, logged \subseteq logged',
             stopped' \subseteq Objects,
             \A s \in Signals : disp'[s] = disp[s] \/ disp'[s] = "default",
             Threads = {t} =>
               /\ f.at # "load" => f.obj = instance
               /\ f.at \in {"request", "restore"} => f.obj \in logged'
               /\ f.at = "restore" => \A s \in Signals \ f.left : disp'[s] = "default"
               /\ disp' = disp \/ instance \in logged
      PROVE  SigInv'
  <2>1. /\ frames' \in [Threads -> Seq(Frame)] /\ \A u \in Threads : FramesFit(u)'
        /\ \A u \in Threads : (Held(u)' <=> Held(u)) /\ (Held(u) => Base(u)' = Base(u))
    BY <1>4, BasesStay
  <2>2. SigTypes'
    BY <1>1, <1>2, <1>4, <2>1 DEF SigTypes
  <2>3. ASSUME Threads = {t} PROVE AloneFits(t)'
    <3>1. AloneFits(t)
      BY <2>3 DEF SigInv
    <3>2. Exists(instance) /\ Exists(instance)'
      <4>1. Exists(instance)
        BY <1>3, <3>1 DEF AloneFits, HandlersFit, Top
      <4>2. QED  BY <1>1, <4>1 DEF Exists
    <3>3. /\ Len(frames[t]) \in Nat \ {0} /\ Len(frames'[t]) = Len(frames[t])
          /\ \A i \in 1 .. Len(frames[t]) - 1 : frames'[t][i] = frames[t][i]
          /\ frames'[t][Len(frames[t])] = f
      BY <1>2, <1>4, GotoIs
    <3>4. HandlersFit(t)'
      <4> SUFFICES ASSUME NEW i \in 1 .. Len(frames[t]), frames'[t][i].fn = "handler"
                   PROVE  /\ frames'[t][i].at # "load" => frames'[t][i].obj = instance'
                          /\ frames'[t][i].at \in {"request", "restore"} => frames'[t][i].obj \in logged'
                          /\ frames'[t][i].at = "restore" =>
                               \A s \in Signals \ frames'[t][i].left : disp'[s] = "default"
        BY <3>2, <3>3 DEF HandlersFit
      <4>1. CASE i = Len(frames[t])
        BY <1>1, <1>4, <2>3, <3>3, <4>1
      <4>2. CASE i # Len(frames[t])
        <5>1. i \in 1 .. Len(frames[t]) - 1
          BY <3>3, <4>2
        <5>2. frames'[t][i] = frames[t][i]
          BY <3>3, <5>1
        <5>3. /\ frames[t][i].at # "load" => frames[t][i].obj = instance
              /\ frames[t][i].at \in {"request", "restore"} => frames[t][i].obj \in logged
              /\ frames[t][i].at = "restore" =>
                   \A s \in Signals \ frames[t][i].left : disp[s] = "default"
          BY <3>1, <5>2 DEF AloneFits, HandlersFit
        <5>4. QED  BY <1>1, <1>4, <5>2, <5>3
      <4>3. QED  BY <4>1, <4>2
    <3>5. \A o \in Objects : AnsweredFits(o)'
      BY <1>1, <1>4, <3>1 DEF AloneFits, AnsweredFits
    <3>6. InstallFits(t)' /\ \A o \in Objects : ArmedFits(t, o)'
      <4>1. CASE disp' = disp
        BY <1>1, <1>4, <2>1, <3>1, <4>1, AloneStays
      <4>2. CASE instance \in logged
        <5>1. InstallFits(t)'
          <6> SUFFICES ASSUME Held(t)', Base(t)'.fn = "ctor", Base(t)'.at = "install", Base(t)'.obj \notin logged'
                       PROVE  FALSE
            BY DEF InstallFits
          <6>1. Held(t) /\ Base(t)' = Base(t)
            BY <2>1
          <6>2. phase[Base(t).obj] = "filled" /\ Base(t).obj \in Objects
            BY <6>1, HeldFits DEF SigInv, BaseFits, PhaseAt
          <6>3. instance = Base(t).obj
            BY <6>2 DEF SigInv, ObjectFits
          <6>4. QED  BY <1>4, <4>2, <6>1, <6>3
        <5>2. \A o \in Objects : phase[o] = "up" => o \in logged'
          BY <1>4, <4>2 DEF SigInv, ObjectFits
        <5>3. QED  BY <1>1, <5>1, <5>2 DEF ArmedFits
      <4>3. QED  BY <1>4, <2>3, <4>1, <4>2
    <3>7. QED  BY <3>4, <3>5, <3>6 DEF AloneFits
  <2>4. \A u \in Threads : Threads = {u} => AloneFits(u)'
    BY <2>3
  <2>5. QED  BY <1>1, <1>4, <2>1, <2>2, <2>4, HandlerKeeps
<1>5. CASE Load(t)
  <2> DEFINE f == [Top(t) EXCEPT !.at = "log", !.obj = instance]
  <2>1. f \in Frame /\ Fits(f) /\ f.fn = "handler" /\ f.at = "log" /\ f.obj = instance
    BY <1>2 DEF Frame, Fits, SigTypes
  <2>2. Goto(t, f) /\ UNCHANGED <<logged, stopped, disp>>
    BY <1>5 DEF Load
  <2> HIDE DEF f
  <2>3. QED  BY <1>2, <1>4, <2>1, <2>2 DEF SigTypes
<1>6. CASE RequestStop(t)
  <2> DEFINE f == [Top(t) EXCEPT !.at = "restore", !.left = Signals]
  <2>1. /\ f \in Frame /\ Fits(f) /\ f.fn = "handler" /\ f.at = "restore" /\ f.obj = Top(t).obj
        /\ f.left = Signals
    BY <1>2 DEF Frame, Fits
  <2>2. /\ Goto(t, f) /\ UNCHANGED <<logged, disp>> /\ Exists(Top(t).obj)
        /\ stopped' = stopped \union ({Top(t).obj} \intersect scene.sources)
    BY <1>6 DEF RequestStop
  <2>3. Top(t).obj \in Objects
    BY <1>2, <2>2 DEF Frame, Exists
  <2>4. Threads = {t} => Top(t).obj = instance /\ Top(t).obj \in logged
    BY <1>3, <1>6 DEF SigInv, AloneFits, HandlersFit, Top, RequestStop, In
  <2> HIDE DEF f
  <2>5. QED  BY <1>2, <1>4, <2>1, <2>2, <2>3, <2>4 DEF SigTypes
<1>7. CASE SetDefault(t)
  <2>1. PICK s \in Top(t).left :
          disp' = [disp EXCEPT ![s] = "default"] /\ Goto(t, [Top(t) EXCEPT !.left = Top(t).left \ {s}])
    BY <1>2, <1>7 DEF SetDefault, Frame
  <2> DEFINE f == [Top(t) EXCEPT !.left = Top(t).left \ {s}]
  <2>2. /\ f \in Frame /\ Fits(f) /\ f.fn = "handler" /\ f.at = Top(t).at /\ f.obj = Top(t).obj
        /\ f.left = Top(t).left \ {s} /\ s \in Signals
    BY <1>2 DEF Frame, Fits
  <2>3. Goto(t, f) /\ UNCHANGED <<logged, stopped>> /\ Top(t).at = "restore"
    BY <1>7, <2>1 DEF SetDefault
  <2> HIDE DEF f
  <2>4. /\ disp' \in [Signals -> {"default", "ours"}] /\ disp'[s] = "default"
        /\ \A r \in Signals \ {s} : disp'[r] = disp[r]
    BY <1>2, <2>1, <2>2 DEF SigTypes
  <2>5. ASSUME Threads = {t}
        PROVE  /\ Top(t).obj = instance /\ Top(t).obj \in logged
               /\ \A r \in Signals \ Top(t).left : disp[r] = "default"
    BY <1>3, <2>3, <2>5 DEF SigInv, AloneFits, HandlersFit, Top
  <2>6. QED  BY <1>2, <1>4, <2>2, <2>3, <2>4, <2>5 DEF SigTypes
<1>8. CASE LogSignal(t)
  <2> DEFINE f == [Top(t) EXCEPT !.at = "request"]
  <2>1. f \in Frame /\ Fits(f) /\ f.fn = "handler" /\ f.at = "request" /\ f.obj = Top(t).obj
    BY <1>2 DEF Frame, Fits
  <2>2. /\ Goto(t, f) /\ UNCHANGED <<stopped, disp>> /\ Exists(Top(t).obj)
        /\ logged' = logged \union {Top(t).obj}
    BY <1>8 DEF LogSignal
  <2>3. Top(t).obj \in Objects
    BY <1>2, <2>2 DEF Frame, Exists
  <2>4. Threads = {t} => Top(t).obj = instance
    BY <1>3, <1>8 DEF SigInv, AloneFits, HandlersFit, Top, LogSignal, In
  <2> HIDE DEF f
  <2>5. QED  BY <1>2, <1>4, <2>1, <2>2, <2>3, <2>4 DEF SigTypes
<1>9. QED  BY <1>5, <1>6, <1>7, <1>8

\* The handler is done with the stop and goes on to give signals back.
LEMMA HandledKeeps ==
  ASSUME SigInv, UNCHANGED scene, NEW t \in Threads, Handled(t)
  PROVE  SigInv'
<1> DEFINE o == Top(t).obj
           when == IF phase[o] = "up" THEN "up" ELSE "early"
<1>1. /\ frames[t] # <<>> /\ Top(t).fn = "handler" /\ Top(t).at = "restore" /\ Top(t).left = {}
      /\ Exists(o) /\ answered' = [answered EXCEPT ![o] = when] /\ Leave(t)
      /\ UNCHANGED <<instance, phase, logged, stopped, disp, deliveries>>
  BY DEF Handled, In
<1>2. Top(t) \in Frame /\ SigTypes /\ Threads' = Threads
  BY <1>1, TopIs DEF SigInv, Threads, Builders, Receivers
<1>3. o \in Objects /\ when \in {"early", "up"} /\ (phase[o] # "up" => when # "up")
  BY <1>1, <1>2 DEF Frame, Exists
<1> HIDE DEF when
<1>4. /\ answered' \in [Objects -> {"no", "early", "up"}] /\ answered'[o] = when
      /\ \A p \in Objects \ {o} : answered'[p] = answered[p]
  BY <1>1, <1>2, <1>3 DEF SigTypes
<1>5. /\ frames' \in [Threads -> Seq(Frame)] /\ \A u \in Threads : FramesFit(u)'
      /\ \A u \in Threads : (Held(u)' <=> Held(u)) /\ (Held(u) => Base(u)' = Base(u))
  BY <1>1, BasesStay
<1>6. SigTypes'
  BY <1>1, <1>2, <1>4, <1>5 DEF SigTypes
<1>7. ASSUME Threads = {t} PROVE AloneFits(t)'
  <2>1. AloneFits(t)
    BY <1>7 DEF SigInv
  <2>2. frames[t] \in Seq(Frame) /\ Len(frames[t]) \in 1 .. Len(frames[t])
    <3>1. \A n \in Nat : n >= 1 => n \in 1 .. n
      OBVIOUS
    <3>2. QED  BY <1>1, <1>2, <3>1, TopIs DEF SigTypes
  <2>3. \A s \in Signals : disp[s] = "default"
    BY <1>1, <2>1, <2>2 DEF AloneFits, HandlersFit, Top
  <2>4. HandlersFit(t)'
    <3>1. /\ Len(frames[t]) \in Nat \ {0} /\ Len(frames'[t]) = Len(frames[t]) - 1
          /\ \A i \in 1 .. Len(frames[t]) - 1 : frames'[t][i] = frames[t][i]
      BY <1>1, <1>2, LeaveIs
    <3>2. \A i \in 1 .. Len(frames'[t]) : i \in 1 .. Len(frames[t]) /\ frames'[t][i] = frames[t][i]
      BY <3>1
    <3>3. QED  BY <1>1, <2>1, <3>2 DEF AloneFits, HandlersFit, Exists
  <2>5. \A p \in Objects : AnsweredFits(p)'
    BY <1>1, <2>3 DEF AnsweredFits
  <2>6. QED  BY <1>1, <1>5, <2>1, <2>4, <2>5, AloneStays DEF AloneFits
<1>8. \A u \in Threads : Threads = {u} => AloneFits(u)'
  BY <1>7
<1>9. QED  BY <1>1, <1>2, <1>3, <1>4, <1>5, <1>6, <1>8, HandlerKeeps

\* It says nothing of the other variables.
LEMMA SigInvSame ==
  ASSUME SigInv, UNCHANGED <<scene, instance, phase, logged, stopped, answered, disp, frames, deliveries>>
  PROVE  SigInv'
<1>1. SigTypes' /\ Threads' = Threads
  BY DEF SigInv, SigTypes, Threads, Builders, Receivers
<1>2. \A u \in Threads : FramesFit(u)' /\ (Held(u)' <=> Held(u)) /\ Base(u)' = Base(u)
  BY DEF SigInv, FramesFit, Held, Base
<1>3. \A u \in Threads : Threads = {u} => AloneFits(u)'
  BY DEF SigInv, AloneFits, HandlersFit, InstallFits, ArmedFits, AnsweredFits, Exists, Held, Base
<1>4. QED  BY <1>1, <1>2, <1>3, HandlerKeeps

\* Every step keeps the invariant.
LEMMA SigInvStep == SigInv /\ [Next]_vars => SigInv'
<1> SUFFICES ASSUME SigInv, [Next]_vars PROVE SigInv'
  OBVIOUS
<1>1. CASE UNCHANGED vars
  BY <1>1, SigInvSame DEF vars
<1>2. ASSUME UNCHANGED scene, NEW t \in Threads, Step(t) PROVE SigInv'
  <2>1. ASSUME NEW o \in Objects, Construct(t, o) \/ Destroy(t, o) PROVE SigInv'
    BY <1>2, <2>1, BeginKeeps
  <2>2. CASE Claim(t)
    BY <1>2, <2>2, ClaimKeeps
  <2>3. CASE Fill(t)
    BY <1>2, <2>3, FillKeeps
  <2>4. CASE FillThrows(t) \/ Constructed(t) \/ Destroyed(t)
    BY <1>2, <2>4, EndKeeps
  <2>5. CASE Install(t)
    BY <1>2, <2>5, InstallKeeps
  <2>6. CASE SetDefault(t)
    <3>1. frames[t] # <<>>
      BY <2>6 DEF SetDefault
    <3>2. QED  BY <1>2, <2>6, <3>1, RestoreKeeps, HandlerGoes
  <2>7. CASE Load(t) \/ LogSignal(t) \/ RequestStop(t)
    <3>1. frames[t] # <<>> /\ Top(t).fn = "handler"
      BY <2>7 DEF Load, LogSignal, RequestStop, In
    <3>2. QED  BY <1>2, <2>7, <3>1, HandlerGoes
  <2>8. CASE Handled(t)
    BY <1>2, <2>8, HandledKeeps
  <2>9. CASE Undefined(t)
    BY <1>2, <2>9, SigInvSame DEF Undefined
  <2>10. ASSUME NEW s \in Signals, NEW held \in BOOLEAN, Deliver(t, s, held) PROVE SigInv'
    BY <1>2, <2>10, DeliverKeeps
  <2>11. QED  BY <1>2, <2>1, <2>2, <2>3, <2>4, <2>5, <2>6, <2>7, <2>8, <2>9, <2>10 DEF Step, HandlerStep
<1>3. QED  BY <1>1, <1>2 DEF Next

\* killed stays a truth value.
LEMMA KilledStep == (killed \in BOOLEAN) /\ [Next]_vars => (killed \in BOOLEAN)'
<1> SUFFICES ASSUME killed = TRUE \/ killed = FALSE, [Next]_vars PROVE killed' = TRUE \/ killed' = FALSE
  BY Zenon
<1>1. killed' = TRUE \/ killed' = killed
  BY DEF Next, Step, HandlerStep, Construct, Destroy, Claim, Fill, FillThrows, Install, Constructed,
         Destroyed, Load, LogSignal, RequestStop, Handled, SetDefault, Undefined, Deliver, vars
<1>2. QED  BY <1>1

\* On one thread a handler that has looked up the instance finds an object that
\* exists, whatever it has interrupted (the handler in signal_handler.cpp).
THEOREM FindsObject == Spec => []HandlerFindsObject
<1>1. SigInv => HandlerFindsObject
  BY SigInvSuffices
<1>2. QED  BY <1>1, SigInitInv, SigInvStep, PTL DEF Spec

\* There is one instance at a time; on one thread it is installed for every
\* signal until it is signalled, the next signal then kills, and nothing stays
\* installed once it is gone (constructor and destructor of SignalHandler).
THEOREM Armedness == Spec => []InstanceIsArmed
<1> DEFINE Killed == killed \in BOOLEAN
<1>1. Init => Killed
  BY DEF Init
<1>2. SigInv /\ Killed => InstanceIsArmed
  <2> SUFFICES ASSUME SigInv, Killed PROVE InstanceIsArmed
    OBVIOUS
  <2>1. SingleInstance /\ ArmedUntilSignalled /\ NextOneKills /\ NothingArmedAfterEnd
    BY SigInvSuffices
  <2>2. TypeOK
    <3>1. \A t \in Threads : \A i \in DOMAIN frames[t] : frames[t][i] \in Frame
      BY DEF SigInv, SigTypes
    <3>2. QED  BY <3>1 DEF TypeOK, SigInv, SigTypes
  <2>3. QED  BY <2>1, <2>2 DEF InstanceIsArmed
<1>3. QED  BY <1>1, <1>2, SigInitInv, SigInvStep, KilledStep, PTL DEF Spec

-----------------------------------------------------------------------------
(* A checked system call.                                                  *)

\* At every place the macro is the one for the call's convention.
MacrosFit == \A s \in Sites : \A v \in s.gives : Satisfies(s.pred, v) <=> v \in s.failing

\* Where a call leaves no errno, the place has a message of its own.
ErrnoOrMessage == \A s \in Sites : s.sets \/ s.errmsg # Nullptr

\* The errno of a failed call is there until it has been sampled, and from then
\* on the local has it.
CheckedInv ==
  /\ stage \in {"idle", "called", "sampled", "out", "dead"}
  /\ stage # "idle" => site \in Sites /\ value \in site.gives
  /\ stage = "called" /\ value \in site.failing /\ site.sets => errno = left
  /\ stage = "sampled" /\ value \in site.failing /\ site.sets => err = left
  /\ FailuresAreTold

\* Where errno is sampled before anything else can change it, each macro tests
\* for what its call returns on failure and a place whose call leaves no errno
\* passes a message, every failed system call is told of: by the message its
\* place passes along, or else by the errno the call left (fail_if, Throw,
\* Terminate and Log in check_c_call.cpp, and their callers).
THEOREM FailuresTold ==
  ASSUME KeepErrno, MacrosFit, ErrnoOrMessage
  PROVE  CheckedInit /\ [][CheckedNext]_checkedVars => []FailuresAreTold
<1> USE DEF FailuresAreTold, FailuresAreSeen, ErrorIsTheCalls
<1>1. CheckedInit => CheckedInv
  BY DEF CheckedInit, CheckedInv
<1>2. CheckedInv /\ [CheckedNext]_checkedVars => CheckedInv'
  <2> SUFFICES ASSUME CheckedInv, [CheckedNext]_checkedVars  PROVE CheckedInv'
    OBVIOUS
  <2>1. ASSUME NEW s \in Sites, NEW v \in s.gives, NEW e \in Errnos, SystemCall(s, v, e)
        PROVE  CheckedInv'
    BY <2>1 DEF CheckedInv, SystemCall
  <2>2. CASE Sample
    BY <2>2 DEF CheckedInv, Sample
  <2>3. CASE PassOn
    BY <2>3 DEF CheckedInv, PassOn, MacrosFit
  <2>4. CASE FailIf
    <3>1. site.act # "returns"
      BY <2>4, CheckedAssumption DEF CheckedInv, FailIf, IsSite
    <3>2. value \in site.failing /\ site \in Sites
      BY <2>4 DEF CheckedInv, FailIf, MacrosFit
    <3>3. site.errmsg = Nullptr => err = left
      BY <2>4, <3>2, ErrnoOrMessage DEF CheckedInv, FailIf, ErrnoOrMessage
    <3>4. QED  BY <2>4, <3>1, <3>2, <3>3 DEF CheckedInv, FailIf, Report
  <2>5. ASSUME NEW e \in Errnos, OthersChangeErrno(e)
        PROVE  CheckedInv'
    BY <2>5 DEF CheckedInv, OthersChangeErrno
  <2>6. CASE UNCHANGED checkedVars
    BY <2>6 DEF CheckedInv, checkedVars
  <2>7. QED  BY <2>1, <2>2, <2>3, <2>4, <2>5, <2>6 DEF CheckedNext
<1>3. CheckedInv => FailuresAreTold
  BY DEF CheckedInv
<1>4. QED  BY <1>1, <1>2, <1>3, PTL

-----------------------------------------------------------------------------
(* A dialogue over a stream.                                               *)

\* Every variable has its type.
StreamTypes ==
  /\ script \in [Ends -> Seq(Calls)]
  /\ done \in [Ends -> Nat]
  /\ past \in [Ends -> [read : Nat, write : Nat]]
  /\ wire \in [Ends -> Seq(Nat)] /\ got \in [Ends -> Seq(Nat)]
  /\ DOMAIN state = Ends
  /\ DOMAIN told = Ends

\* The loop of a call counts up to its buffer, and nothing between calls.
DoneFits(e) ==
  /\ Doing(e, "read") \/ Doing(e, "write") => done[e] <= Asked(e)
  /\ script[e] = <<>> \/ Head(script[e]).does = "mode" => done[e] = 0

\* The bytes that come after the first n.
Numbered(bytes, n) == \A i \in 1 .. Len(bytes) : bytes[i] = n + i

\* What the peer of e has read and what it has not is what e wrote, byte by byte.
Stream(e) ==
  /\ Len(got[Peer(e)]) + Len(wire[e]) = Counted(e, "write")
  /\ Numbered(got[Peer(e)], 0) /\ Numbered(wire[e], Len(got[Peer(e)]))
  /\ Len(got[e]) = Counted(e, "read")

\* Who was told of the end of the file has closed, over an empty stream of a
\* peer that has.
ToldAtEnd(e) ==
  told[e] # <<>> =>
    /\ ~Running(e) /\ ~Running(Peer(e)) /\ wire[Peer(e)] = <<>>
    /\ told[e] = <<Len(got[e]) - past[e].read, Asked(e)>>

\* The inductive invariant.
StreamInv == StreamTypes /\ \A e \in Ends : DoneFits(e) /\ Stream(e) /\ ToldAtEnd(e)

\* There are two ends, each the peer of the other.
LEMMA TwoEnds ==
  ASSUME NEW e \in Ends
  PROVE  /\ Peer(e) \in Ends /\ Peer(e) # e /\ Peer(Peer(e)) = e
         /\ \A f \in Ends : f = e \/ f = Peer(e)
BY TransferAssumption DEF Peer

\* What an end has transferred is a number.
LEMMA CountedType ==
  ASSUME StreamTypes, NEW e \in Ends, NEW what \in {"read", "write"}
  PROVE  Counted(e, what) \in Nat
BY DEF StreamTypes, Counted

\* Bytes that go on where others have ended.
LEMMA Joined ==
  ASSUME NEW s \in Seq(Nat), NEW t \in Seq(Nat), NEW n \in Nat,
         Numbered(s, n), Numbered(t, n + Len(s))
  PROVE  /\ s \o t \in Seq(Nat) /\ Len(s \o t) = Len(s) + Len(t)
         /\ Numbered(s \o t, n)
<1>1. /\ s \o t \in Seq(Nat) /\ Len(s \o t) = Len(s) + Len(t)
      /\ \A i \in 1 .. Len(s) + Len(t) : (s \o t)[i] = IF i <= Len(s) THEN s[i] ELSE t[i - Len(s)]
  BY ConcatProperties
<1>2. Len(s) \in Nat /\ Len(t) \in Nat
  OBVIOUS
<1>3. ASSUME NEW i \in 1 .. Len(s) + Len(t)
      PROVE  (s \o t)[i] = n + i
  BY <1>1, <1>2 DEF Numbered
<1>4. QED  BY <1>1, <1>3 DEF Numbered

\* A front and the rest.
LEMMA Cut ==
  ASSUME NEW t \in Seq(Nat), NEW n \in Nat, Numbered(t, n), NEW k \in 1 .. Len(t)
  PROVE  LET front == SubSeq(t, 1, k)
             rest == SubSeq(t, k + 1, Len(t))
         IN  /\ front \in Seq(Nat) /\ Len(front) = k /\ Numbered(front, n)
             /\ rest \in Seq(Nat) /\ Len(rest) = Len(t) - k /\ Numbered(rest, n + k)
<1>1. Len(t) \in Nat
  OBVIOUS
<1>2. /\ SubSeq(t, 1, k) \in Seq(Nat) /\ Len(SubSeq(t, 1, k)) = k
      /\ \A i \in 1 .. k : SubSeq(t, 1, k)[i] = t[i]
  BY <1>1
<1>3. /\ SubSeq(t, k + 1, Len(t)) \in Seq(Nat) /\ Len(SubSeq(t, k + 1, Len(t))) = Len(t) - k
      /\ \A i \in 1 .. Len(t) - k : SubSeq(t, k + 1, Len(t))[i] = t[k + i]
  BY <1>1
<1>4. QED  BY <1>1, <1>2, <1>3 DEF Numbered

\* All of a stream from its beginning.
LEMMA NumberedIs ==
  ASSUME NEW s \in Seq(Nat), Numbered(s, 0)
  PROVE  s = [i \in 1 .. Len(s) |-> i]
<1> DEFINE n == Len(s)
           all == [i \in 1 .. n |-> i]
<1>1. n \in Nat /\ \A i \in 1 .. n : s[i] = i
  BY DEF Numbered
<1> HIDE DEF n
<1>2. all \in Seq(Nat) /\ Len(all) = n /\ \A i \in 1 .. n : all[i] = i
  BY <1>1
<1> HIDE DEF all
<1>3. s = all
  BY <1>1, <1>2, SeqEqual DEF n
<1>4. QED  BY <1>3 DEF all, n

\* The invariant implies what is promised.
LEMMA StreamInvSuffices == StreamInv => StreamIsTrue
<1> SUFFICES ASSUME StreamInv, NEW e \in Ends
             PROVE  /\ got[Peer(e)] \o wire[e] = [i \in 1 .. Counted(e, "write") |-> i]
                    /\ Len(got[e]) = Counted(e, "read")
                    /\ told[e] # <<>> =>
                         /\ ~Running(Peer(e)) /\ Len(got[e]) = Counted(Peer(e), "write")
                         /\ told[e] = <<Len(got[e]) - past[e].read, Asked(e)>>
  BY DEF StreamIsTrue, BytesInOrder, EndOfFileIsTrue
<1>1. Stream(e) /\ Stream(Peer(e)) /\ ToldAtEnd(e) /\ StreamTypes
  BY TwoEnds DEF StreamInv
<1>2. got[Peer(e)] \in Seq(Nat) /\ got[e] \in Seq(Nat) /\ wire[e] \in Seq(Nat)
  BY <1>1, TwoEnds DEF StreamTypes
<1>3. got[Peer(e)] \o wire[e] = [i \in 1 .. Counted(e, "write") |-> i]
  <2>1. Numbered(got[Peer(e)], 0) /\ Numbered(wire[e], 0 + Len(got[Peer(e)]))
    BY <1>1, <1>2 DEF Stream
  <2>2. /\ got[Peer(e)] \o wire[e] \in Seq(Nat) /\ Numbered(got[Peer(e)] \o wire[e], 0)
        /\ Len(got[Peer(e)] \o wire[e]) = Len(got[Peer(e)]) + Len(wire[e])
    BY <1>2, <2>1, Joined
  <2>3. Len(got[Peer(e)] \o wire[e]) = Counted(e, "write")
    BY <1>1, <2>2 DEF Stream
  <2>4. QED  BY <2>2, <2>3, NumberedIs
<1>4. ASSUME told[e] # <<>>
      PROVE  ~Running(Peer(e)) /\ Len(got[e]) = Counted(Peer(e), "write")
  <2>1. Len(got[Peer(Peer(e))]) + Len(wire[Peer(e)]) = Counted(Peer(e), "write")
    BY <1>1 DEF Stream
  <2>2. ~Running(Peer(e)) /\ wire[Peer(e)] = <<>>
    BY <1>1, <1>4 DEF ToldAtEnd
  <2>3. Len(wire[Peer(e)]) = 0 /\ Len(got[e]) \in Nat
    BY <1>2, <2>2
  <2>4. Len(got[e]) + 0 = Counted(Peer(e), "write")
    BY <2>1, <2>3, TwoEnds
  <2>5. QED  BY <2>2, <2>3, <2>4
<1>5. QED  BY <1>1, <1>3, <1>4 DEF Stream, ToldAtEnd

-----------------------------------------------------------------------------
\* It holds at the start.
LEMMA StreamInitInv == TransferInit => StreamInv
<1> SUFFICES ASSUME TransferInit PROVE StreamInv
  OBVIOUS
<1>1. script \in [Ends -> Seq(Calls)]
  BY TransferAssumption DEF TransferInit, IsDialogue
<1>2. /\ done = [e \in Ends |-> 0] /\ past = [e \in Ends |-> [read |-> 0, write |-> 0]]
      /\ wire = [e \in Ends |-> <<>>] /\ got = [e \in Ends |-> <<>>]
      /\ state = [e \in Ends |-> "running"] /\ told = [e \in Ends |-> <<>>]
  BY DEF TransferInit
<1>3. StreamTypes
  BY <1>1, <1>2 DEF StreamTypes
<1>4. ASSUME NEW e \in Ends
      PROVE  DoneFits(e) /\ Stream(e) /\ ToldAtEnd(e)
  <2>1. Peer(e) \in Ends
    BY TwoEnds
  <2>2. got[Peer(e)] = <<>> /\ wire[e] = <<>> /\ got[e] = <<>> /\ told[e] = <<>> /\ done[e] = 0
    BY <1>2, <2>1
  <2>3. Len(<<>>) = 0
    OBVIOUS
  <2>4. Counted(e, "write") = 0 /\ Counted(e, "read") = 0
    BY <1>2 DEF Counted
  <2>5. DoneFits(e)
    <3>1. script[e] \in Seq(Calls)
      BY <1>1
    <3>2. ASSUME script[e] # <<>> PROVE Asked(e) \in Nat
      <4>1. Head(script[e]) \in Calls
        BY <3>1, <3>2
      <4>2. QED  BY <4>1 DEF Asked, Calls
    <3>3. QED  BY <2>2, <3>2 DEF DoneFits, Doing
  <2>6. QED  BY <2>2, <2>3, <2>4, <2>5 DEF Stream, Numbered, ToldAtEnd
<1>5. QED  BY <1>3, <1>4 DEF StreamInv

\* As long as an end runs, neither has been told of the end of the file.
LEMMA RunningUntold ==
  ASSUME StreamInv, NEW e \in Ends, Running(e)
  PROVE  told[e] = <<>> /\ told[Peer(e)] = <<>>
BY TwoEnds DEF StreamInv, ToldAtEnd

\* The call an end is in.
LEMMA CallType ==
  ASSUME StreamTypes, NEW e \in Ends, script[e] # <<>>
  PROVE  /\ Head(script[e]) \in Calls /\ Asked(e) \in Nat
         /\ Head(script[e]).does \in {"read", "write", "mode"}
         /\ Tail(script[e]) \in Seq(Calls) /\ done[e] \in Nat
<1>1. script[e] \in Seq(Calls) /\ done[e] \in Nat
  BY DEF StreamTypes
<1>2. Head(script[e]) \in Calls /\ Tail(script[e]) \in Seq(Calls)
  BY <1>1
<1>3. QED  BY <1>1, <1>2 DEF Calls, Asked

\* An end that throws stops, with what it was told.
LEMMA ThrowsKeep ==
  ASSUME StreamInv, NEW e \in Ends, Running(e), NEW what, Throws(e, what), UNCHANGED dialogue,
         what # <<>> =>
           /\ ~Running(Peer(e)) /\ wire[Peer(e)] = <<>>
           /\ what = <<Len(got[e]) - past[e].read, Asked(e)>>
  PROVE  StreamInv'
<1> DEFINE p == Peer(e)
<1>1. told[e] = <<>> /\ told[p] = <<>>
  BY RunningUntold
<1>2. p \in Ends /\ p # e /\ Peer(p) = e /\ \A f \in Ends : f = e \/ f = p
  BY TwoEnds
<1> HIDE DEF p
<1>3. StreamTypes'
  BY DEF StreamInv, StreamTypes, Throws
<1>4. ASSUME NEW f \in Ends
      PROVE  DoneFits(f)' /\ Stream(f)'
  <2>1. DoneFits(f)'
    <3>1. Running(f)' => Running(f)
      BY DEF StreamInv, StreamTypes, Throws, Running
    <3>2. QED  BY <3>1 DEF StreamInv, DoneFits, Doing, Asked, Throws
  <2>2. Stream(f)'
    BY DEF StreamInv, Stream, Counted, Throws, Numbered
  <2>3. QED  BY <2>1, <2>2
<1>5. /\ told'[e] = what /\ told'[p] = <<>> /\ state'[e] = "failed" /\ state'[p] = state[p]
  BY <1>1, <1>2 DEF StreamInv, StreamTypes, Throws
<1>6. ToldAtEnd(e)' /\ ToldAtEnd(p)'
  BY <1>2, <1>5 DEF ToldAtEnd, Running, Throws, Asked, p
<1>7. QED  BY <1>2, <1>3, <1>4, <1>6 DEF StreamInv

\* A read that fails, or finds the end of the file.
LEMMA ReadsKeep ==
  ASSUME StreamInv, NEW e \in Ends, UNCHANGED dialogue, ReadEnd(e) \/ ReadError(e)
  PROVE  StreamInv'
<1>1. Running(e) /\ script[e] # <<>> /\ Head(script[e]).does = "read"
  BY DEF ReadEnd, ReadError, InMiddle, Doing
<1>2. CASE ReadError(e)
  BY <1>1, <1>2, ThrowsKeep DEF ReadError
<1>3. CASE ReadEnd(e)
  <2>1. Len(got[e]) = past[e].read + done[e]
    BY <1>1 DEF StreamInv, Stream, Counted
  <2>2. past[e].read \in Nat /\ done[e] \in Nat
    BY DEF StreamInv, StreamTypes
  <2>3. done[e] = Len(got[e]) - past[e].read
    BY <2>1, <2>2
  <2>4. QED  BY <1>1, <1>3, <2>3, ThrowsKeep DEF ReadEnd
<1>4. QED  BY <1>2, <1>3

\* A write that fails.
LEMMA WriteErrorKeeps ==
  ASSUME StreamInv, NEW e \in Ends, UNCHANGED dialogue, WriteError(e)
  PROVE  StreamInv'
BY ThrowsKeep DEF WriteError, InMiddle, Doing

\* The kernel hands over a part of what is on the wire.
LEMMA ReadSomeKeeps ==
  ASSUME StreamInv, NEW e \in Ends, UNCHANGED dialogue, ReadSome(e)
  PROVE  StreamInv'
<1> DEFINE p == Peer(e)
           w == wire[p]
<1>1. /\ Running(e) /\ script[e] # <<>> /\ Head(script[e]).does = "read" /\ done[e] < Asked(e)
      /\ UNCHANGED <<script, past, blocking, state, told>>
  BY DEF ReadSome, InMiddle, Doing
<1>2. p \in Ends /\ p # e /\ Peer(p) = e /\ \A f \in Ends : f = e \/ f = p
  BY TwoEnds
<1>3. StreamTypes /\ DoneFits(e) /\ Stream(e) /\ DoneFits(p) /\ Stream(p)
  BY <1>2 DEF StreamInv
<1>4. Asked(e) \in Nat /\ done[e] \in Nat /\ past[e].read \in Nat
  BY <1>1, <1>3, CallType DEF StreamTypes
<1>5. w \in Seq(Nat) /\ got[e] \in Seq(Nat) /\ Len(w) \in Nat /\ Len(got[e]) \in Nat
  BY <1>2, <1>3 DEF StreamTypes
<1>6. PICK k \in 1 .. AtMost(Asked(e) - done[e], Len(w)) :
        /\ got' = [got EXCEPT ![e] = Filled(e, SubSeq(w, 1, k))]
        /\ wire' = [wire EXCEPT ![p] = SubSeq(w, k + 1, Len(w))]
        /\ Progress(e, k)
  BY DEF ReadSome
<1>7. k \in 1 .. Len(w) /\ k \in Nat /\ done[e] + k <= Asked(e)
  BY <1>1, <1>4, <1>5 DEF AtMost
<1>8. Len(got[e]) = past[e].read + done[e]
  BY <1>1, <1>3 DEF Stream, Counted
<1>9. SubSeq(got[e], 1, past[e].read + done[e]) = got[e]
  BY <1>5, <1>8, SubSeqFull
<1> DEFINE front == SubSeq(w, 1, k)
           rest == SubSeq(w, k + 1, Len(w))
<1>10. Numbered(got[e], 0) /\ Numbered(w, Len(got[e])) /\ Len(got[e]) + Len(w) = Counted(p, "write")
  BY <1>2, <1>3 DEF Stream
<1>11. /\ front \in Seq(Nat) /\ Len(front) = k /\ Numbered(front, Len(got[e]))
       /\ rest \in Seq(Nat) /\ Len(rest) = Len(w) - k /\ Numbered(rest, Len(got[e]) + k)
  BY <1>5, <1>7, <1>10, Cut
<1> HIDE DEF front, rest
<1>12. /\ got[e] \o front \in Seq(Nat) /\ Len(got[e] \o front) = Len(got[e]) + k
       /\ Numbered(got[e] \o front, 0)
  <2>1. Numbered(front, 0 + Len(got[e]))
    BY <1>5, <1>11
  <2>2. QED  BY <1>5, <1>10, <1>11, <2>1, Joined
<1> HIDE DEF w, p
<1>13. /\ got' = [got EXCEPT ![e] = got[e] \o front] /\ wire' = [wire EXCEPT ![p] = rest]
       /\ done' = [done EXCEPT ![e] = done[e] + k]
  BY <1>6, <1>9 DEF Filled, Progress, front, rest, w
<1>14. /\ got'[e] = got[e] \o front /\ got'[p] = got[p]
       /\ wire'[p] = rest /\ wire'[e] = wire[e]
       /\ done'[e] = done[e] + k /\ done'[p] = done[p]
  BY <1>2, <1>3, <1>13 DEF StreamTypes
<1>15. StreamTypes'
  <2>1. done[e] + k \in Nat
    BY <1>4, <1>7
  <2>2. done' \in [Ends -> Nat] /\ got' \in [Ends -> Seq(Nat)] /\ wire' \in [Ends -> Seq(Nat)]
    BY <1>3, <1>11, <1>12, <1>13, <2>1 DEF StreamTypes
  <2>3. QED  BY <1>1, <1>3, <2>2 DEF StreamTypes
<1>16. DoneFits(e)' /\ DoneFits(p)'
  BY <1>1, <1>3, <1>7, <1>14 DEF DoneFits, Doing, Running, Asked
<1>17. /\ Counted(e, "write")' = Counted(e, "write") /\ Counted(p, "write")' = Counted(p, "write")
       /\ Counted(p, "read")' = Counted(p, "read") /\ Counted(e, "read")' = past[e].read + (done[e] + k)
  BY <1>1, <1>14 DEF Counted
<1>18. Stream(e)'
  <2>1. Len(got'[e]) = Counted(e, "read")'
    <3>1. got'[e] = got[e] \o front
      BY <1>14
    <3>2. Len(got'[e]) = Len(got[e]) + k
      BY <1>12, <3>1
    <3>3. Len(got'[e]) = (past[e].read + done[e]) + k
      BY <1>8, <3>2
    <3>4. (past[e].read + done[e]) + k = past[e].read + (done[e] + k)
      BY <1>4, <1>7
    <3>5. Counted(e, "read")' = past[e].read + (done[e] + k)
      BY <1>17
    <3>6. QED  BY <3>3, <3>4, <3>5
  <2>2. QED  BY <1>2, <1>3, <1>14, <1>17, <2>1 DEF Stream, p
<1>19. Stream(p)'
  <2>1. Len(got'[e]) + Len(wire'[p]) = Counted(p, "write")'
    <3>1. Len(got'[e]) = Len(got[e]) + k /\ Len(wire'[p]) = Len(w) - k
      BY <1>11, <1>12, <1>14
    <3>2. Len(got[e]) + k + (Len(w) - k) = Len(got[e]) + Len(w)
      BY <1>5, <1>7
    <3>3. QED  BY <1>10, <1>17, <3>1, <3>2
  <2>2. Numbered(got'[e], 0) /\ Numbered(wire'[p], Len(got'[e]))
    BY <1>11, <1>12, <1>14
  <2>3. Len(got'[p]) = Counted(p, "read")'
    BY <1>3, <1>14, <1>17 DEF Stream
  <2>4. QED  BY <1>2, <2>1, <2>2, <2>3 DEF Stream
<1>20. ToldAtEnd(e)' /\ ToldAtEnd(p)'
  <2>1. told[e] = <<>> /\ told[p] = <<>>
    BY <1>1, RunningUntold DEF p
  <2>2. QED  BY <1>1, <2>1 DEF ToldAtEnd
<1>21. QED  BY <1>2, <1>15, <1>16, <1>18, <1>19, <1>20 DEF StreamInv

\* The kernel takes a part of what is to be written.
LEMMA WriteSomeKeeps ==
  ASSUME StreamInv, NEW e \in Ends, UNCHANGED dialogue, WriteSome(e)
  PROVE  StreamInv'
<1> DEFINE p == Peer(e)
           w == wire[e]
<1>1. /\ Running(e) /\ script[e] # <<>> /\ Head(script[e]).does = "write" /\ done[e] < Asked(e)
      /\ UNCHANGED <<script, past, blocking, state, got, told>>
  BY DEF WriteSome, InMiddle, Doing
<1>2. p \in Ends /\ p # e /\ Peer(p) = e /\ \A f \in Ends : f = e \/ f = p
  BY TwoEnds
<1>3. StreamTypes /\ DoneFits(e) /\ Stream(e) /\ DoneFits(p) /\ Stream(p)
  BY <1>2 DEF StreamInv
<1>4. Asked(e) \in Nat /\ done[e] \in Nat /\ past[e].write \in Nat /\ Room \in Nat
  BY <1>1, <1>3, CallType, TransferAssumption DEF StreamTypes
<1>5. w \in Seq(Nat) /\ got[p] \in Seq(Nat) /\ Len(w) \in Nat /\ Len(got[p]) \in Nat
  BY <1>2, <1>3 DEF StreamTypes
<1>6. PICK k \in 1 .. AtMost(Asked(e) - done[e], Room - Len(w)) :
        wire' = [wire EXCEPT ![e] = w \o NextBytes(e, k)] /\ Progress(e, k)
  BY <1>3 DEF WriteSome, StreamTypes
<1>7. k \in Nat /\ done[e] + k <= Asked(e)
  BY <1>1, <1>4, <1>5 DEF AtMost
<1>8. Len(got[p]) + Len(w) = past[e].write + done[e] /\ Numbered(w, Len(got[p]))
  BY <1>1, <1>3 DEF Stream, Counted
<1> DEFINE next == NextBytes(e, k)
<1>9. next \in Seq(Nat) /\ Len(next) = k /\ \A i \in 1 .. k : next[i] = past[e].write + done[e] + i
  BY <1>4, <1>7 DEF NextBytes
<1> HIDE DEF next, w, p
<1>10. Numbered(next, Len(got[p]) + Len(w))
  BY <1>8, <1>9 DEF Numbered
<1>11. w \o next \in Seq(Nat) /\ Len(w \o next) = Len(w) + k /\ Numbered(w \o next, Len(got[p]))
  BY <1>5, <1>8, <1>9, <1>10, Joined
<1>12. wire' = [wire EXCEPT ![e] = w \o next] /\ done' = [done EXCEPT ![e] = done[e] + k]
  BY <1>6 DEF next, Progress
<1>13. /\ wire'[e] = w \o next /\ wire'[p] = wire[p]
       /\ done'[e] = done[e] + k /\ done'[p] = done[p]
  BY <1>2, <1>3, <1>12 DEF StreamTypes
<1>14. StreamTypes'
  <2>1. done[e] + k \in Nat
    BY <1>4, <1>7
  <2>2. done' \in [Ends -> Nat] /\ wire' \in [Ends -> Seq(Nat)]
    BY <1>3, <1>11, <1>12, <2>1 DEF StreamTypes
  <2>3. QED  BY <1>1, <1>3, <2>2 DEF StreamTypes
<1>15. DoneFits(e)' /\ DoneFits(p)'
  BY <1>1, <1>3, <1>7, <1>13 DEF DoneFits, Doing, Running, Asked
<1>16. /\ Counted(e, "read")' = Counted(e, "read") /\ Counted(p, "write")' = Counted(p, "write")
       /\ Counted(p, "read")' = Counted(p, "read") /\ Counted(e, "write")' = past[e].write + (done[e] + k)
  BY <1>1, <1>13 DEF Counted
<1>17. Stream(e)'
  <2>1. Len(got'[p]) + Len(wire'[e]) = Counted(e, "write")'
    <3>1. Len(got'[p]) = Len(got[p]) /\ Len(wire'[e]) = Len(w) + k
      BY <1>1, <1>11, <1>13
    <3>2. Len(got[p]) + (Len(w) + k) = (Len(got[p]) + Len(w)) + k
      <4>1. \A a, b, c \in Nat : a + (b + c) = (a + b) + c
        OBVIOUS
      <4>2. QED  BY <1>5, <1>7, <4>1, Zenon
    <3>3. (past[e].write + done[e]) + k = past[e].write + (done[e] + k)
      BY <1>4, <1>7
    <3>4. QED  BY <1>8, <1>16, <3>1, <3>2, <3>3
  <2>2. Numbered(got'[p], 0) /\ Numbered(wire'[e], Len(got'[p])) /\ Len(got'[e]) = Counted(e, "read")'
    BY <1>1, <1>3, <1>11, <1>13, <1>16 DEF Stream, p
  <2>3. QED  BY <2>1, <2>2 DEF Stream, p
<1>18. Stream(p)'
  BY <1>1, <1>2, <1>3, <1>13, <1>16 DEF Stream
<1>19. ToldAtEnd(e)' /\ ToldAtEnd(p)'
  <2>1. told[e] = <<>> /\ told[p] = <<>>
    BY <1>1, RunningUntold DEF p
  <2>2. QED  BY <1>1, <2>1 DEF ToldAtEnd
<1>20. QED  BY <1>2, <1>14, <1>15, <1>17, <1>18, <1>19 DEF StreamInv

\* An end that goes on to its next call has counted the last one.
LEMMA NextCallKeeps ==
  ASSUME StreamInv, NEW e \in Ends, UNCHANGED dialogue, Returns(e) \/ SetBlocking(e) \/ Finish(e)
  PROVE  StreamInv'
<1> DEFINE p == Peer(e)
<1>1. Running(e) /\ UNCHANGED <<wire, got, told>>
  BY DEF Returns, SetBlocking, Finish, Doing
<1>2. p \in Ends /\ p # e /\ Peer(p) = e /\ \A f \in Ends : f = e \/ f = p
  BY TwoEnds
<1>3. StreamTypes /\ DoneFits(e) /\ Stream(e) /\ DoneFits(p) /\ Stream(p)
  BY <1>2 DEF StreamInv
<1>4. told[e] = <<>> /\ told[p] = <<>>
  BY <1>1, RunningUntold
<1> HIDE DEF p
<1>5. /\ StreamTypes' /\ done'[p] = done[p] /\ past'[p] = past[p] /\ script'[p] = script[p]
      /\ state'[p] = state[p] /\ DoneFits(e)'
      /\ Counted(e, "read")' = Counted(e, "read") /\ Counted(e, "write")' = Counted(e, "write")
  <2>1. CASE Finish(e)
    BY <1>2, <1>3, <2>1 DEF Finish, StreamTypes, Counted, DoneFits, Doing, Running
  <2>2. CASE SetBlocking(e)
    <3>1. script[e] # <<>> /\ Head(script[e]).does = "mode" /\ done[e] = 0
      BY <1>3, <2>2 DEF SetBlocking, Doing, DoneFits
    <3>2. Tail(script[e]) \in Seq(Calls) /\ script' = [script EXCEPT ![e] = Tail(script[e])]
      BY <1>3, <2>2, <3>1, CallType DEF SetBlocking
    <3>3. StreamTypes'
      BY <1>1, <1>3, <2>2, <3>2 DEF StreamTypes, SetBlocking
    <3>4. done' = done /\ past' = past /\ state' = state /\ script'[p] = script[p]
      BY <1>2, <1>3, <2>2, <3>2 DEF SetBlocking, StreamTypes
    <3>5. Counted(e, "read")' = Counted(e, "read") /\ Counted(e, "write")' = Counted(e, "write")
      BY <3>1, <3>4 DEF Counted
    <3>6. DoneFits(e)'
      <4>1. done'[e] = 0
        BY <3>3, <3>4, <3>1
      <4>2. script'[e] # <<>> => Asked(e)' \in Nat
        <5>1. script'[e] \in Seq(Calls)
          BY <3>3 DEF StreamTypes
        <5>2. script'[e] # <<>> => Head(script'[e]) \in Calls
          BY <5>1
        <5>3. QED  BY <5>2 DEF Calls, Asked
      <4>3. QED  BY <4>1, <4>2 DEF DoneFits, Doing
    <3>7. QED  BY <3>3, <3>4, <3>5, <3>6
  <2>3. CASE Returns(e)
    <3> DEFINE does == Head(script[e]).does
    <3>1. script[e] # <<>> /\ does \in {"read", "write"} /\ done[e] = Asked(e)
      BY <2>3 DEF Returns, Doing
    <3>2. Tail(script[e]) \in Seq(Calls) /\ Asked(e) \in Nat
      BY <1>3, <3>1, CallType
    <3>3. /\ script' = [script EXCEPT ![e] = Tail(script[e])] /\ done' = [done EXCEPT ![e] = 0]
          /\ past' = [past EXCEPT ![e] = [past[e] EXCEPT ![does] = past[e][does] + Asked(e)]]
          /\ UNCHANGED <<wire, blocking, state, got, told>>
      BY <1>3, <2>3, <3>2 DEF Returns, StreamTypes
    <3> HIDE DEF does
    <3>4. past[e] \in [read : Nat, write : Nat]
      BY <1>3 DEF StreamTypes
    <3>5. [past[e] EXCEPT ![does] = past[e][does] + Asked(e)] \in [read : Nat, write : Nat]
      BY <3>1, <3>2, <3>4
    <3>6. StreamTypes'
      BY <1>3, <3>2, <3>3, <3>5 DEF StreamTypes
    <3>7. /\ script'[p] = script[p] /\ done'[p] = done[p] /\ past'[p] = past[p]
          /\ done'[e] = 0 /\ past'[e] = [past[e] EXCEPT ![does] = past[e][does] + Asked(e)]
          /\ state' = state
      BY <1>2, <1>3, <3>3 DEF StreamTypes
    <3>8. \A what \in {"read", "write"} : Counted(e, what)' = Counted(e, what)
      <4> SUFFICES ASSUME NEW what \in {"read", "write"}
                   PROVE  Counted(e, what)' = Counted(e, what)
        OBVIOUS
      <4>1. Counted(e, what)' = past'[e][what]
        BY <3>4, <3>5, <3>7 DEF Counted
      <4>2. past'[e][what] = IF what = does THEN past[e][what] + Asked(e) ELSE past[e][what]
        BY <3>1, <3>4, <3>7
      <4>3. QED  BY <3>1, <3>4, <4>1, <4>2 DEF Counted, does
    <3>9. DoneFits(e)'
      <4>1. done'[e] = 0
        BY <3>6, <3>7
      <4>2. script'[e] # <<>> => Asked(e)' \in Nat
        <5>1. script'[e] \in Seq(Calls)
          BY <3>6 DEF StreamTypes
        <5>2. script'[e] # <<>> => Head(script'[e]) \in Calls
          BY <5>1
        <5>3. QED  BY <5>2 DEF Calls, Asked
      <4>3. QED  BY <4>1, <4>2 DEF DoneFits, Doing
    <3>10. QED  BY <3>6, <3>7, <3>8, <3>9
  <2>4. QED  BY <2>1, <2>2, <2>3
<1>6. /\ Counted(p, "read")' = Counted(p, "read") /\ Counted(p, "write")' = Counted(p, "write")
      /\ DoneFits(p)'
  BY <1>3, <1>5 DEF Counted, DoneFits, Doing, Running, Asked
<1>7. Stream(e)' /\ Stream(p)'
  BY <1>1, <1>2, <1>3, <1>5, <1>6 DEF Stream, p
<1>8. ToldAtEnd(e)' /\ ToldAtEnd(p)'
  BY <1>1, <1>4 DEF ToldAtEnd
<1>9. QED  BY <1>2, <1>5, <1>6, <1>7, <1>8 DEF StreamInv

\* Every step keeps the invariant.
LEMMA StreamInvStep == StreamInv /\ [TransferNext]_transferVars => StreamInv'
<1> SUFFICES ASSUME StreamInv, [TransferNext]_transferVars PROVE StreamInv'
  OBVIOUS
<1>1. CASE UNCHANGED transferVars
  BY <1>1 DEF transferVars, StreamInv, StreamTypes, DoneFits, Stream, ToldAtEnd, Counted, Numbered,
              Doing, Running, Asked
<1>2. ASSUME NEW e \in Ends, EndStep(e) PROVE StreamInv'
  <2>1. UNCHANGED dialogue
    BY <1>2 DEF EndStep
  <2>2. CASE ReadSome(e)
    BY <2>1, <2>2, ReadSomeKeeps
  <2>3. CASE ReadEnd(e) \/ ReadError(e)
    BY <2>1, <2>3, ReadsKeep
  <2>4. CASE WriteSome(e)
    BY <2>1, <2>4, WriteSomeKeeps
  <2>5. CASE WriteError(e)
    BY <2>1, <2>5, WriteErrorKeeps
  <2>6. CASE Returns(e) \/ SetBlocking(e) \/ Finish(e)
    BY <2>1, <2>6, NextCallKeeps
  <2>7. QED  BY <1>2, <2>2, <2>3, <2>4, <2>5, <2>6 DEF EndStep
<1>3. QED  BY <1>1, <1>2 DEF TransferNext

\* However the kernel cuts the transfers up and whoever closes when, bytes
\* arrive in order, once, and both ends' counts are right.
THEOREM StreamTrue == TransferInit /\ [][TransferNext]_transferVars => []StreamIsTrue
<1>1. TransferInit => StreamInv
  BY StreamInitInv
<1>2. StreamInv /\ [TransferNext]_transferVars => StreamInv'
  BY StreamInvStep
<1>3. StreamInv => StreamIsTrue
  BY StreamInvSuffices
<1>4. QED  BY <1>1, <1>2, <1>3, PTL

-----------------------------------------------------------------------------
(* A crash.                                                                *)

\* A throw, or none.
Stacks == Exceptions \union {NoStack}
\* Where a thread can be.
Places == {"run", "uncaught", "terminate", "abort", "handler", "print", "raise"}

\* Every variable has its type.
CrashTypes ==
  /\ crashes \in Nat
  /\ at \in [Crashers -> Places]
  /\ lastThrow \in [Crashers -> Stacks]
  /\ active \in [Crashers -> Seq(Exceptions)]
  /\ DOMAIN shown = Crashers
  /\ traced \subseteq Crashers
  /\ DOMAIN thrower \subseteq Exceptions

\* Whoever prints has taken the flag, nobody has printed before, and nobody
\* else does.
FlagGuards ==
  /\ ~guard => traced = {} /\ \A t \in Crashers : at[t] # "print"
  /\ \A t \in Crashers : at[t] = "print" => traced = {} /\ \A u \in Crashers : at[u] = "print" => u = t

\* The slot of a thread holds a throw of its own.
OwnThrow(t, x) == x # NoStack => x \in DOMAIN thrower /\ thrower[x] = t

\* Each slot holds a throw of its own thread, and the innermost active one when
\* nobody catches it.
SlotsAreOwn ==
  \A t \in Crashers :
    /\ OwnThrow(t, lastThrow[t]) /\ OwnThrow(t, shown[t].stack)
    /\ at[t] = "uncaught" => active[t] # <<>> /\ lastThrow[t] = Innermost(active[t])
    /\ shown[t].uncaught => shown[t].stack = shown[t].exception

\* How far thread t is with the first crash of the process.
Underway(t) ==
  \/ at[t] \in {"run", "uncaught", "terminate", "abort", "handler"} /\ ~guard
  \/ at[t] = "print" /\ guard /\ ~ended
  \/ at[t] = "raise" /\ traced = {t}

\* The first crash of the process: nobody else is on the way to a trace.
FirstCrash ==
  /\ crashes = 0 => ~guard /\ \A t \in Crashers : at[t] = "run"
  /\ crashes = 1 => \E t \in Crashers : Underway(t) /\ \A u \in Crashers \ {t} : at[u] = "run"

\* The inductive invariant.
CrashInv == CrashTypes /\ FlagGuards /\ SlotsAreOwn /\ FirstCrash

\* The invariant implies what is promised.
LEMMA CrashInvSuffices == CrashInv => TracesAreTrue
BY CrashAssumption DEF CrashInv, TracesAreTrue, FlagGuards, SlotsAreOwn, FirstCrash, CrashTypes, OneTracer, CrashIsTraced, StackIsOwnThrow, OwnThrow, Underway

\* The innermost throw is a throw, or none.
LEMMA InnermostType ==
  ASSUME NEW seq \in Seq(Exceptions)
  PROVE  Innermost(seq) \in Stacks
BY DEF Innermost, Stacks

\* It holds at the start.
LEMMA CrashInitInv == CrashInit => CrashInv
<1> SUFFICES ASSUME CrashInit  PROVE CrashInv
  OBVIOUS
<1>1. CrashTypes
  BY DEF CrashInit, CrashTypes, Stacks, Places
<1>2. FlagGuards /\ SlotsAreOwn /\ FirstCrash
  BY DEF CrashInit, FlagGuards, SlotsAreOwn, OwnThrow, FirstCrash
<1>3. QED  BY <1>1, <1>2 DEF CrashInv

\* __cxa_throw records the stack of its own thread.
LEMMA ThrowKeeps ==
  ASSUME CrashInv, NEW t \in Crashers, NEW x \in Exceptions, NEW caught \in BOOLEAN, CxaThrow(t, x, caught)
  PROVE  CrashInv'
<1> USE DEF CrashInv
<1>1. /\ DOMAIN thrower' = DOMAIN thrower \union {x} /\ thrower'[x] = t
      /\ \A y \in DOMAIN thrower : thrower'[y] = thrower[y]
  BY DEF CxaThrow
<1>2. Append(active[t], x) \in Seq(Exceptions) /\ Append(active[t], x) # <<>> /\ Innermost(Append(active[t], x)) = x
  <2>1. active[t] \in Seq(Exceptions)
    BY DEF CrashTypes
  <2>2. QED  BY <2>1 DEF Innermost
<1>3. CrashTypes'
  <2>1. active' \in [Crashers -> Seq(Exceptions)] /\ lastThrow' \in [Crashers -> Stacks]
    BY <1>2 DEF CxaThrow, CrashTypes, Store, Stacks
  <2>2. at' \in [Crashers -> Places] /\ crashes' \in Nat
    <3>1. CASE caught
      BY <3>1 DEF CxaThrow, CrashTypes
    <3>2. CASE ~caught
      BY <3>2 DEF CxaThrow, CrashTypes, Go, Places
    <3>3. QED  BY <3>1, <3>2
  <2>3. QED  BY <1>1, <2>1, <2>2 DEF CxaThrow, CrashTypes
<1>4. FlagGuards'
  BY DEF CxaThrow, FlagGuards, CrashTypes, Go
<1>5. SlotsAreOwn'
  BY <1>1, <1>2, CrashAssumption DEF CxaThrow, SlotsAreOwn, OwnThrow, CrashTypes, Go, Store, Stacks
<1>6. FirstCrash'
  BY DEF CxaThrow, FirstCrash, CrashTypes, Go, Underway
<1>7. QED  BY <1>3, <1>4, <1>5, <1>6

\* What std::terminate and the catching of exceptions do.
LEMMA UnwindingKeeps ==
  ASSUME CrashInv, NEW t \in Crashers, ~ended,
         EndCatch(t) \/ ClearLast(t) \/ Terminate(t) \/ TerminateHandler(t)
  PROVE  CrashInv'
<1> USE DEF CrashInv
<1>1. CASE EndCatch(t)
  <2>1. SubSeq(active[t], 1, Len(active[t]) - 1) \in Seq(Exceptions)
    BY <1>1 DEF EndCatch, CrashTypes
  <2>2. CrashTypes' /\ FlagGuards' /\ FirstCrash'
    BY <1>1, <2>1 DEF EndCatch, CrashTypes, FlagGuards, FirstCrash, Underway
  <2>3. SlotsAreOwn'
    BY <1>1 DEF EndCatch, CrashTypes, SlotsAreOwn, OwnThrow
  <2>4. QED  BY <2>2, <2>3
<1>2. CASE ClearLast(t)
  <2>1. CrashTypes' /\ FlagGuards' /\ FirstCrash'
    BY <1>2 DEF ClearLast, CrashTypes, FlagGuards, FirstCrash, Underway, Stacks
  <2>2. SlotsAreOwn'
    BY <1>2 DEF ClearLast, CrashTypes, SlotsAreOwn, OwnThrow
  <2>3. QED  BY <2>1, <2>2
<1>3. CASE Terminate(t)
  BY <1>3 DEF Terminate, CrashTypes, FlagGuards, SlotsAreOwn, OwnThrow, FirstCrash, Underway, Go, Places
<1>4. CASE TerminateHandler(t)
  <2>1. Innermost(active[t]) \in Stacks
    BY InnermostType DEF CrashTypes
  <2>2. CrashTypes' /\ FlagGuards' /\ FirstCrash'
    BY <1>4, <2>1 DEF TerminateHandler, CrashTypes, FlagGuards, FirstCrash, Underway, Go, Places
  <2>3. SlotsAreOwn'
    BY <1>4, <2>1 DEF TerminateHandler, CrashTypes, SlotsAreOwn, OwnThrow, Go
  <2>4. QED  BY <2>2, <2>3
<1>5. QED  BY <1>1, <1>2, <1>3, <1>4

\* A signal that arrives, and the handler.
LEMMA SignalsKeep ==
  ASSUME CrashInv, NEW t \in Crashers, ~ended,
         \/ AbortCall(t) \/ ClaimFlag(t) \/ PrintTrace(t) \/ RaiseAgain(t)
         \/ \E s \in FatalSet, inside \in BOOLEAN : Fault(t, s, inside)
  PROVE  CrashInv'
<1> USE DEF CrashInv
<1>1. CASE AbortCall(t)
  <2>1. at' = at \/ at' = [at EXCEPT ![t] = "handler"]
    BY <1>1 DEF AbortCall, Hit, Go
  <2>2. CrashTypes' /\ FlagGuards'
    BY <1>1, <2>1 DEF AbortCall, CrashTypes, FlagGuards, Places
  <2>3. SlotsAreOwn'
    BY <1>1, <2>1 DEF AbortCall, CrashTypes, SlotsAreOwn, OwnThrow
  <2>4. FirstCrash'
    BY <1>1, <2>1 DEF AbortCall, CrashTypes, FirstCrash, Underway
  <2>5. QED  BY <2>2, <2>3, <2>4
<1>2. ASSUME NEW s \in FatalSet, NEW inside \in BOOLEAN, Fault(t, s, inside)
      PROVE  CrashInv'
  <2>1. at' = at \/ at' = [at EXCEPT ![t] = "handler"]
    BY <1>2 DEF Fault, Hit, Go
  <2>2. /\ at[t] \in {"run", "uncaught", "terminate", "print"} /\ crashes' = crashes + 1
        /\ UNCHANGED <<guard, lastThrow, active, thrower, shown, traced>>
    BY <1>2 DEF Fault
  <2>3. CrashTypes' /\ FlagGuards'
    BY <2>1, <2>2 DEF CrashTypes, FlagGuards, Places
  <2>4. SlotsAreOwn'
    BY <2>1, <2>2 DEF CrashTypes, SlotsAreOwn, OwnThrow
  <2>5. FirstCrash'
    BY <1>2 DEF Fault, Hit, CrashTypes, FirstCrash, Underway, Go
  <2>6. QED  BY <2>3, <2>4, <2>5
<1>3. CASE ClaimFlag(t)
  <2>1. CrashTypes' /\ FlagGuards'
    BY <1>3 DEF ClaimFlag, CrashTypes, FlagGuards, Go, Places
  <2>2. SlotsAreOwn'
    BY <1>3 DEF ClaimFlag, CrashTypes, SlotsAreOwn, OwnThrow, Go
  <2>3. FirstCrash'
    BY <1>3 DEF ClaimFlag, CrashTypes, FlagGuards, FirstCrash, Underway, Go
  <2>4. QED  BY <2>1, <2>2, <2>3
<1>4. CASE PrintTrace(t)
  <2>1. CrashTypes' /\ FlagGuards'
    BY <1>4 DEF PrintTrace, CrashTypes, FlagGuards, Go, Places
  <2>2. SlotsAreOwn'
    BY <1>4 DEF PrintTrace, CrashTypes, SlotsAreOwn, OwnThrow, Go
  <2>3. FirstCrash'
    BY <1>4 DEF PrintTrace, CrashTypes, FlagGuards, FirstCrash, Underway, Go
  <2>4. QED  BY <2>1, <2>2, <2>3
<1>5. CASE RaiseAgain(t)
  BY <1>5 DEF RaiseAgain, CrashTypes, FlagGuards, SlotsAreOwn, OwnThrow, FirstCrash, Underway
<1>6. QED  BY <1>1, <1>2, <1>3, <1>4, <1>5

\* One thread at most prints a trace, a first crash does get one, and the stack
\* shown is that of the last throw of the crashing thread itself, for any number
\* of threads and exceptions (the terminate and signal handlers of crash
\* handling).
THEOREM TracesTrue == CrashInit /\ [][CrashNext]_crashVars => []TracesAreTrue
<1>1. CrashInv /\ [CrashNext]_crashVars => CrashInv'
  <2> SUFFICES ASSUME CrashInv, [CrashNext]_crashVars  PROVE CrashInv'
    OBVIOUS
  <2>1. CASE ~ended /\ InstallNext
    BY <2>1 DEF InstallNext, CrashInv, CrashTypes, FlagGuards, SlotsAreOwn, OwnThrow, FirstCrash, Underway
  <2>2. CASE UNCHANGED crashVars
    BY <2>2 DEF crashVars, CrashInv, CrashTypes, FlagGuards, SlotsAreOwn, OwnThrow, FirstCrash, Underway
  <2>3. QED  BY <2>1, <2>2, ThrowKeeps, UnwindingKeeps, SignalsKeep DEF CrashNext, CrashStep
<1>2. QED  BY CrashInitInv, <1>1, CrashInvSuffices, PTL
=============================================================================
