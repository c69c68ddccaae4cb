----------------------------- MODULE SignalHandler -----------------------------
(***************************************************************************)
(* The singleton of util/signal_handler.cpp.  Its constructor claims       *)
(* the_instance_, fills in the object and installs a handler per signal;   *)
(* the destructor undoes this in the opposite order; the handler itself    *)
(* finds the object through the_instance_, logs, requests a stop if the    *)
(* object was made with a stop source and puts the default dispositions    *)
(* back.  A signal interrupts a thread between any two of these steps, a   *)
(* constructor, a destructor and another signal's handler included.        *)
(***************************************************************************)
EXTENDS Naturals, Sequences, FiniteSets

CONSTANTS
  Scenes,         \* what may surround the handlers, see Scene
  Objects,        \* storage for SignalHandler objects
  Null,           \* nullptr
  Signals         \* the signals every SignalHandler here is made for

\* builders: the threads that construct and destroy SignalHandlers;
\* receivers: those that have not blocked the signals; deliveries: bound on
\* the signals sent; throws: get_logger() or the copy of the signals may throw;
\* sources: the objects made with a stop source, the others have none.
IsScene(s) ==
  /\ DOMAIN s = {"builders", "receivers", "deliveries", "throws", "sources"}
  /\ IsFiniteSet(s.builders) /\ IsFiniteSet(s.receivers)
  /\ s.deliveries \in Nat
  /\ s.throws \in BOOLEAN
  /\ s.sources \subseteq Objects

ASSUME SignalAssumption == Null \notin Objects /\ \A s \in Scenes : IsScene(s)

VARIABLES
  scene,       \* what surrounds the handlers, chosen once
  instance,    \* the_instance_
  phase,       \* phase[o]: what there is of object o
  logged,      \* objects for which a handler has logged its signal
  stopped,     \* objects whose stop source has been asked to stop
  answered,    \* answered[o]: has a handler run to its end for o, and when
  disp,        \* disp[s]: the disposition of signal s
  frames,      \* frames[t]: what thread t is in, innermost last
  deliveries,  \* signals sent so far
  killed       \* the default action of a signal has ended the process

vars == <<scene, instance, phase, logged, stopped, answered, disp, frames, deliveries, killed>>

Builders == scene.builders
Receivers == scene.receivers

Threads == Builders \union Receivers

(***************************************************************************)
(* "claimed": after the exchange, no member assigned yet; "filled": all    *)
(* members assigned; "up": the constructor has returned.                   *)
(***************************************************************************)
Phase == {"none", "claimed", "filled", "up"}

\* A constructor, destructor or handler call: what it does next, on which
\* object, for which signals it still has to call std::signal, and (for a
\* handler) the signal it runs for and whether what it interrupted holds a
\* lock that the log call takes, of the allocator or of the log's sink.
Frame == [fn : {"ctor", "dtor", "handler"},
          at : {"claim", "fill", "install", "restore", "load", "log", "request"},
          obj : Objects \union {Null},
          left : SUBSET Signals,
          sig : Signals \union {Null},
          held : BOOLEAN]

Top(t) == frames[t][Len(frames[t])]
In(t, fn, at) == frames[t] # <<>> /\ Top(t).fn = fn /\ Top(t).at = at
Enter(t, f) == frames' = [frames EXCEPT ![t] = Append(@, f)]
Goto(t, f) == frames' = [frames EXCEPT ![t][Len(frames[t])] = f]
Leave(t) == frames' = [frames EXCEPT ![t] = SubSeq(@, 1, Len(@) - 1)]

Exists(o) == o # Null /\ phase[o] \in {"filled", "up"}
Outermost(t) == t \in Builders /\ frames[t] = <<>>
InUse(o) == \E t \in Threads : \E i \in DOMAIN frames[t] :
                frames[t][i].fn \in {"ctor", "dtor"} /\ frames[t][i].obj = o

-----------------------------------------------------------------------------
(* The constructor.                                                        *)

Construct(t, o) ==
  /\ Outermost(t) /\ phase[o] = "none" /\ ~InUse(o)
  /\ Enter(t, [fn |-> "ctor", at |-> "claim", obj |-> o, left |-> Signals,
               sig |-> Null, held |-> FALSE])
  /\ UNCHANGED <<instance, phase, logged, stopped, answered, disp, deliveries, killed>>

\* Mutant: a plain store where the exchange is.
ClaimStores(t) ==
  /\ In(t, "ctor", "claim")
  /\ instance' = Top(t).obj
  /\ phase' = [phase EXCEPT ![Top(t).obj] = "claimed"]
  /\ Goto(t, [Top(t) EXCEPT !.at = "fill"])
  /\ UNCHANGED <<logged, stopped, answered, disp, deliveries, killed>>

\* compare_exchange_strong: nullptr is replaced, anything else is refused
\* with an exception.
Claim(t) ==
  /\ In(t, "ctor", "claim")
  /\ IF instance = Null
       THEN /\ instance' = Top(t).obj
            /\ phase' = [phase EXCEPT ![Top(t).obj] = "claimed"]
            /\ logged' = logged \ {Top(t).obj}
            /\ stopped' = stopped \ {Top(t).obj}
            /\ answered' = [answered EXCEPT ![Top(t).obj] = "no"]
            /\ Goto(t, [Top(t) EXCEPT !.at = "fill"])
       ELSE Leave(t) /\ UNCHANGED <<instance, phase, logged, stopped, answered>>
  /\ UNCHANGED <<disp, deliveries, killed>>

\* logger_, stop_ and signals_ are assigned.
Fill(t) ==
  /\ In(t, "ctor", "fill")
  /\ phase' = [phase EXCEPT ![Top(t).obj] = "filled"]
  /\ Goto(t, [Top(t) EXCEPT !.at = "install"])
  /\ UNCHANGED <<instance, logged, stopped, answered, disp, deliveries, killed>>

\* An exception there ends the constructor: no destructor will run.
FillThrows(t) ==
  /\ scene.throws
  /\ In(t, "ctor", "fill")
  /\ phase' = [phase EXCEPT ![Top(t).obj] = "none"]
  /\ Leave(t)
  /\ UNCHANGED <<instance, logged, stopped, answered, disp, deliveries, killed>>

Install(t) ==
  /\ In(t, "ctor", "install")
  /\ \E s \in Top(t).left :
       /\ disp' = [disp EXCEPT ![s] = "ours"]
       /\ Goto(t, [Top(t) EXCEPT !.left = @ \ {s}])
  /\ UNCHANGED <<instance, phase, logged, stopped, answered, deliveries, killed>>

\* Mutant: the loop over the signals stops one short.
ConstructedShort(t) ==
  /\ In(t, "ctor", "install") /\ Top(t).left # Signals
  /\ phase' = [phase EXCEPT ![Top(t).obj] = "up"]
  /\ Leave(t)
  /\ UNCHANGED <<instance, logged, stopped, answered, disp, deliveries, killed>>

Constructed(t) ==
  /\ In(t, "ctor", "install") /\ Top(t).left = {}
  /\ phase' = [phase EXCEPT ![Top(t).obj] = "up"]
  /\ Leave(t)
  /\ UNCHANGED <<instance, logged, stopped, answered, disp, deliveries, killed>>

-----------------------------------------------------------------------------
(* The destructor.  set_default_signal_handlers() is shared with the       *)
(* handler.                                                                *)

\* Mutant: the_instance_ is cleared before the handlers are removed.
DestroyClearsFirst(t, o) ==
  /\ Outermost(t) /\ phase[o] = "up" /\ ~InUse(o)
  /\ Enter(t, [fn |-> "dtor", at |-> "restore", obj |-> o, left |-> Signals,
               sig |-> Null, held |-> FALSE])
  /\ instance' = Null
  /\ UNCHANGED <<phase, logged, stopped, answered, disp, deliveries, killed>>

Destroy(t, o) ==
  /\ Outermost(t) /\ phase[o] = "up" /\ ~InUse(o)
  /\ Enter(t, [fn |-> "dtor", at |-> "restore", obj |-> o, left |-> Signals,
               sig |-> Null, held |-> FALSE])
  /\ UNCHANGED <<instance, phase, logged, stopped, answered, disp, deliveries, killed>>

\* Mutant: SIG_IGN instead of SIG_DFL.
SetDefaultIgnores(t) ==
  /\ frames[t] # <<>> /\ Top(t).at = "restore" /\ Exists(Top(t).obj)
  /\ \E s \in Top(t).left :
       /\ disp' = [disp EXCEPT ![s] = "ignored"]
       /\ Goto(t, [Top(t) EXCEPT !.left = @ \ {s}])
  /\ UNCHANGED <<instance, phase, logged, stopped, answered, deliveries, killed>>

SetDefault(t) ==
  /\ frames[t] # <<>> /\ Top(t).at = "restore" /\ Exists(Top(t).obj)
  /\ \E s \in Top(t).left :
       /\ disp' = [disp EXCEPT ![s] = "default"]
       /\ Goto(t, [Top(t) EXCEPT !.left = @ \ {s}])
  /\ UNCHANGED <<instance, phase, logged, stopped, answered, deliveries, killed>>

\* Mutant: the destructor leaves one handler installed.
DestroyedShort(t) ==
  /\ In(t, "dtor", "restore") /\ Top(t).left # Signals
  /\ instance' = Null
  /\ phase' = [phase EXCEPT ![Top(t).obj] = "none"]
  /\ Leave(t)
  /\ UNCHANGED <<logged, stopped, answered, disp, deliveries, killed>>

Destroyed(t) ==
  /\ In(t, "dtor", "restore") /\ Top(t).left = {}
  /\ instance' = Null
  /\ phase' = [phase EXCEPT ![Top(t).obj] = "none"]
  /\ Leave(t)
  /\ UNCHANGED <<logged, stopped, answered, disp, deliveries, killed>>

-----------------------------------------------------------------------------
(* Signals.  While a handler runs its own signal is blocked in that thread *)
(* (std::signal of glibc); the others are not.                             *)

\* Whether what runs on thread t holds a lock that the log call takes.  It may in
\* the program around, get_logger() and the copy of the signals, the message of
\* a refused constructor, a log call and a callback of the stop source.
MayHold(t) ==
  {h \in BOOLEAN : h /\ frames[t] # <<>> => Top(t).at \in {"claim", "fill", "log", "request"}}

Deliver(t, s, held) ==
  /\ held \in MayHold(t)
  /\ deliveries < scene.deliveries
  /\ t \in Receivers
  /\ \A i \in DOMAIN frames[t] :
       ~(frames[t][i].fn = "handler" /\ frames[t][i].sig = s)
  /\ deliveries' = deliveries + 1
  /\ IF disp[s] = "ours"
       THEN /\ Enter(t, [fn |-> "handler", at |-> "load", obj |-> Null,
                         left |-> {}, sig |-> s, held |-> held])
            /\ UNCHANGED killed
       ELSE killed' = TRUE /\ UNCHANGED frames
  /\ UNCHANGED <<instance, phase, logged, stopped, answered, disp>>

Load(t) ==
  /\ In(t, "handler", "load")
  /\ Goto(t, [Top(t) EXCEPT !.at = "log", !.obj = instance])
  /\ UNCHANGED <<instance, phase, logged, stopped, answered, disp, deliveries, killed>>

\* MPKMIX_LOG_INFO through self->logger_ allocates and writes: it never comes
\* back when the code below it on the same thread holds what it waits for.
LogSignal(t) ==
  /\ In(t, "handler", "log") /\ Exists(Top(t).obj) /\ ~Top(t).held
  /\ logged' = logged \union {Top(t).obj}
  /\ Goto(t, [Top(t) EXCEPT !.at = "request"])
  /\ UNCHANGED <<instance, phase, stopped, answered, disp, deliveries, killed>>

\* Mutant: the test of stop_ inverted.
RequestStopInverted(t) ==
  /\ In(t, "handler", "request") /\ Exists(Top(t).obj)
  /\ stopped' = stopped \union ({Top(t).obj} \ scene.sources)
  /\ Goto(t, [Top(t) EXCEPT !.at = "restore", !.left = Signals])
  /\ UNCHANGED <<instance, phase, logged, answered, disp, deliveries, killed>>

\* if (self->stop_) self->stop_->request_stop()
RequestStop(t) ==
  /\ In(t, "handler", "request") /\ Exists(Top(t).obj)
  /\ stopped' = stopped \union ({Top(t).obj} \intersect scene.sources)
  /\ Goto(t, [Top(t) EXCEPT !.at = "restore", !.left = Signals])
  /\ UNCHANGED <<instance, phase, logged, answered, disp, deliveries, killed>>

\* Mutant: the handler puts back the default of one signal only.
HandledShort(t) ==
  /\ In(t, "handler", "restore") /\ Top(t).left # Signals
  /\ Exists(Top(t).obj)
  /\ answered' = [answered EXCEPT ![Top(t).obj] =
                    IF phase[Top(t).obj] = "up" THEN "up" ELSE "early"]
  /\ Leave(t)
  /\ UNCHANGED <<instance, phase, logged, stopped, disp, deliveries, killed>>

Handled(t) ==
  /\ In(t, "handler", "restore") /\ Top(t).left = {} /\ Exists(Top(t).obj)
  /\ answered' = [answered EXCEPT ![Top(t).obj] =
                    IF phase[Top(t).obj] = "up" THEN "up" ELSE "early"]
  /\ Leave(t)
  /\ UNCHANGED <<instance, phase, logged, stopped, disp, deliveries, killed>>

\* A handler that uses an object which is not there.  What follows is
\* undefined; here it is the end of the process.
Undefined(t) ==
  /\ \E at \in {"log", "request", "restore"} : In(t, "handler", at)
  /\ ~Exists(Top(t).obj)
  /\ killed' = TRUE
  /\ UNCHANGED <<instance, phase, logged, stopped, answered, disp, frames, deliveries>>

-----------------------------------------------------------------------------
Init ==
  /\ scene \in Scenes
  /\ instance = Null
  /\ phase = [o \in Objects |-> "none"]
  /\ logged = {} /\ stopped = {}
  /\ answered = [o \in Objects |-> "no"]
  /\ disp = [s \in Signals |-> "default"]
  /\ frames = [t \in Threads |-> <<>>]
  /\ deliveries = 0
  /\ killed = FALSE

HandlerStep(t) ==
  \/ Load(t) \/ LogSignal(t) \/ RequestStop(t) \/ Handled(t)
  \/ SetDefault(t) \/ Undefined(t)

Step(t) ==
  \/ \E o \in Objects : Construct(t, o) \/ Destroy(t, o)
  \/ Claim(t) \/ Fill(t) \/ FillThrows(t) \/ Install(t) \/ Constructed(t)
  \/ Destroyed(t)
  \/ HandlerStep(t)
  \/ \E s \in Signals, held \in BOOLEAN : Deliver(t, s, held)

Next == ~killed /\ UNCHANGED scene /\ \E t \in Threads : Step(t)

\* A thread in a handler keeps running.
Spec == Init /\ [][Next]_vars
             /\ \A t \in UNION {s.builders \union s.receivers : s \in Scenes} :
                  WF_vars(~killed /\ t \in Threads /\ UNCHANGED scene /\ HandlerStep(t))
-----------------------------------------------------------------------------
(* Properties.                                                             *)

\* Signals interrupt the thread that constructs and destroys; a handler on
\* another thread may run on while an object begins or ends.
OneThread == Cardinality(Threads) = 1

TypeOK ==
  /\ scene \in Scenes
  /\ instance \in Objects \union {Null}
  /\ phase \in [Objects -> Phase]
  /\ logged \subseteq Objects /\ stopped \subseteq Objects
  /\ answered \in [Objects -> {"no", "early", "up"}]
  /\ disp \in [Signals -> {"default", "ours"}]
  /\ \A t \in Threads : \A i \in DOMAIN frames[t] : frames[t][i] \in Frame
  /\ deliveries \in 0 .. scene.deliveries
  /\ killed \in BOOLEAN

\* However constructors race, at most one SignalHandler exists: the one the
\* exchange let through (signal_handler.cpp:35-37).
SingleInstance ==
  \A o, p \in Objects : phase[o] # "none" /\ phase[p] # "none" => o = p

\* Whenever a signal arrives, the handler it runs finds a whole object:
\* never nullptr, never one without its members, never one that has ended.
\* The constructor installs last and the destructor restores first for this.
HandlerFindsObject ==
  OneThread => \A t \in Threads : \A i \in DOMAIN frames[t] :
    frames[t][i].fn = "handler" /\ frames[t][i].at # "load"
      => Exists(frames[t][i].obj)

\* Until its first signal a constructed SignalHandler is armed for all of
\* its signals: no losing constructor, earlier object or late handler of
\* one disarms it.
ArmedUntilSignalled ==
  OneThread => \A o \in Objects : phase[o] = "up" /\ ~InUse(o) /\ o \notin logged
    => \A s \in Signals : disp[s] = "ours"

\* "destructor restores default handlers" (test_util_compiled.cpp:105): with
\* no object there is no signal left that would run the handler.
NothingArmedAfterEnd ==
  instance = Null => \A s \in Signals : disp[s] = "default"

\* "(Ctrl+C to terminate)" (signal_handler.cpp:63) of a signal that came
\* after construction: once it is handled the next one kills the process.
NextOneKills ==
  OneThread => \A o \in Objects : phase[o] = "up" /\ answered[o] = "up"
    => \A s \in Signals : disp[s] = "default"

\* The dispositions tell at every moment what there is and what happened.
InstanceIsArmed ==
  TypeOK /\ SingleInstance /\ ArmedUntilSignalled /\ NextOneKills /\ NothingArmedAfterEnd

\* The same, of any signal that was handled.
HandledOnceOnly ==
  \A o \in Objects : phase[o] = "up" /\ answered[o] # "no"
    => \A s \in Signals : disp[s] = "default"

\* "another instance already exists" (signal_handler.cpp:37), what a refused
\* constructor reports, is so.
RefusalIsTrue ==
  \A t \in Threads : In(t, "ctor", "claim") /\ instance # Null
    => phase[instance] # "none"

\* A handler waits for a lock that the code it has interrupted holds.
Stuck == \E t \in Threads : \E i \in DOMAIN frames[t] : frames[t][i].held

\* A signal that found the handler is logged and leads to a requested stop where
\* there is a stop source (signal_handler.cpp:66), unless the handler waits for
\* what it has interrupted.
SignalStops ==
  \A o \in Objects :
    (OneThread /\ instance = o /\ \E t \in Threads : In(t, "handler", "load"))
      ~> \/ o \in logged /\ (o \in scene.sources => o \in stopped)
         \/ killed \/ Stuck
=============================================================================
