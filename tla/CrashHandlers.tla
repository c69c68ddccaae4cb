---------------------------- MODULE CrashHandlers ----------------------------
(***************************************************************************)
(* install_crash_handlers.cpp and stacktrace.cpp: every throw leaves its   *)
(* stack in a thread-local slot; std::terminate shows that stack and       *)
(* aborts; a fatal signal prints the stack of the thread it hits, puts the *)
(* default disposition back and raises the signal again.  A flag lets only *)
(* the first fatal signal of the process print.  Formatting a stack        *)
(* allocates, so it may wait for a lock that a crashed thread holds.       *)
(***************************************************************************)
EXTENDS Integers, Sequences

CONSTANTS
  Crashers,      \* threads
  Exceptions,    \* exception objects, each thrown once
  NoStack,       \* an empty slot
  FatalSignals,  \* in the order in which they are installed
  Abort,         \* SIGABRT, one of them
  MaxCrashes     \* bound on faults and calls of std::terminate

FatalSet == {FatalSignals[i] : i \in DOMAIN FatalSignals}

ASSUME CrashAssumption == NoStack \notin Exceptions /\ Abort \in FatalSet /\ MaxCrashes \in Nat

VARIABLES
  installed,  \* 0: nothing; i + 1: the terminate handler and i signals
  defaulted,  \* signals put back to their default
  guard,      \* in_signal_handler_
  at,         \* at[t]: "run", "uncaught", "terminate", "abort", "handler", "print", "raise"
  hit,        \* hit[t]: the signals whose handlers t is in, innermost last
  lastThrow,  \* lastThrow[t]: last_throw_stack_, by the exception it is of
  active,     \* active[t]: the exceptions t handles, innermost last
  thrower,    \* ghost: who threw each exception thrown so far
  shown,      \* shown[t]: what terminate_handler printed
  traced,     \* threads whose stack a signal handler printed
  holds,      \* threads that crashed inside of the allocator or the loader
  crashes,    \* faults and calls of std::terminate so far
  ended       \* the process has ended

crashVars == <<installed, defaulted, guard, at, hit, lastThrow, active, thrower, shown,
               traced, holds, crashes, ended>>

Ours(s) == s \notin defaulted /\ \E i \in 1 .. installed - 1 : FatalSignals[i] = s
Innermost(seq) == IF seq = <<>> THEN NoStack ELSE seq[Len(seq)]
Go(t, place) == at' = [at EXCEPT ![t] = place]

InstallNext ==
  /\ installed <= Len(FatalSignals)
  /\ installed' = installed + 1
  /\ UNCHANGED <<defaulted, guard, at, hit, lastThrow, active, thrower, shown, traced, holds, crashes, ended>>

\* Mutant: one slot for all threads.
StoreEverywhere(t, x) == lastThrow' = [u \in Crashers |-> x]

\* last_throw_stack_ = std::stacktrace::current(1)
Store(t, x) == lastThrow' = [lastThrow EXCEPT ![t] = x]

\* __cxa_throw; nobody catches it and std::terminate is called, or a catch does.
CxaThrow(t, x, caught) ==
  /\ at[t] = "run" /\ x \notin DOMAIN thrower
  /\ Store(t, x)
  /\ thrower' = [y \in DOMAIN thrower \union {x} |-> IF y = x THEN t ELSE thrower[y]]
  /\ active' = [active EXCEPT ![t] = Append(@, x)]
  /\ caught \/ crashes < MaxCrashes
  /\ IF caught THEN UNCHANGED <<at, crashes>> ELSE Go(t, "uncaught") /\ crashes' = crashes + 1
  /\ UNCHANGED <<installed, defaulted, guard, hit, shown, traced, holds, ended>>

EndCatch(t) ==
  /\ at[t] = "run" /\ active[t] # <<>>
  /\ active' = [active EXCEPT ![t] = SubSeq(@, 1, Len(@) - 1)]
  /\ UNCHANGED <<installed, defaulted, guard, at, hit, lastThrow, thrower, shown, traced, holds, crashes, ended>>

ClearLast(t) ==
  /\ at[t] = "run"
  /\ lastThrow' = [lastThrow EXCEPT ![t] = NoStack]
  /\ UNCHANGED <<installed, defaulted, guard, at, hit, active, thrower, shown, traced, holds, crashes, ended>>

\* std::terminate without a new throw: a rethrow that nobody catches, the
\* destructor of a joinable thread.
Terminate(t) ==
  /\ at[t] = "run" /\ crashes < MaxCrashes
  /\ Go(t, "terminate") /\ crashes' = crashes + 1
  /\ UNCHANGED <<installed, defaulted, guard, hit, lastThrow, active, thrower, shown, traced, holds, ended>>

\* An empty slot means the stack of terminate itself.  Allocates, and takes the
\* lock of stderr.
TerminateHandler(t) ==
  /\ at[t] \in {"uncaught", "terminate"}
  /\ shown' = IF installed = 0 THEN shown
              ELSE [shown EXCEPT ![t] = [exception |-> Innermost(active[t]), stack |-> lastThrow[t],
                                     uncaught |-> at[t] = "uncaught"]]
  /\ Go(t, "abort")
  /\ UNCHANGED <<installed, defaulted, guard, hit, lastThrow, active, thrower, traced, holds, crashes, ended>>

\* Signal s reaches t.  One that t is already handling is blocked, and a fault
\* that is blocked kills, as does one with its default action.
Hit(t, s) ==
  IF Ours(s) /\ s \notin {hit[t][i] : i \in DOMAIN hit[t]}
    THEN /\ Go(t, "handler")
         /\ hit' = [hit EXCEPT ![t] = Append(@, s)]
         /\ UNCHANGED ended
    ELSE ended' = TRUE /\ UNCHANGED <<at, hit>>

AbortCall(t) ==
  /\ at[t] = "abort"
  /\ Hit(t, Abort)
  /\ UNCHANGED <<installed, defaulted, guard, lastThrow, active, thrower, shown, traced, holds, crashes>>

\* inside: what faults is the allocator or the loader, and it has its lock.
Fault(t, s, inside) ==
  /\ at[t] \in {"run", "uncaught", "terminate", "print"} /\ crashes < MaxCrashes /\ s # Abort
  /\ crashes' = crashes + 1
  /\ holds' = IF inside THEN holds \union {t} ELSE holds
  /\ Hit(t, s)
  /\ UNCHANGED <<installed, defaulted, guard, lastThrow, active, thrower, shown, traced>>

\* Mutant: the result of the exchange is taken the wrong way round.
ClaimFlagInverted(t) ==
  /\ at[t] = "handler"
  /\ guard' = TRUE
  /\ Go(t, IF guard THEN "print" ELSE "raise")
  /\ UNCHANGED <<installed, defaulted, hit, lastThrow, active, thrower, shown, traced, holds, crashes, ended>>

\* Mutant: the flag is set without looking at it.
ClaimFlagAlways(t) ==
  /\ at[t] = "handler"
  /\ guard' = TRUE /\ Go(t, "print")
  /\ UNCHANGED <<installed, defaulted, hit, lastThrow, active, thrower, shown, traced, holds, crashes, ended>>

\* compare_exchange_strong
ClaimFlag(t) ==
  /\ at[t] = "handler"
  /\ guard' = TRUE
  /\ Go(t, IF guard THEN "raise" ELSE "print")
  /\ UNCHANGED <<installed, defaulted, hit, lastThrow, active, thrower, shown, traced, holds, crashes, ended>>

\* current_stacktrace_string() allocates, and the text goes to write().
PrintTrace(t) ==
  /\ at[t] = "print"
  /\ traced' = traced \union {t}
  /\ Go(t, "raise")
  /\ UNCHANGED <<installed, defaulted, guard, hit, lastThrow, active, thrower, shown, holds, crashes, ended>>

\* Mutant: the disposition is not put back.
RaiseAgainHandled(t) ==
  /\ at[t] = "raise"
  /\ Go(t, "handler")
  /\ UNCHANGED <<installed, defaulted, guard, hit, lastThrow, active, thrower, shown, traced, holds, crashes, ended>>

\* SIG_DFL, and raise(): the signal is blocked until the handler returns.
RaiseAgain(t) ==
  /\ at[t] = "raise"
  /\ defaulted' = defaulted \union {Innermost(hit[t])}
  /\ ended' = TRUE
  /\ UNCHANGED <<installed, guard, at, hit, lastThrow, active, thrower, shown, traced, holds, crashes>>

CrashInit ==
  /\ installed = 0 /\ defaulted = {} /\ guard = FALSE
  /\ at = [t \in Crashers |-> "run"]
  /\ hit = [t \in Crashers |-> <<>>]
  /\ lastThrow = [t \in Crashers |-> NoStack]
  /\ active = [t \in Crashers |-> <<>>]
  /\ thrower = [x \in {} |-> NoStack]
  /\ shown = [t \in Crashers |-> [exception |-> NoStack, stack |-> NoStack, uncaught |-> FALSE]]
  /\ traced = {} /\ holds = {}
  /\ crashes = 0 /\ ended = FALSE

CrashStep(t) ==
  ~ended /\ (TerminateHandler(t) \/ AbortCall(t) \/ ClaimFlag(t) \/ PrintTrace(t) \/ RaiseAgain(t))

\* The steps that nothing can hold up.
CrashGoesOn(t) ==
  CrashStep(t) /\ (at[t] \in {"uncaught", "terminate", "print"} => holds = {})

CrashNext ==
  \/ ~ended /\ InstallNext
  \/ \E t \in Crashers :
       \/ CrashStep(t)
       \/ ~ended /\ (EndCatch(t) \/ ClearLast(t) \/ Terminate(t))
       \/ \E x \in Exceptions : \E caught \in BOOLEAN : ~ended /\ CxaThrow(t, x, caught)
       \/ \E s \in FatalSet, inside \in BOOLEAN : ~ended /\ Fault(t, s, inside)
-----------------------------------------------------------------------------
(* Properties.                                                             *)

\* "Best-effort recursion guard" (install_crash_handlers.cpp:81): two traces
\* are never printed at once, by two threads or by one in nested handlers.
OneTracer ==
  \A t, u \in Crashers : at[t] = "print" /\ (at[u] = "print" \/ u \in traced) => t = u /\ t \notin traced

\* A process that crashes once, after the installation, says where: the trace
\* is complete when the default action ends it.
CrashIsTraced ==
  ended /\ crashes = 1 /\ guard => \E t \in Crashers : traced = {t}

\* What terminate shows as "stack at throw site" (install_crash_handlers.cpp:63)
\* is a throw of that very thread, and when an exception was thrown that
\* nobody caught, the throw of the exception it names.
StackIsOwnThrow ==
  \A t \in Crashers :
    /\ shown[t].stack # NoStack => thrower[shown[t].stack] = t
    /\ shown[t].uncaught => shown[t].stack = shown[t].exception

\* Whatever is printed of a crash belongs to that crash.
TracesAreTrue == OneTracer /\ CrashIsTraced /\ StackIsOwnThrow

\* A crash ends the process, through whichever handlers it goes, unless the
\* thread that prints has crashed with a lock that formatting takes.  Even then
\* the next fatal signal ends it: it finds the flag taken and prints nothing
\* ("just bail out", install_crash_handlers.cpp:82).
CrashEnds ==
  /\ (\E t \in Crashers : at[t] # "run") ~> (ended \/ \E t \in holds : at[t] = "print")
  /\ (guard /\ \E t \in Crashers : at[t] = "handler") ~> ended
=============================================================================
