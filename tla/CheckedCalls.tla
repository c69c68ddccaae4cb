----------------------------- MODULE CheckedCalls -----------------------------
(***************************************************************************)
(* wrap_c/check_c_call.cpp: a system call's value goes through fail_if,    *)
(* which takes errno, applies one of three predicates, and throws,         *)
(* terminates or logs: the message the place passes along, or else the     *)
(* text of errno.  Only then may other code run that changes errno:        *)
(* default_logger() and the formatting of the message do.                  *)
(***************************************************************************)
EXTENDS Integers

CONSTANTS
  Sites,       \* where wrap_c checks a call, see IsSite
  Errnos,      \* error numbers
  Messages,    \* the texts that places pass along as errmsg
  Nullptr,     \* the errmsg of a place that passes none
  KeepErrno    \* TRUE: signal handlers put errno back

\* gives: the values the call may return; failing: those that tell of a
\* failure, by the call's own convention; sets: whether the call leaves errno
\* when it fails; pred, act, errmsg: the macro used on it.
IsSite(s) ==
  /\ s.failing \subseteq s.gives
  /\ s.pred \in {"minus_one", "nonzero", "zero"}
  /\ s.act \in {"throw", "terminate", "log"}
  /\ s.sets \in BOOLEAN /\ s.errmsg \in Messages \union {Nullptr}

ASSUME CheckedAssumption == KeepErrno \in BOOLEAN /\ \A s \in Sites : IsSite(s)

VARIABLES
  site,     \* the call being made
  value,    \* what it returned
  errno,    \* of this thread
  left,     \* ghost: the error number the failing call left, 0 if it leaves none
  err,      \* the local of fail_if
  stage,    \* "idle", "called", "sampled", "out", "dead"
  outcome   \* what came of the last call

checkedVars == <<site, value, errno, left, err, stage, outcome>>

\* Mutant: the predicate for zero is that for nonzero.
SatisfiesNonZero(pred, v) ==
  \/ pred = "minus_one" /\ v = -1
  \/ pred \in {"nonzero", "zero"} /\ v # 0

Satisfies(pred, v) ==
  \/ pred = "minus_one" /\ v = -1
  \/ pred = "nonzero" /\ v # 0
  \/ pred = "zero" /\ v = 0

SystemCall(s, v, e) ==
  /\ stage \in {"idle", "out"}
  /\ site' = s /\ value' = v
  /\ errno' = IF v \in s.failing /\ s.sets THEN e ELSE errno
  /\ left' = IF v \in s.failing /\ s.sets THEN e ELSE 0
  /\ stage' = "called"
  /\ UNCHANGED <<err, outcome>>

\* auto err = errno, before anything else.
Sample ==
  /\ stage = "called"
  /\ err' = errno /\ stage' = "sampled"
  /\ UNCHANGED <<site, value, errno, left, outcome>>

\* Code that runs before the message is complete, or a signal's handler.
OthersChangeErrno(e) ==
  /\ stage = "sampled" \/ ~KeepErrno
  /\ stage # "dead"
  /\ errno' = e
  /\ UNCHANGED <<site, value, left, err, stage, outcome>>

\* Mutant: the actions look errno up themselves.
ReportLate(how) ==
  outcome' = [how |-> how, told |-> IF site.errmsg # Nullptr THEN site.errmsg ELSE errno]

Report(how) ==
  outcome' = [how |-> how, told |-> IF site.errmsg # Nullptr THEN site.errmsg ELSE err]

PassOn ==
  /\ stage = "sampled" /\ ~Satisfies(site.pred, value)
  /\ outcome' = [how |-> "returns", told |-> 0]
  /\ stage' = "out"
  /\ UNCHANGED <<site, value, errno, left, err>>

FailIf ==
  /\ stage = "sampled" /\ Satisfies(site.pred, value)
  /\ Report(site.act)
  /\ stage' = IF site.act = "terminate" THEN "dead" ELSE "out"
  /\ UNCHANGED <<site, value, errno, left, err>>

CheckedInit ==
  /\ site = CHOOSE s \in Sites : TRUE
  /\ value = 0 /\ errno = 0 /\ left = 0 /\ err = 0
  /\ stage = "idle"
  /\ outcome = [how |-> "returns", told |-> 0]

CheckedNext ==
  \/ \E s \in Sites : \E v \in s.gives : \E e \in Errnos : SystemCall(s, v, e)
  \/ Sample \/ PassOn \/ FailIf
  \/ \E e \in Errnos : OthersChangeErrno(e)
-----------------------------------------------------------------------------
(* Properties.                                                             *)

\* At every place that checks a call the macro fits the call's convention: a
\* failure never passes for a result, and no result is taken for a failure.
FailuresAreSeen ==
  stage \in {"out", "dead"} => (outcome.how = "returns" <=> value \notin site.failing)

\* What is thrown or logged is the place's own message (io.cpp:260 passes the
\* path, host_addr.cpp:58 a text) or else the error the call left, never one
\* that was there before, as inet_aton() would leave it, nor one that the
\* logger and the formatting put there (check_c_call.cpp:69), provided that
\* signal handlers do not.
ErrorIsTheCalls ==
  stage \in {"out", "dead"} /\ outcome.how # "returns" =>
    outcome.told = IF site.errmsg = Nullptr THEN left ELSE site.errmsg

\* A failure is told, and as the failure it was.
FailuresAreTold == FailuresAreSeen /\ ErrorIsTheCalls
=============================================================================
