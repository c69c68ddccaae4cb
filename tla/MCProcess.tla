------------------------------ MODULE MCProcess ------------------------------
(* What a process goes through: its signal handler, a crash, a checked     *)
(* system call and a dialogue over a stream, one of them at a time.        *)
EXTENDS MCSignalHandler, CheckedCalls, Transfer, CrashHandlers, TLC

CONSTANTS c, s, path_given, bad_ip_address

VARIABLE subject

Does(what, n) == [does |-> what, n |-> n]
Writes(n) == Does("write", n)
Reads(n) == Does("read", n)
Mode(n) == Does("mode", n)

Dialogue(signals, client, server) ==
  [signals |-> signals, calls |-> (c :> client) @@ (s :> server)]

MCDialogues ==
  \* Requests and answers, larger than the room and empty.
  {Dialogue(signals, <<Writes(5), Reads(3), Writes(0), Writes(3)>>, <<Reads(5), Writes(3), Reads(0), Reads(3)>>) :
     signals \in BOOLEAN}
  \* One end stops early, or asks for too much, or both talk first.
  \union {Dialogue(TRUE, <<Writes(5)>>, <<Reads(2)>>),
          Dialogue(FALSE, <<Writes(3)>>, <<Reads(4), Writes(1)>>),
          Dialogue(FALSE, <<Writes(4), Reads(4)>>, <<Writes(4), Reads(4)>>)}
  \* One end does not block, for a while.
  \union {Dialogue(FALSE, <<Mode(0), Reads(2), Mode(1), Reads(1)>>, <<Writes(2), Writes(1)>>),
          Dialogue(FALSE, <<Mode(0), Writes(4)>>, <<Reads(4)>>)}

Site(gives, failing, pred, act) ==
  [gives |-> gives, failing |-> failing, sets |-> TRUE, pred |-> pred, act |-> act, errmsg |-> Nullptr]

\* read() and most others, open(), close(), fcntl(F_SETFL), try_shutdown(),
\* inet_aton(), and a macro that nothing in wrap_c uses.
MCSites ==
  {Site({-1, 0, 2}, {-1}, "minus_one", "throw"),
   [Site({-1, 3}, {-1}, "minus_one", "throw") EXCEPT !.errmsg = path_given],
   Site({-1, 0}, {-1}, "nonzero", "log"),
   Site({-1, 0}, {-1}, "nonzero", "throw"), Site({-1, 0}, {-1}, "minus_one", "log"),
   [Site({0, 1}, {0}, "zero", "throw") EXCEPT !.errmsg = bad_ip_address, !.sets = FALSE],
   Site({-1, 0}, {-1}, "minus_one", "terminate")}

MCFatal == <<"SIGSEGV", "SIGABRT", "SIGFPE">>

ProcessInit ==
  /\ Init /\ CheckedInit /\ TransferInit /\ CrashInit
  /\ subject \in {"signals", "calls", "stream", "crash"}
  \* What does not move starts in one way only.
  /\ subject = "signals" \/ scene = CHOOSE sc \in Scenes : TRUE
  /\ subject = "stream" \/ dialogue = CHOOSE d \in Dialogues : d.signals

ProcessNext ==
  /\ subject' = subject
  /\ \/ subject = "signals" /\ Next /\ UNCHANGED <<checkedVars, transferVars, crashVars>>
     \/ subject = "calls" /\ CheckedNext /\ UNCHANGED <<vars, transferVars, crashVars>>
     \/ subject = "stream" /\ TransferNext /\ UNCHANGED <<vars, checkedVars, crashVars>>
     \/ subject = "crash" /\ CrashNext /\ UNCHANGED <<vars, checkedVars, transferVars>>

\* A thread in a handler keeps running, an end of a stream makes the calls that
\* do not block, and a thread that crashes goes on to its end
\* where it cannot wait for a lock.
ProcessSpec ==
  /\ ProcessInit /\ [][ProcessNext]_<<subject, vars, checkedVars, transferVars, crashVars>>
  /\ \A t \in {t1, t2} : WF_vars(~killed /\ t \in Threads /\ UNCHANGED scene /\ HandlerStep(t))
  /\ \A e \in Ends : WF_transferVars(subject = "stream" /\ EndStep(e))
  /\ \A t \in Crashers : WF_crashVars(subject = "crash" /\ CrashGoesOn(t))
=============================================================================
