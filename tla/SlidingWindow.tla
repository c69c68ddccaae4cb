---------------------------- MODULE SlidingWindow ----------------------------
(***************************************************************************)
(* What RingBuffer promises: a queue of at most Cap values in which a push *)
(* on a full queue drops the oldest one.                                   *)
(***************************************************************************)
EXTENDS Naturals, Sequences

CONSTANTS Cap, Values, Blank

VARIABLE queue

Push(v) == queue' = Append(IF Len(queue) < Cap THEN queue ELSE Tail(queue), v)

Pop == queue # <<>> /\ queue' = Tail(queue)

Clear == queue' = <<>>

Assign(i, v) == i \in DOMAIN queue /\ queue' = [queue EXCEPT ![i] = v]

Init == queue = <<>>

Next ==
  \/ \E v \in Values : Push(v)
  \/ Pop
  \/ Clear
  \/ \E i \in 1 .. Cap, v \in Values : Assign(i, v)

Spec == Init /\ [][Next]_queue
=============================================================================
