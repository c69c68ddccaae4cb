------------------------------ MODULE RingBuffer ------------------------------
(***************************************************************************)
(* RingBuffer<T> of util/ring_buffer.hpp: a fixed array, the index of its  *)
(* oldest element and a size.  A push on a full buffer overwrites the      *)
(* oldest element; the element leaving by pop_front() is replaced by T{},  *)
(* so that what it held is released at once.                               *)
(***************************************************************************)
EXTENDS Integers, Sequences

CONSTANTS
  Cap,     \* capacity_
  Values,  \* values of T that are pushed
  Blank    \* T{}

\* The constructor throws on capacity 0.
ASSUME CapAssumption == Cap \in Nat \ {0}

VARIABLES data, head, size

rbVars == <<data, head, size>>

Slots == 0 .. Cap - 1

\* The slot k places after slot h, and that of the k-th element, as front(),
\* back() and operator[] compute it.
SlotFrom(h, k) == (h + k) % Cap
SlotOf(k) == SlotFrom(head, k)

\* The elements from oldest to newest.
Contents == [i \in 1 .. size |-> data[SlotOf(i - 1)]]

Init ==
  /\ data = [i \in Slots |-> Blank]
  /\ head = 0
  /\ size = 0

\* Mutant: a full push that forgets to move the head.
PushBackKeepsHead(v) ==
  /\ data' = [data EXCEPT ![SlotOf(size)] = v]
  /\ size' = IF size < Cap THEN size + 1 ELSE size
  /\ UNCHANGED head

\* Mutant: a full push that also counts.
PushBackOverfills(v) ==
  /\ data' = [data EXCEPT ![SlotOf(size)] = v]
  /\ size' = size + 1
  /\ UNCHANGED head

\* push_impl
PushBack(v) ==
  /\ data' = [data EXCEPT ![SlotOf(size)] = v]
  /\ IF size < Cap
       THEN size' = size + 1 /\ UNCHANGED head
       ELSE head' = SlotFrom(head, 1) /\ UNCHANGED size

\* Mutant: pop_front() that leaves the value behind.
PopFrontKeepsValue ==
  /\ size > 0
  /\ head' = SlotFrom(head, 1)
  /\ size' = size - 1
  /\ UNCHANGED data

\* Mutant: pop_front() that drops the newest element.
PopFrontDropsNewest ==
  /\ size > 0
  /\ data' = [data EXCEPT ![SlotOf(size - 1)] = Blank]
  /\ size' = size - 1
  /\ UNCHANGED head

\* pop_front() of an empty buffer does nothing.
PopFront ==
  /\ size > 0
  /\ data' = [data EXCEPT ![head] = Blank]
  /\ head' = SlotFrom(head, 1)
  /\ size' = size - 1

\* clear() pops until empty, then starts again from slot 0.
Clear ==
  /\ data' = [i \in Slots |->
                IF \E k \in 0 .. size - 1 : SlotOf(k) = i THEN Blank ELSE data[i]]
  /\ head' = 0
  /\ size' = 0

\* Writing through front(), back() or operator[].
Assign(k, v) ==
  /\ k < size
  /\ data' = [data EXCEPT ![SlotOf(k)] = v]
  /\ UNCHANGED <<head, size>>

Next ==
  \/ \E v \in Values : PushBack(v)
  \/ PopFront
  \/ Clear
  \/ \E k \in Slots, v \in Values : Assign(k, v)

Spec == Init /\ [][Next]_rbVars

\* Mutant: the first segment reaches one slot short of the array's end.
FirstCountShort == IF size < Cap - head - 1 THEN size ELSE Cap - head - 1

FirstCount == IF size < Cap - head THEN size ELSE Cap - head
FirstSegment == [i \in 1 .. FirstCount |-> data[head + i - 1]]
SecondSegment == [i \in 1 .. size - FirstCount |-> data[i - 1]]

-----------------------------------------------------------------------------
(* Properties.                                                             *)

TypeOK ==
  /\ data \in [Slots -> Values \union {Blank}]
  /\ head \in Slots
  /\ size \in 0 .. Cap

\* The values a slot outside the window once held are gone: pop_front()
\* (ring_buffer.hpp:180) and clear() release what they drop, wherever the
\* window has wrapped to.
NoGhosts ==
  \A i \in Slots : (\A k \in 0 .. size - 1 : SlotOf(k) # i) => data[i] = Blank

\* first_segment() followed by second_segment() is the whole content in
\* order: the two spans split the window where it wraps, and neither
\* overlaps nor skips.
SegmentsAgree == FirstSegment \o SecondSegment = Contents

Window == INSTANCE SlidingWindow WITH queue <- Contents

\* Each call is the very operation its name says: a push into a full buffer
\* is not a write to some element, however alike their effects.
EachCallAgrees ==
  [][ /\ \A v \in Values : PushBack(v) => Window!Push(v)
      /\ PopFront => Window!Pop
      /\ Clear => Window!Clear
      /\ \A k \in Slots, v \in Values : Assign(k, v) => Window!Assign(k + 1, v)
    ]_rbVars

\* The buffer is a bounded queue that drops its oldest element: every step
\* is a step of SlidingWindow on the content, and the one it is called.
ImplementsWindow == Window!Spec /\ EachCallAgrees
=============================================================================
