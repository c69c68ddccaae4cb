----------------------------- MODULE RingIterator -----------------------------
(***************************************************************************)
(* RingBuffer<T>::Iterator: a slot index and the number of elements left   *)
(* (count_), the latter being what tells begin() from end() of a full      *)
(* buffer, whose indices coincide.  Arithmetic is in size_t, modulo        *)
(* WordMod.  Any change of the buffer invalidates the iterator, as for     *)
(* every container: it is taken again.                                     *)
(***************************************************************************)
EXTENDS RingBuffer

CONSTANTS
  WordMod,       \* 2^w, the modulus of size_t
  NegativeJumps  \* TRUE: += and [] are also called with a negative distance

ASSUME WordAssumption ==
  /\ WordMod \in Nat /\ WordMod > 3 * Cap
  /\ NegativeJumps \in BOOLEAN

VARIABLE it

itVars == <<data, head, size, it>>

Word(x) == x % WordMod

Begin == [index |-> head, count |-> size]
End == [index |-> SlotOf(size), count |-> 0]

\* The position the iterator stands for: 0 is begin(), size is end().
Position(i) == size - i.count

\* Mutant: operator++ without the wrap at the last slot.
Next1NoWrap(i) == [index |-> i.index + 1, count |-> Word(i.count - 1)]

\* operator++
Next1(i) == [index |-> IF i.index + 1 = Cap THEN 0 ELSE i.index + 1,
             count |-> Word(i.count - 1)]

\* Mutant: operator-- without the wrap at slot 0.
Prev1NoWrap(i) == [index |-> IF i.index = 0 THEN 0 ELSE i.index - 1,
                   count |-> Word(i.count + 1)]

\* operator--
Prev1(i) == [index |-> IF i.index = 0 THEN Cap - 1 ELSE i.index - 1,
             count |-> Word(i.count + 1)]

\* operator+= and operator-=
Plus(i, d) == [index |-> Word(i.index + d) % Cap, count |-> Word(i.count - d)]
Minus(i, d) == [index |-> Word(i.index + Cap - d) % Cap,
                count |-> Word(i.count + d)]

\* operator- of two iterators, as the signed difference_type, and operator<.
Signed(x) == IF Word(x) >= WordMod \div 2 THEN Word(x) - WordMod ELSE Word(x)

\* Mutant: the operands of operator- swapped.
DistanceSwapped(i, j) == Signed(i.count - j.count)

Distance(i, j) == Signed(j.count - i.count)
Less(i, j) == i.count < j.count

\* Mutant: operator[] without the wrap.
SubscriptNoWrap(i, d) == Word(i.index + d)

\* The slot operator[] reads.
Subscript(i, d) == Word(i.index + d) % Cap

-----------------------------------------------------------------------------
TakeBegin == it' = Begin /\ UNCHANGED rbVars
TakeEnd   == it' = End /\ UNCHANGED rbVars

\* The distances that stay between begin() and end(), the caller's duty.
Jumps == {d \in -Cap .. Cap : Position(it) + d \in 0 .. size}
Allowed == IF NegativeJumps THEN Jumps ELSE Jumps \intersect Nat

Increment == Position(it) < size /\ it' = Next1(it) /\ UNCHANGED rbVars
Decrement == Position(it) > 0 /\ it' = Prev1(it) /\ UNCHANGED rbVars
JumpForward  == \E d \in Allowed : it' = Plus(it, d) /\ UNCHANGED rbVars
JumpBackward == \E d \in Jumps : it' = Minus(it, -d) /\ UNCHANGED rbVars

ItInit == Init /\ it = Begin

ItNext ==
  \/ Next /\ it' = Begin'
  \/ TakeBegin \/ TakeEnd
  \/ Increment \/ Decrement
  \/ JumpForward \/ JumpBackward

ItSpec == ItInit /\ [][ItNext]_itVars

-----------------------------------------------------------------------------
(* Properties.                                                             *)

ItTypeOK == it \in [index : Slots, count : 0 .. size]

\* Whatever mixture of ++, --, += and -= led here, the iterator points at
\* the slot of its position: walking from begin() to end() in any way meets
\* the elements in order, also across the wrap and in a full buffer.
PointsAtPosition == it.index = SlotOf(Position(it))

\* it[d] is the element d positions on.
SubscriptAgrees ==
  \A d \in Allowed : Position(it) + d < size
    => Subscript(it, d) = SlotOf(Position(it) + d)

\* operator- is the distance between positions, begin() and end() included.
DistanceAgrees ==
  /\ Distance(it, Begin) = Position(it)
  /\ Distance(End, it) = size - Position(it)

\* Every way to the elements leads to the same ones: both segments, and the
\* iterator with its position, its subscripts and its distances.
AccessAgrees ==
  /\ TypeOK /\ ItTypeOK
  /\ SegmentsAgree /\ PointsAtPosition /\ SubscriptAgrees /\ DistanceAgrees

\* What iterator_category = random_access_iterator_tag (ring_buffer.hpp:25)
\* declares: i < j exactly when j - i is positive.
OrderAgreesWithDistance == Less(Begin, it) <=> Distance(it, Begin) > 0
=============================================================================
