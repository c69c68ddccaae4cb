------------------------------- MODULE RangeWalk -------------------------------
(***************************************************************************)
(* IndexRange<T> of util/index_range.hpp over an unsigned strong index     *)
(* type (strong/strong.hpp), whose arithmetic is cast back to the width of *)
(* the type, and a loop with its iterators.                                *)
(***************************************************************************)
EXTENDS Integers

CONSTANT IndexMod  \* 2^w for the width of the index type

ASSUME IndexAssumption == IndexMod \in Nat \ {0}

VARIABLES
  range,  \* [b, e], the two ends of an IndexRange
  pos,    \* v_ of an iterator
  walked, \* ghost: the indices the loop has taken, as a set
  sized   \* ghost: the size that was asked for

rangeVars == <<range, pos, walked, sized>>

Unsized == IndexMod

IndexValues == 0 .. IndexMod - 1

\* +, -, ++ and -- of Strong, with static_cast<Weak>.
Weakened(x) == x % IndexMod

FromTo(b, e) == [b |-> b, e |-> e]

\* Mutant: the end taken as the number of indices.
SizedToSize(b, s) == FromTo(b, s)

\* sized_range, IndexRange(Count) and the functions that call them.
Sized(b, s) == FromTo(b, Weakened(b + s))

RangeSize(r) == Weakened(r.e - r.b)

\* Mutant: contains() with the end included.
InRangeOrEnd(r, i) == r.b <= i /\ i <= r.e

InRange(r, i) == r.b <= i /\ i < r.e

\* iterator - iterator, a difference_type wider than the index.
Apart(i, j) == i - j

\* The caller's duty is that the end is not before the beginning: the sum
\* in sized_range is not checked.
Enter(r, size) ==
  /\ r.b <= r.e
  /\ sized' = size
  /\ range' = r /\ pos' = r.b /\ walked' = {}

RangeInit == range = FromTo(0, 0) /\ pos = 0 /\ walked = {} /\ sized = Unsized

StepRange == pos # range.e /\ pos' = Weakened(pos + 1) /\ walked' = walked \union {pos} /\ UNCHANGED <<range, sized>>
StepBack == pos # range.b /\ pos' = Weakened(pos - 1) /\ walked' = walked \ {pos'} /\ UNCHANGED <<range, sized>>

\* += and -=, which stay in the range.
Leap(d) ==
  /\ pos + d \in range.b .. range.e
  /\ pos' = Weakened(pos + d)
  /\ walked' = range.b .. pos + d - 1
  /\ UNCHANGED <<range, sized>>

RangeNext ==
  \/ \E b, n \in IndexValues : Enter(FromTo(b, n), Unsized) \/ (b + n < IndexMod /\ Enter(Sized(b, n), n))
  \/ StepRange \/ StepBack
  \/ \E d \in 1 - IndexMod .. IndexMod - 1 : Leap(d)

-----------------------------------------------------------------------------
(* Properties.                                                             *)

\* A loop takes exactly the indices contains() admits, up to the largest
\* value of the type, and size() of them: as many as were asked for.
LoopTakesRange ==
  /\ sized # Unsized => RangeSize(range) = sized
  /\ \A i \in walked : InRange(range, i) /\ i < pos
  /\ pos = range.e => walked = {i \in IndexValues : InRange(range, i)}
  /\ Apart(range.e, pos) + Apart(pos, range.b) = RangeSize(range)
=============================================================================
