----------------------------- MODULE FixedArrays ------------------------------
(***************************************************************************)
(* The two containers that are an array and a count: CappedVec<T, N> of    *)
(* types/capped_vec.hpp, for a T that starts as T{}, and                   *)
(* FixedLengthString<N> of types/fixed_length_string.hpp.                  *)
(*                                                                         *)
(* What leaves the vector is replaced by T{}, so that what it held is      *)
(* released at once.  A new text is a new object, assigned: the characters *)
(* behind it are whatever the memory held, and no terminating zero is      *)
(* written.                                                                *)
(***************************************************************************)
EXTENDS Integers, Sequences

CONSTANTS
  Limit,   \* N
  Items,   \* values of T
  NoItem   \* T{}

ASSUME LimitAssumption == Limit \in Nat \ {0}

VARIABLES slots, count

vecVars == <<slots, count>>

Places == 0 .. Limit - 1
Elements == [i \in 1 .. count |-> slots[i - 1]]

VecInit == slots = [i \in Places |-> NoItem] /\ count = 0

\* The calls that throw change nothing: a push into a full vector, a pop of
\* an empty one, a place at or beyond size().
Push(v) ==
  /\ count # Limit
  /\ slots' = [slots EXCEPT ![count] = v]
  /\ count' = count + 1

\* Mutant: pop_back() that leaves the value behind.
PopKeepsValue == count # 0 /\ count' = count - 1 /\ UNCHANGED slots

Pop ==
  /\ count # 0
  /\ slots' = [slots EXCEPT ![count - 1] = NoItem]
  /\ count' = count - 1

\* Mutant: one slot short when growing.
ResizeShort(n, v) ==
  /\ n <= Limit
  /\ slots' = [i \in Places |-> IF i \in count .. n - 2 THEN v
                                ELSE IF i \in n .. count - 1 THEN NoItem ELSE slots[i]]
  /\ count' = n

Resize(n, v) ==
  /\ n <= Limit
  /\ slots' = [i \in Places |-> IF i \in count .. n - 1 THEN v
                                ELSE IF i \in n .. count - 1 THEN NoItem ELSE slots[i]]
  /\ count' = n

ClearVec == Resize(0, NoItem)

\* Writing through at(), front(), back() and the iterators.
WriteAt(i, v) == i < count /\ slots' = [slots EXCEPT ![i] = v] /\ UNCHANGED count

VecNext ==
  \/ \E v \in Items : Push(v)
  \/ Pop
  \/ \E n \in 0 .. Limit + 1, v \in Items \union {NoItem} : Resize(n, v)
  \/ ClearVec
  \/ \E i \in Places, v \in Items : WriteAt(i, v)

-----------------------------------------------------------------------------
(* Properties.                                                             *)

\* No slot beyond size() keeps what an element held (capped_vec.hpp:65 and
\* 76), after any mixture of pops and resizes.
NothingKept == \A i \in Places : i >= count => slots[i] = NoItem

\* Each call is the operation of its name on a sequence of at most N
\* elements: those that stay keep their place and value, those that go leave
\* nothing.
VectorAgrees ==
  [][ /\ NothingKept'
      /\ \A v \in Items : Push(v) => Elements' = Append(Elements, v)
      /\ Pop => Elements' = SubSeq(Elements, 1, Len(Elements) - 1)
      /\ \A n \in 0 .. Limit + 1, v \in Items :
           Resize(n, v) => Elements' = [i \in 1 .. n |-> IF i <= Len(Elements) THEN Elements[i] ELSE v]
      /\ ClearVec => Elements' = <<>>
    ]_vecVars

-----------------------------------------------------------------------------
(* The string.                                                             *)

CONSTANTS
  Capacity,   \* N
  Chars,      \* the characters that occur
  MaxForeign  \* bound: the longest text that is offered

ASSUME CapacityAssumption == Capacity \in Nat \ {0} /\ MaxForeign \in Nat
ASSUME CharsAssumption == Chars # {}

VARIABLES
  fixed,  \* a string and a second one [data, size]
  lasting \* ghost: the texts last given to them

fixedVars == <<fixed, lasting>>

Texts == UNION {[1 .. n -> Chars] : n \in 0 .. MaxForeign}
Arrays == [1 .. Capacity -> Chars]

\* Mutant: the view of the whole array.
ViewAll(s) == s.data

ViewOf(s) == SubSeq(s.data, 1, s.size)

FixedInit ==
  /\ fixed = [k \in 1 .. 2 |-> [data |-> CHOOSE a \in Arrays : TRUE, size |-> 0]]
  /\ lasting = [k \in 1 .. 2 |-> <<>>]

\* Construction from any string and assignment: too long a text throws.
GiveText(k, t) ==
  /\ Len(t) <= Capacity
  /\ \E a \in Arrays :
       /\ SubSeq(a, 1, Len(t)) = t
       /\ fixed' = [fixed EXCEPT ![k] = [data |-> a, size |-> Len(t)]]
  /\ lasting' = [lasting EXCEPT ![k] = t]

\* The defaulted copy takes the array as it is.
CopyText(k, l) ==
  /\ fixed' = [fixed EXCEPT ![k] = fixed[l]]
  /\ lasting' = [lasting EXCEPT ![k] = lasting[l]]

FixedNext ==
  \/ \E k \in 1 .. 2, t \in Texts : GiveText(k, t)
  \/ CopyText(1, 2) \/ CopyText(2, 1)

\* == and !=, also with the other kinds of strings.
SameText(s, t) == ViewOf(s) = ViewOf(t)

-----------------------------------------------------------------------------
(* Properties.                                                             *)

\* Two strings are equal exactly when the texts they were given are: what an
\* earlier, longer text left in the array counts for nothing.
TextsCompareAlone ==
  /\ \A k \in 1 .. 2 : ViewOf(fixed[k]) = lasting[k]
  /\ SameText(fixed[1], fixed[2]) <=> lasting[1] = lasting[2]
=============================================================================
