------------------------------- MODULE IndexBits -------------------------------
(***************************************************************************)
(* The two sets of util that keep bits, first IndexSet and below EnumFlags,*)
(* and loops over them.                                                    *)
(*                                                                         *)
(* IndexSet<Index, count> of util/index_set.hpp: the set bits of an        *)
(* unsigned integer that may be wider than count.  An iterator is a copy   *)
(* of all bits and an index: what a loop meets was settled by its begin(). *)
(* A 1 that is shifted by all the bits there are has no defined result.    *)
(***************************************************************************)
EXTENDS Integers, FiniteSets, Sequences, SequencesExt, FiniteSetsExt

CONSTANTS
  Width,  \* bits of Storage
  IntBits,  \* bits of int, which a narrower Storage is shifted in
  Count,  \* raw_count, the number of indices
  Given   \* the lists of indices that set, clear and toggle are called with

ASSUME CountAssumption ==
  /\ Count \in Nat \ {0} /\ Width \in Nat /\ Count <= Width /\ IntBits \in Nat
  /\ Given \subseteq SUBSET (0 .. Count - 1)

VARIABLES
  bits,    \* data_
  cursor,  \* an iterator [data, v] in a loop over the set
  met      \* ghost: the indices before the cursor that the loop has met

bitVars == <<bits, cursor, met>>

Indices == 0 .. Count - 1

\* Mutant: ~ as the complement of the whole storage.
ComplementOfStorage(b) == {(0 .. Width - 1) \ b}

SymmetricDifference(a, b) == (a \union b) \ (a \intersect b)

\* What (1 << n) - 1 may come to: the n lowest bits if the shift is defined, and
\* otherwise any value of the Storage.
Lowest(n) == IF n < Width \/ n < IntBits THEN {0 .. n - 1} ELSE SUBSET (0 .. Width - 1)
AllIndices == Lowest(Count)
Complement(b) == {SymmetricDifference(b, all) : all \in AllIndices}

HasIndex(b, i) == i \in Indices /\ i \in b

\* Mutant: an increment that stops at the next index, element or not.
StepUpAnywhere(i) == [i EXCEPT !.v = @ + 1]

\* operator++ stops at the next element, or at the end.
StepUp(i) == [i EXCEPT !.v = Min({v \in i.v + 1 .. Count : v = Count \/ v \in i.data})]

\* operator-- stops at the element before, or at 0.
StepDown(i) == [i EXCEPT !.v = Max({v \in 0 .. i.v - 1 : v = 0 \/ v \in i.data})]

BitsBegin(b) ==
  LET first == [data |-> b, v |-> 0]
  IN  IF HasIndex(b, 0) THEN first ELSE StepUp(first)
BitsEnd(b) == [data |-> b, v |-> Count]

BitsInit == bits = {} /\ cursor = BitsEnd({}) /\ met = {}

\* set, clear and toggle take a list and go through it.
SetBits(s) == bits' = bits \union s
ClearBits(s) == bits' = bits \ s
ToggleBits(s) == bits' = SymmetricDifference(bits, s)

\* The constructor from a number of indices, and the operators.
FirstBits(n) == bits' \in Lowest(n)
Meet(s) == bits' = bits \intersect s
Invert == bits' \in Complement(bits)

BitsChange ==
  /\ \/ \E s \in Given : SetBits(s) \/ ClearBits(s) \/ ToggleBits(s) \/ Meet(s)
     \/ \E n \in 0 .. Count : FirstBits(n)
     \/ Invert
  /\ UNCHANGED <<cursor, met>>

\* A loop starts at either end.  Its body may change the set.
EnterLoop ==
  /\ \/ cursor' = BitsBegin(bits) /\ met' = {}
     \/ cursor' = BitsEnd(bits) /\ met' = bits
  /\ UNCHANGED bits

BitsForward ==
  /\ cursor.v # Count
  /\ cursor' = StepUp(cursor)
  /\ met' = met \union {cursor.v}
  /\ UNCHANGED bits

\* -- has an element to go back to, the caller's duty.
BitsBack ==
  /\ \E v \in cursor.data : v < cursor.v
  /\ cursor' = StepDown(cursor)
  /\ met' = met \ {cursor'.v}
  /\ UNCHANGED bits

BitsNext == BitsChange \/ EnterLoop \/ BitsForward \/ BitsBack

-----------------------------------------------------------------------------
(* Properties.                                                             *)

\* size(), empty(), == and data() look at the whole storage, contains() at
\* the indices only: they agree because no operation sets a stray bit.
NoStrayBits == \A i \in 0 .. Width - 1 : i \in bits <=> HasIndex(bits, i)

\* A loop in either direction, or back and forth, meets exactly the elements
\* the set had when it began, whatever its body does to the set since.
LoopMeetsElements ==
  /\ NoStrayBits
  /\ met = {i \in cursor.data : i < cursor.v}
  /\ cursor.v \in cursor.data \union {Count}

-----------------------------------------------------------------------------
(***************************************************************************)
(* EnumFlags<E> of enum_flags.hpp: a bitset over the positions of the      *)
(* named values of E.  An iterator is a copy of the set from which each    *)
(* increment removes the lowest flag; the end is the empty set.  A value   *)
(* of E that has no name has no position: every operation on it throws.    *)
(***************************************************************************)

CONSTANTS
  Flags,    \* the named values of E, in their order
  Unnamed,  \* other values of E
  LongBits  \* bits of unsigned long long

\* magic_enum names every value of E once.
ASSUME FlagsAssumption ==
  /\ Flags \in Seq(ToSet(Flags)) /\ IsInjective(Flags)
  /\ Unnamed \notin ToSet(Flags) /\ LongBits \in Nat

VARIABLES
  flags,    \* storage_: the positions that are set
  place,    \* storage_ of an iterator in a loop over the flags
  ended,    \* std::terminate was called
  started,  \* ghost: the flags it should stand for when the loop began
  passed    \* ghost: those the loop has passed

flagVars == <<flags, place, ended, started, passed>>

Positions == DOMAIN Flags
HasPosition(e) == e \in ToSet(Flags)
IndexOf(e) == CHOOSE i \in Positions : Flags[i] = e

\* Mutant: an iterator that starts behind the flag it is for.
FromBehind(b, i) == {j \in b : j > i}

\* const_iterator(storage, index): the flags from a position on.
From(b, i) == {j \in b : j >= i}

\* Mutant: an increment that removes the highest flag.
AfterHighest(b) == b \ {Max(b)}

After(b) == b \ {Min(b)}

\* to_ullong() throws if a flag is set beyond its result.  The functions that
\* call it are noexcept: size(), the iterator's constructor, * and ++.
FitsLong(b) == \A i \in b : i <= LongBits

\* set and clear of a list take its flags one by one: those before an
\* unnamed one are done when it throws.
DoneOf(list) == {IndexOf(list[i]) : i \in {j \in DOMAIN list : \A k \in 1 .. j : HasPosition(list[k])}}

FlagsInit == flags = {} /\ place = {} /\ ended = FALSE /\ started = {} /\ passed = {}

SetFlags(list) == flags' = flags \union DoneOf(list)
ClearFlags(list) == flags' = flags \ DoneOf(list)
ClearAll == flags' = {}
FullFlags == flags' = Positions
Flip == flags' = Positions \ flags

\* &, | and ^ of two sets, and &=, |= and ^=.
Combinations(a, b) == {a \intersect b, a \union b, (a \ b) \union (b \ a)}
Combine(s) == flags' \in Combinations(flags, s)

Lists == {<<e, f>> : e, f \in ToSet(Flags) \union {Unnamed}}

FlagsChange ==
  /\ \/ \E list \in Lists : SetFlags(list) \/ ClearFlags(list)
     \/ ClearAll \/ FullFlags \/ Flip
     \/ \E s \in SUBSET Positions : Combine(s)
  /\ UNCHANGED <<place, started, passed>>

StartLoop(b, due) == place' = b /\ started' = due /\ passed' = {}

\* The flag that was asked for and those after it.
Later(b, e) == {j \in b : \E k \in 1 .. j : Flags[k] = e}

\* begin(), find() and insert() give an iterator; find() of an unset flag
\* gives the end.
BeginFlags == StartLoop(flags, flags) /\ UNCHANGED flags
FindFlag(e) ==
  /\ HasPosition(e)
  /\ \/ IndexOf(e) \in flags /\ FitsLong(flags) /\ StartLoop(From(flags, IndexOf(e)), Later(flags, e))
     \/ IndexOf(e) \notin flags /\ StartLoop({}, {})
  /\ UNCHANGED flags
InsertFlag(e) ==
  /\ HasPosition(e)
  /\ flags' = flags \union {IndexOf(e)}
  /\ FitsLong(flags')
  /\ StartLoop(From(flags', IndexOf(e)), Later(flags', e))

Pass ==
  /\ place' = After(place)
  /\ passed' = passed \union {Min(place)}
  /\ UNCHANGED started

StepFlags == place # {} /\ FitsLong(place) /\ Pass /\ UNCHANGED flags

\* it = erase(it)
EraseFlag == place # {} /\ FitsLong(place) /\ flags' = flags \ {Min(place)} /\ Pass

\* One of them is called with a flag set that to_ullong() has no bit for:
\* size() or find() of a flag that is set, * or ++ of the iterator.
CountTooFar == ~FitsLong(flags) /\ UNCHANGED flags
StepTooFar == ~FitsLong(place) /\ UNCHANGED flags
InsertTooFar(e) == HasPosition(e) /\ flags' = flags \union {IndexOf(e)} /\ ~FitsLong(flags')

FlagsNext ==
  \/ /\ ~ended /\ UNCHANGED ended
     /\ \/ FlagsChange
        \/ BeginFlags \/ StepFlags \/ EraseFlag
        \/ \E e \in ToSet(Flags) \union {Unnamed} : FindFlag(e) \/ InsertFlag(e)
  \/ /\ ~ended /\ ended' = TRUE /\ UNCHANGED <<place, started, passed>>
     /\ CountTooFar \/ StepTooFar \/ \E e \in ToSet(Flags) : InsertTooFar(e)
  \/ ended /\ UNCHANGED flagVars

-----------------------------------------------------------------------------
(* Properties.                                                             *)

\* A loop passes the flags that were set when it started, once and in order,
\* whatever its body inserts, erases or clears: a flag erased ahead of it is
\* still met, one inserted ahead of it is not.  From find() or insert() it
\* passes the flag asked for and the later ones.  The program is ended by none
\* of it unless a flag was set that to_ullong() has no bit for.
LoopPassesFlags ==
  /\ ended => ~FitsLong(flags \union place)
  /\ passed \union place = started
  /\ \A i \in passed, j \in place : i < j
=============================================================================
