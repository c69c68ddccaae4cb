------------------------------- MODULE SetProofs -------------------------------
(***************************************************************************)
(* Proofs about sets of indices and of flags and the loops over them, about*)
(* grouped values, about lists of resources, about powers of two and       *)
(* binomial coefficients, and about the texts of paths, durations and      *)
(* points in time.                                                         *)
(*                                                                         *)
(* What an operator does with every sequence is shown by the least length  *)
(* of one it does wrong: there is none, since a sequence of that length is *)
(* a shorter one with an element at its end (MinIs).                       *)
(***************************************************************************)
EXTENDS IndexBits, Groups, ResourceList, SimpleTexts, Numbers,
        FiniteSetTheorems, WellFoundedInduction, NaturalsInduction,
        SequenceTheorems, TLAPS

\* A set of numbers has a least one.
LEMMA MinIs ==
  ASSUME NEW S \in SUBSET Nat, S # {}
  PROVE  Min(S) \in S /\ \A y \in S : Min(S) <= y
<1> DEFINE R == OpToRel(<, Nat)
<1>1. \E x \in S : \A y \in S : ~(<<y, x>> \in R)
  BY NatLessThanWellFounded, WFMin
<1>2. PICK x \in S : \A y \in S : ~(<<y, x>> \in R)
  BY <1>1
<1>3. \A y \in S : x <= y
  <2> SUFFICES ASSUME NEW y \in S PROVE x <= y
    OBVIOUS
  <2>1. x \in Nat /\ y \in Nat /\ (y < x => <<y, x>> \in R)
    BY DEF OpToRel
  <2> HIDE DEF R
  <2>2. QED  BY <1>2, <2>1
<1>4. \E z \in S : \A y \in S : z <= y
  BY <1>3
<1>5. QED  BY <1>4 DEF Min

\* A set of numbers up to n has a greatest one.
LEMMA MaxIs ==
  ASSUME NEW n \in Nat, NEW S \in SUBSET (0 .. n), S # {}
  PROVE  Max(S) \in S /\ \A y \in S : Max(S) >= y
<1> DEFINE T == {n - x : x \in S}
<1>1. T \in SUBSET Nat /\ T # {}
  <2>1. \A x \in S : n - x \in Nat
    OBVIOUS
  <2>2. QED  BY <2>1
<1>2. Min(T) \in T /\ \A y \in T : Min(T) <= y
  BY <1>1, MinIs
<1>3. PICK x \in S : Min(T) = n - x
  BY <1>2
<1>4. \A y \in S : x >= y
  BY <1>2, <1>3
<1>5. \E z \in S : \A y \in S : z >= y
  BY <1>4
<1>6. QED  BY <1>5 DEF Max
-----------------------------------------------------------------------------
\* The inductive invariant: the iterator is at an element or at the end of what
\* it was given, and has met all before it.
BitsInv ==
  /\ bits \subseteq Indices
  /\ cursor \in [data : SUBSET Indices, v : 0 .. Count]
  /\ cursor.v \in cursor.data \union {Count}
  /\ met = {i \in cursor.data : i < cursor.v}

\* operator++ goes to the next element, or to the end.
LEMMA StepUpIs ==
  ASSUME NEW c \in [data : SUBSET Indices, v : 0 .. Count], c.v # Count
  PROVE  /\ StepUp(c) \in [data : SUBSET Indices, v : 0 .. Count]
         /\ StepUp(c).data = c.data /\ StepUp(c).v \in c.data \union {Count} /\ c.v < StepUp(c).v
         /\ \A i \in c.data : i < StepUp(c).v <=> i <= c.v
<1> DEFINE S == {v \in c.v + 1 .. Count : v = Count \/ v \in c.data}
           m == Min(S)
<1>1. Count \in Nat /\ c.v \in Nat /\ c.v < Count /\ c.data \subseteq Indices
  BY CountAssumption
<1>2. S \in SUBSET Nat /\ Count \in S
  BY <1>1
<1>3. m \in S /\ \A y \in S : m <= y
  BY <1>2, MinIs
<1>4. StepUp(c) = [c EXCEPT !.v = m]
  BY DEF StepUp
<1> HIDE DEF m
<1>5. m \in c.v + 1 .. Count /\ m \in c.data \union {Count}
  BY <1>3
<1>6. m \in 0 .. Count /\ c.v < m
  BY <1>1, <1>5
<1>7. StepUp(c) \in [data : SUBSET Indices, v : 0 .. Count] /\ StepUp(c).data = c.data /\ StepUp(c).v = m
  BY <1>4, <1>6
<1>8. ASSUME NEW i \in c.data PROVE i < m <=> i <= c.v
  BY <1>1, <1>3, <1>6, <1>8 DEF Indices
<1>9. QED  BY <1>5, <1>6, <1>7, <1>8

\* operator-- goes to the element before, if there is one.
LEMMA StepDownIs ==
  ASSUME NEW c \in [data : SUBSET Indices, v : 0 .. Count], NEW e \in c.data, e < c.v
  PROVE  /\ StepDown(c) \in [data : SUBSET Indices, v : 0 .. Count]
         /\ StepDown(c).data = c.data /\ StepDown(c).v \in c.data
         /\ StepDown(c).v < c.v
         /\ \A i \in c.data : i < c.v <=> i <= StepDown(c).v
<1> DEFINE S == {v \in 0 .. c.v - 1 : v = 0 \/ v \in c.data}
           m == Max(S)
<1>1. Count \in Nat /\ c.v \in Nat /\ c.v <= Count /\ c.data \subseteq Indices
  BY CountAssumption
<1>2. e \in Nat /\ e \in S
  BY <1>1 DEF Indices
<1>3. S \in SUBSET (0 .. Count)
  BY <1>1
<1>4. m \in S /\ \A y \in S : m >= y
  BY <1>1, <1>2, <1>3, MaxIs
<1>5. StepDown(c) = [c EXCEPT !.v = m]
  BY DEF StepDown
<1> HIDE DEF m
<1>6. m \in 0 .. Count /\ m < c.v
  BY <1>1, <1>4
<1>7. m \in c.data
  <2>1. CASE m = 0
    BY <1>2, <1>4, <2>1
  <2>2. CASE m # 0
    BY <1>4, <2>2
  <2>3. QED  BY <2>1, <2>2
<1>8. StepDown(c) \in [data : SUBSET Indices, v : 0 .. Count] /\ StepDown(c).data = c.data /\ StepDown(c).v = m
  BY <1>5, <1>6
<1>9. ASSUME NEW i \in c.data PROVE i < c.v <=> i <= m
  BY <1>1, <1>4, <1>6, <1>9 DEF Indices
<1>10. QED  BY <1>6, <1>7, <1>8, <1>9

\* An iterator made by begin().
LEMMA BeginIs ==
  ASSUME NEW b \in SUBSET Indices
  PROVE  /\ BitsBegin(b) \in [data : SUBSET Indices, v : 0 .. Count] /\ BitsBegin(b).data = b
         /\ BitsBegin(b).v \in b \union {Count} /\ \A i \in b : ~(i < BitsBegin(b).v)
<1> DEFINE first == [data |-> b, v |-> 0]
<1>1. first \in [data : SUBSET Indices, v : 0 .. Count] /\ first.data = b /\ first.v = 0 /\ Count # 0
  BY CountAssumption
<1>2. CASE HasIndex(b, 0)
  BY <1>1, <1>2 DEF BitsBegin, HasIndex, Indices
<1>3. CASE ~HasIndex(b, 0)
  <2>1. BitsBegin(b) = StepUp(first)
    BY <1>3 DEF BitsBegin
  <2> HIDE DEF first
  <2>2. /\ StepUp(first) \in [data : SUBSET Indices, v : 0 .. Count]
        /\ StepUp(first).data = b /\ StepUp(first).v \in b \union {Count}
        /\ \A i \in b : i < StepUp(first).v <=> i <= 0
    BY <1>1, StepUpIs
  <2>3. \A i \in b : ~(i <= 0)
    BY <1>3 DEF HasIndex, Indices
  <2>4. QED  BY <2>1, <2>2, <2>3
<1>4. QED  BY <1>2, <1>3

\* A shifted 1 less 1 has no stray bits: where it may have any, all are indices.
LEMMA LowestAre == \A n \in 0 .. Count : Lowest(n) \subseteq SUBSET Indices
<1> SUFFICES ASSUME NEW n \in 0 .. Count PROVE Lowest(n) \subseteq SUBSET Indices
  OBVIOUS
<1>1. Count \in Nat /\ Width \in Nat /\ Count <= Width /\ n \in Nat /\ n <= Count
  BY CountAssumption
<1>2. 0 .. n - 1 \subseteq Indices
  BY <1>1 DEF Indices
<1>3. ~(n < Width) => Width = Count
  BY <1>1
<1>4. QED  BY <1>2, <1>3 DEF Lowest, Indices

\* Every step keeps the invariant.
LEMMA BitsStep == BitsInv /\ [BitsNext]_bitVars => BitsInv'
<1> SUFFICES ASSUME BitsInv, [BitsNext]_bitVars PROVE BitsInv'
  OBVIOUS
<1>1. CASE BitsChange
  <2>1. UNCHANGED <<cursor, met>>
    BY <1>1 DEF BitsChange
  <2>2. bits' \subseteq Indices
    <3>1. ASSUME NEW s \in Given, SetBits(s) \/ ClearBits(s) \/ ToggleBits(s) \/ Meet(s)
          PROVE  bits' \subseteq Indices
      <4>1. s \subseteq Indices
        BY CountAssumption DEF Indices
      <4>2. QED  BY <3>1, <4>1 DEF BitsInv, SetBits, ClearBits, ToggleBits, Meet, SymmetricDifference
    <3>2. ASSUME NEW n \in 0 .. Count, FirstBits(n)
          PROVE  bits' \subseteq Indices
      BY <3>2, LowestAre DEF FirstBits
    <3>3. CASE Invert
      <4>1. PICK all \in SUBSET Indices : bits' = SymmetricDifference(bits, all)
        <5>1. Count \in 0 .. Count
          BY CountAssumption
        <5>2. QED  BY <3>3, <5>1, LowestAre DEF Invert, Complement, AllIndices
      <4>2. QED  BY <4>1 DEF SymmetricDifference, BitsInv
    <3>4. QED  BY <1>1, <3>1, <3>2, <3>3 DEF BitsChange
  <2>3. QED  BY <2>1, <2>2 DEF BitsInv
<1>2. CASE EnterLoop
  <2>1. bits' = bits /\ bits \subseteq Indices
    BY <1>2 DEF EnterLoop, BitsInv
  <2>2. CASE cursor' = BitsBegin(bits) /\ met' = {}
    BY <2>1, <2>2, BeginIs DEF BitsInv
  <2>3. CASE cursor' = BitsEnd(bits) /\ met' = bits
    <3>1. Count \in Nat /\ \A i \in bits : i < Count
      BY <2>1, CountAssumption DEF Indices
    <3>2. cursor' = [data |-> bits, v |-> Count] /\ Count \in 0 .. Count
      BY <2>3, <3>1 DEF BitsEnd
    <3>3. QED  BY <2>1, <2>3, <3>1, <3>2 DEF BitsInv
  <2>4. QED  BY <1>2, <2>2, <2>3 DEF EnterLoop
<1>3. CASE BitsForward
  <2>1. /\ cursor.v # Count /\ cursor' = StepUp(cursor) /\ met' = met \union {cursor.v} /\ bits' = bits
    BY <1>3 DEF BitsForward
  <2>2. /\ cursor' \in [data : SUBSET Indices, v : 0 .. Count]
        /\ cursor'.data = cursor.data /\ cursor'.v \in cursor.data \union {Count} /\ cursor.v < cursor'.v
        /\ \A i \in cursor.data : i < cursor'.v <=> i <= cursor.v
    BY <2>1, StepUpIs DEF BitsInv
  <2>3. cursor.v \in cursor.data /\ \A i \in cursor.data : i <= cursor.v <=> i < cursor.v \/ i = cursor.v
    BY <2>1 DEF BitsInv, Indices
  <2>4. met' = {i \in cursor'.data : i < cursor'.v}
    BY <2>1, <2>2, <2>3 DEF BitsInv
  <2>5. QED  BY <2>1, <2>2, <2>4 DEF BitsInv
<1>4. CASE BitsBack
  <2>1. cursor' = StepDown(cursor) /\ met' = met \ {cursor'.v} /\ bits' = bits
    BY <1>4 DEF BitsBack
  <2>2. /\ cursor' \in [data : SUBSET Indices, v : 0 .. Count]
        /\ cursor'.data = cursor.data /\ cursor'.v \in cursor.data
        /\ \A i \in cursor.data : i < cursor.v <=> i <= cursor'.v
    BY <1>4, <2>1, StepDownIs DEF BitsInv, BitsBack
  <2>3. \A i \in cursor.data : i <= cursor'.v <=> i < cursor'.v \/ i = cursor'.v
    BY <2>2 DEF BitsInv, Indices
  <2>4. met' = {i \in cursor'.data : i < cursor'.v}
    <3>1. ~(cursor'.v < cursor'.v)
      BY <2>2
    <3>2. QED  BY <2>1, <2>2, <2>3, <3>1 DEF BitsInv
  <2>5. QED  BY <2>1, <2>2, <2>4 DEF BitsInv
<1>5. CASE UNCHANGED bitVars
  BY <1>5 DEF bitVars, BitsInv
<1>6. QED  BY <1>1, <1>2, <1>3, <1>4, <1>5 DEF BitsNext

\* A loop over an IndexSet meets its elements in order and none other, forwards
\* and backwards, for every number of indices up to all the bits of the Storage,
\* whatever all() comes to where its shift is undefined.
THEOREM LoopMeets == BitsInit /\ [][BitsNext]_bitVars => []LoopMeetsElements
<1>1. BitsInit => BitsInv
  BY CountAssumption DEF BitsInit, BitsInv, BitsEnd, Indices
<1>2. BitsInv => LoopMeetsElements
  BY DEF BitsInv, LoopMeetsElements, NoStrayBits, HasIndex
<1>3. QED  BY <1>1, <1>2, BitsStep, PTL
-----------------------------------------------------------------------------
\* The inductive invariant.
FlagsInv ==
  /\ flags \subseteq Positions /\ place \subseteq Positions
  /\ LoopPassesFlags

\* Flags are counted from 1.
LEMMA PositionsAre == Positions = 1 .. Len(Flags) /\ Len(Flags) \in Nat /\ Positions \subseteq Nat
BY FlagsAssumption DEF Positions

\* A flag of the enumeration is at its index.
LEMMA IndexOfIs ==
  ASSUME NEW e, HasPosition(e)
  PROVE  IndexOf(e) \in Positions /\ Flags[IndexOf(e)] = e
<1>1. \E i \in Positions : Flags[i] = e
  BY DEF HasPosition, Positions, ToSet
<1>2. QED  BY <1>1 DEF IndexOf

\* The iterator of find() and insert() stands for the flag and the later ones.
LEMMA FromIsLater ==
  ASSUME NEW b \in SUBSET Positions, NEW e, HasPosition(e)
  PROVE  From(b, IndexOf(e)) = Later(b, e)
<1>1. IndexOf(e) \in Positions /\ Flags[IndexOf(e)] = e
  BY IndexOfIs
<1>2. \A k \in Positions : Flags[k] = e => k = IndexOf(e)
  BY <1>1, FlagsAssumption DEF IsInjective, Positions
<1>3. ASSUME NEW j \in b PROVE j >= IndexOf(e) <=> \E k \in 1 .. j : Flags[k] = e
  BY <1>1, <1>2, <1>3, PositionsAre
<1>4. QED  BY <1>3 DEF From, Later

\* The flags of a list up to the first unknown one.
LEMMA DoneIs == \A list \in Lists : DoneOf(list) \subseteq Positions
<1> SUFFICES ASSUME NEW list \in Lists, NEW j \in DOMAIN list, \A k \in 1 .. j : HasPosition(list[k])
             PROVE  IndexOf(list[j]) \in Positions
  BY DEF DoneOf
<1>1. j \in 1 .. j
  BY DEF Lists
<1>2. QED  BY <1>1, IndexOfIs

\* operator++ of the loop passes the first flag that is left.
LEMMA PassKeeps ==
  ASSUME FlagsInv, place # {}, Pass
  PROVE  /\ passed' \union place' = started'
         /\ \A i \in passed', j \in place' : i < j
         /\ place' \subseteq Positions
<1>1. Min(place) \in place /\ \A j \in place : Min(place) <= j
  BY MinIs, PositionsAre DEF FlagsInv
<1>2. place' = place \ {Min(place)} /\ passed' = passed \union {Min(place)} /\ started' = started
  BY DEF Pass, After
<1>3. \A j \in place' : Min(place) < j
  <2> SUFFICES ASSUME NEW j \in place, j # Min(place) PROVE Min(place) < j
    BY <1>2
  <2>1. Min(place) <= j /\ Min(place) \in Nat /\ j \in Nat
    BY <1>1, PositionsAre DEF FlagsInv
  <2>2. QED  BY <2>1
<1>4. QED  BY <1>1, <1>2, <1>3 DEF FlagsInv, LoopPassesFlags

\* Every step keeps the invariant.
LEMMA FlagsStep == FlagsInv /\ [FlagsNext]_flagVars => FlagsInv'
<1> SUFFICES ASSUME FlagsInv, [FlagsNext]_flagVars PROVE FlagsInv'
  OBVIOUS
<1> DEFINE goesOn == ~ended /\ ended' = ended
<1>1. CASE goesOn /\ FlagsChange
  <2>1. UNCHANGED <<place, started, passed>>
    BY <1>1 DEF FlagsChange
  <2>2. flags' \subseteq Positions
    BY <1>1, DoneIs DEF FlagsChange, SetFlags, ClearFlags, ClearAll, FullFlags, Flip, Combine, Combinations, FlagsInv
  <2>3. QED  BY <1>1, <2>1, <2>2 DEF FlagsInv, LoopPassesFlags
<1>2. CASE goesOn /\ BeginFlags
  BY <1>2 DEF BeginFlags, StartLoop, FlagsInv, LoopPassesFlags
<1>3. CASE goesOn /\ StepFlags
  BY <1>3, PassKeeps DEF StepFlags, FlagsInv, LoopPassesFlags
<1>4. CASE goesOn /\ EraseFlag
  BY <1>4, PassKeeps DEF EraseFlag, FlagsInv, LoopPassesFlags
<1>5. ASSUME NEW e, goesOn /\ FindFlag(e) PROVE FlagsInv'
  <2>1. flags' = flags
    BY <1>5 DEF FindFlag
  <2>2. CASE StartLoop({}, {})
    BY <1>5, <2>1, <2>2 DEF StartLoop, FlagsInv, LoopPassesFlags
  <2>3. CASE StartLoop(From(flags, IndexOf(e)), Later(flags, e))
    <3>1. From(flags, IndexOf(e)) = Later(flags, e) /\ Later(flags, e) \subseteq Positions
      BY <1>5, FromIsLater DEF FindFlag, FlagsInv, Later
    <3>2. QED  BY <1>5, <2>1, <2>3, <3>1 DEF StartLoop, FlagsInv, LoopPassesFlags
  <2>4. QED  BY <1>5, <2>2, <2>3 DEF FindFlag
<1>6. ASSUME NEW e, goesOn /\ InsertFlag(e) PROVE FlagsInv'
  <2>1. HasPosition(e) /\ flags' = flags \union {IndexOf(e)} /\ StartLoop(From(flags', IndexOf(e)), Later(flags', e))
    BY <1>6 DEF InsertFlag
  <2>2. flags' \in SUBSET Positions
    BY <2>1, IndexOfIs DEF FlagsInv
  <2>3. From(flags', IndexOf(e)) = Later(flags', e) /\ Later(flags', e) \subseteq Positions
    BY <2>1, <2>2, FromIsLater DEF Later
  <2>4. QED  BY <1>6, <2>1, <2>2, <2>3 DEF StartLoop, FlagsInv, LoopPassesFlags
<1>7. ASSUME UNCHANGED <<place, started, passed>>,
             CountTooFar \/ StepTooFar \/ \E e \in ToSet(Flags) : InsertTooFar(e)
      PROVE  FlagsInv'
  <2>1. flags' \subseteq Positions
    BY <1>7, IndexOfIs DEF CountTooFar, StepTooFar, InsertTooFar, FlagsInv
  <2>2. ~FitsLong(flags' \union place')
    BY <1>7 DEF CountTooFar, StepTooFar, InsertTooFar, FitsLong
  <2>3. QED  BY <1>7, <2>1, <2>2 DEF FlagsInv, LoopPassesFlags
<1>8. CASE UNCHANGED flagVars
  BY <1>8 DEF flagVars, FlagsInv, LoopPassesFlags
<1> HIDE DEF goesOn
<1>9. CASE FlagsNext
  <2>1. CASE /\ ~ended /\ UNCHANGED ended
             /\ \/ FlagsChange \/ BeginFlags \/ StepFlags \/ EraseFlag
                \/ \E e \in ToSet(Flags) \union {Unnamed} : FindFlag(e) \/ InsertFlag(e)
    <3>1. goesOn
      BY <2>1 DEF goesOn
    <3>2. QED  BY <1>1, <1>2, <1>3, <1>4, <1>5, <1>6, <2>1, <3>1
  <2>2. QED  BY <1>7, <1>8, <1>9, <2>1 DEF FlagsNext
<1>10. QED  BY <1>8, <1>9

\* A loop over a set of flags passes the flags it began with in order, each once,
\* whatever becomes of the set meanwhile, and ends the program only where a flag
\* beyond the 64th was set, for every enumeration.
THEOREM LoopPasses == FlagsInit /\ [][FlagsNext]_flagVars => []LoopPassesFlags
<1>1. FlagsInit => FlagsInv
  BY DEF FlagsInit, FlagsInv, LoopPassesFlags
<1>2. FlagsInv => LoopPassesFlags
  BY DEF FlagsInv
<1>3. QED  BY <1>1, <1>2, FlagsStep, PTL
-----------------------------------------------------------------------------
\* Resource r is entry i of the list of o.
Holds(o, i, r) == i \in 1 .. Len(lists[o]) /\ lists[o][i] = r

\* Every variable has its type.
ResourceTypes ==
  /\ lists \in [Owners -> Seq(Resources \union {Gone})]
  /\ releasing \in [Owners -> Nat]
  /\ freed \in Seq(Resources)

\* clear() has emptied what is behind its iterator.
EmptiedBehind(o) ==
  /\ releasing[o] <= Len(lists[o])
  /\ releasing[o] # 0 => \A i \in releasing[o] + 1 .. Len(lists[o]) : lists[o][i] = Gone

\* No resource is in two places.
OnePlace ==
  \A o, p \in Owners, r \in Resources : \A i, j \in Nat : Holds(o, i, r) /\ Holds(p, j, r) => o = p /\ i = j

\* What a resource may use stands before it in its list.
UsesStandBefore ==
  \A o \in Owners, r \in Resources : \A i \in Nat : Holds(o, i, r) =>
    r \in DOMAIN uses /\ \A q \in uses[r] : q \in Resources /\ \E j \in 1 .. i - 1 : Holds(o, j, q)

\* The inductive invariant.
ResourceInv ==
  /\ ResourceTypes
  /\ \A o \in Owners : EmptiedBehind(o)
  /\ OnePlace /\ UsesStandBefore /\ ReleasedOnce

\* What is alive is what lists hold.
AliveAreHeld ==
  \A r : r \in Alive <=> r \in Resources /\ \E o \in Owners : \E i \in Nat : Holds(o, i, r)

\* It follows from the types.
LEMMA AliveIs == ResourceTypes => AliveAreHeld
<1> SUFFICES ASSUME ResourceTypes PROVE AliveAreHeld
  OBVIOUS
<1>1. ASSUME NEW o \in Owners
      PROVE  /\ DOMAIN lists[o] = 1 .. Len(lists[o]) /\ Len(lists[o]) \in Nat
             /\ \A i \in 1 .. Len(lists[o]) : lists[o][i] \in Resources \union {Gone}
  <2>1. lists[o] \in Seq(Resources \union {Gone})
    BY DEF ResourceTypes
  <2>2. QED  BY <2>1
<1>2. \A r : \A o \in Owners : r \in ToSet(lists[o]) <=> \E i \in Nat : Holds(o, i, r)
  BY <1>1 DEF ToSet, Holds
<1>3. \A r : \A o \in Owners : r \in ToSet(lists[o]) => r \in Resources \union {Gone}
  BY <1>1 DEF ToSet
<1>4. \A r : r \in Alive <=> r # Gone /\ \E o \in Owners : r \in ToSet(lists[o])
  BY DEF Alive
<1>5. QED  BY <1>2, <1>3, <1>4, ResourcesAssumption DEF AliveAreHeld

\* The invariant implies what is promised.
LEMMA ResourceInvSuffices == ResourceInv => ReleasedInOrder
<1> SUFFICES ASSUME ResourceInv, NEW r \in Alive, NEW q \in uses[r] PROVE q \in Alive
  BY DEF ReleasedInOrder, OlderOutlivesNewer, ResourceInv
<1>1. PICK o \in Owners, i \in Nat : r \in Resources /\ Holds(o, i, r)
  BY AliveIs DEF ResourceInv, AliveAreHeld
<1>2. q \in Resources /\ \E j \in 1 .. i - 1 : Holds(o, j, q)
  BY <1>1 DEF ResourceInv, UsesStandBefore
<1>3. \A j \in 1 .. i - 1 : j \in Nat
  OBVIOUS
<1>4. QED  BY <1>2, <1>3, AliveIs DEF ResourceInv, AliveAreHeld

\* A sequence gets a new last value.
LEMMA ReleasedMore ==
  ASSUME NEW S, NEW s \in Seq(S), NEW x \in S, IsInjective(s), x \notin ToSet(s)
  PROVE  /\ Append(s, x) \in Seq(S) /\ IsInjective(Append(s, x))
         /\ ToSet(Append(s, x)) = ToSet(s) \union {x}
<1>1. /\ Len(s) \in Nat /\ Append(s, x) \in Seq(S) /\ DOMAIN s = 1 .. Len(s)
      /\ DOMAIN Append(s, x) = 1 .. Len(s) + 1
      /\ \A i \in 1 .. Len(s) : Append(s, x)[i] = s[i]
      /\ Append(s, x)[Len(s) + 1] = x
  OBVIOUS
<1>2. \A i \in 1 .. Len(s) + 1 : i \in 1 .. Len(s) \/ i = Len(s) + 1
  BY <1>1
<1>3. \A i \in 1 .. Len(s) : i \in 1 .. Len(s) + 1 /\ s[i] # x
  BY <1>1 DEF ToSet
<1>4. Len(s) + 1 \in 1 .. Len(s) + 1
  BY <1>1
<1>5. IsInjective(Append(s, x))
  BY <1>1, <1>2, <1>3 DEF IsInjective
<1>6. ToSet(Append(s, x)) = ToSet(s) \union {x}
  BY <1>1, <1>2, <1>3, <1>4 DEF ToSet
<1>7. QED  BY <1>1, <1>5, <1>6

\* It holds at the start.
LEMMA ResourceInitInv == ResourcesInit => ResourceInv
<1> SUFFICES ASSUME ResourcesInit PROVE ResourceInv
  OBVIOUS
<1>1. /\ lists = [o \in Owners |-> <<>>] /\ releasing = [o \in Owners |-> 0]
      /\ freed = <<>> /\ DOMAIN uses = {}
  BY DEF ResourcesInit
<1>2. ResourceTypes
  BY <1>1 DEF ResourceTypes
<1>3. \A o \in Owners : Len(lists[o]) = 0
  BY <1>1
<1>4. \A o \in Owners : \A i, r : ~Holds(o, i, r)
  BY <1>3 DEF Holds
<1>5. Alive = {} /\ ToSet(freed) = {} /\ IsInjective(freed)
  BY <1>1, <1>2, <1>4, AliveIs DEF ToSet, IsInjective, AliveAreHeld
<1>6. QED
  BY <1>1, <1>2, <1>3, <1>4, <1>5 DEF ResourceInv, EmptiedBehind, OnePlace, UsesStandBefore, ReleasedOnce

\* A new resource goes to the back of its list.
LEMMA MakeKeeps ==
  ASSUME ResourceInv, NEW o \in Owners, NEW r \in Resources, MakeResource(o, r)
  PROVE  ResourceInv'
<1> DEFINE n == Len(lists[o])
<1>1. /\ releasing[o] = 0 /\ r \notin DOMAIN uses /\ UNCHANGED <<releasing, freed>>
      /\ lists' = [lists EXCEPT ![o] = Append(lists[o], r)]
      /\ uses' = [q \in DOMAIN uses \union {r} |-> IF q = r THEN ToSet(lists[o]) \ {Gone} ELSE uses[q]]
  BY DEF MakeResource, Quiet
<1>2. ResourceTypes /\ lists[o] \in Seq(Resources \union {Gone})
  BY DEF ResourceInv, ResourceTypes
<1>3. ResourceTypes'
  BY <1>1, <1>2 DEF ResourceTypes
<1>4. /\ n \in Nat /\ Len(lists'[o]) = n + 1 /\ lists'[o][n + 1] = r
      /\ \A i \in 1 .. n : lists'[o][i] = lists[o][i]
      /\ \A p \in Owners \ {o} : lists'[p] = lists[p]
  BY <1>1, <1>2 DEF ResourceTypes
<1> HIDE DEF n
<1>5. \A p \in Owners : \A q : \A i \in Nat : Holds(p, i, q)' <=> Holds(p, i, q) \/ (p = o /\ i = n + 1 /\ q = r)
  <2> SUFFICES ASSUME NEW p \in Owners, NEW q, NEW i \in Nat
               PROVE  Holds(p, i, q)' <=> Holds(p, i, q) \/ (p = o /\ i = n + 1 /\ q = r)
    OBVIOUS
  <2>1. CASE p # o
    BY <1>4, <2>1 DEF Holds
  <2>2. CASE p = o /\ i = n + 1
    BY <1>4, <2>2 DEF Holds, n
  <2>3. CASE p = o /\ i # n + 1
    <3>1. i \in 1 .. n + 1 <=> i \in 1 .. n
      BY <1>4, <2>3
    <3>2. QED  BY <1>4, <2>3, <3>1 DEF Holds, n
  <2>4. QED  BY <2>1, <2>2, <2>3
<1>6. \A p \in Owners : \A i \in Nat : ~Holds(p, i, r)
  BY <1>1 DEF ResourceInv, UsesStandBefore
<1>7. \A p \in Owners : EmptiedBehind(p)'
  <2>1. EmptiedBehind(o)'
    BY <1>1, <1>4 DEF EmptiedBehind
  <2>2. \A p \in Owners \ {o} : EmptiedBehind(p)'
    BY <1>1, <1>4 DEF ResourceInv, EmptiedBehind
  <2>3. QED  BY <2>1, <2>2
<1>8. OnePlace'
  BY <1>5, <1>6 DEF ResourceInv, OnePlace
<1>9. UsesStandBefore'
  <2> SUFFICES ASSUME NEW p \in Owners, NEW x \in Resources, NEW i \in Nat, Holds(p, i, x)'
               PROVE  /\ x \in DOMAIN uses'
                      /\ \A q \in uses'[x] : q \in Resources /\ \E j \in 1 .. i - 1 : Holds(p, j, q)'
    BY DEF UsesStandBefore
  <2>1. CASE Holds(p, i, x)
    <3>1. x # r
      BY <1>6, <2>1
    <3>2. x \in DOMAIN uses /\ \A q \in uses[x] : q \in Resources /\ \E j \in 1 .. i - 1 : Holds(p, j, q)
      BY <2>1 DEF ResourceInv, UsesStandBefore
    <3>3. uses'[x] = uses[x] /\ x \in DOMAIN uses'
      BY <1>1, <3>1, <3>2
    <3>4. \A j \in 1 .. i - 1 : j \in Nat
      OBVIOUS
    <3>5. QED  BY <1>5, <3>2, <3>3, <3>4
  <2>2. CASE p = o /\ i = n + 1 /\ x = r
    <3>1. r \in DOMAIN uses' /\ uses'[r] = ToSet(lists[o]) \ {Gone}
      BY <1>1
    <3>2. ASSUME NEW q \in uses'[r]
          PROVE  q \in Resources /\ \E j \in 1 .. n : Holds(o, j, q)
      <4>1. q \in ToSet(lists[o]) /\ q # Gone
        BY <3>1, <3>2
      <4>2. PICK j \in 1 .. n : lists[o][j] = q
        BY <1>2, <4>1 DEF ToSet, n
      <4>3. lists[o][j] \in Resources \union {Gone}
        BY <1>2, <4>2 DEF n
      <4>4. QED  BY <4>1, <4>2, <4>3 DEF Holds, n
    <3>3. \A j \in 1 .. n : j \in Nat /\ j \in 1 .. i - 1
      BY <1>4, <2>2
    <3>4. QED  BY <1>5, <2>2, <3>1, <3>2, <3>3
  <2>3. QED  BY <1>5, <2>1, <2>2
<1>10. Alive' = Alive \union {r}
  <2>1. \A q : q \in Alive <=> q \in Resources /\ \E p \in Owners : \E i \in Nat : Holds(p, i, q)
    BY <1>2, AliveIs DEF AliveAreHeld
  <2>2. \A q : q \in Alive' <=> q \in Resources /\ \E p \in Owners : \E i \in Nat : Holds(p, i, q)'
    <3>1. AliveAreHeld'
      BY <1>3, AliveIs, PTL
    <3>2. QED  BY <3>1 DEF AliveAreHeld
  <2>3. n + 1 \in Nat
    BY <1>4
  <2>4. QED  BY <1>5, <2>1, <2>2, <2>3
<1>11. ReleasedOnce'
  BY <1>1, <1>10 DEF ResourceInv, ReleasedOnce
<1>12. QED  BY <1>3, <1>7, <1>8, <1>9, <1>11 DEF ResourceInv

\* clear() begins at the back.
LEMMA BeginClearKeeps ==
  ASSUME ResourceInv, NEW o \in Owners, BeginClear(o)
  PROVE  ResourceInv'
<1>1. releasing' = [releasing EXCEPT ![o] = Len(lists[o])] /\ UNCHANGED <<lists, uses, freed>>
  BY DEF BeginClear
<1>2. ResourceTypes /\ Len(lists[o]) \in Nat
  BY DEF ResourceInv, ResourceTypes
<1>3. ResourceTypes'
  BY <1>1, <1>2 DEF ResourceTypes
<1>4. \A p \in Owners : EmptiedBehind(p)'
  <2>1. EmptiedBehind(o)'
    BY <1>1, <1>2 DEF ResourceTypes, EmptiedBehind
  <2>2. \A p \in Owners \ {o} : EmptiedBehind(p)'
    BY <1>1, <1>2 DEF ResourceTypes, ResourceInv, EmptiedBehind
  <2>3. QED  BY <2>1, <2>2
<1>5. QED
  BY <1>1, <1>3, <1>4 DEF ResourceInv, OnePlace, UsesStandBefore, Holds, ReleasedOnce, Alive

\* What goes is the last that is there: nothing that uses it is left.
LEMMA ResetKeeps ==
  ASSUME ResourceInv, NEW o \in Owners, ResetNext(o)
  PROVE  ResourceInv'
<1> DEFINE at == releasing[o]
           n == Len(lists[o])
           x == lists[o][at]
<1>1. /\ at # 0 /\ lists' = [lists EXCEPT ![o] = [lists[o] EXCEPT ![at] = Gone]]
      /\ freed' = IF x = Gone THEN freed ELSE Append(freed, x)
      /\ releasing' = [releasing EXCEPT ![o] = at - 1] /\ uses' = uses
  BY DEF ResetNext, Quiet
<1>2. /\ ResourceTypes /\ lists[o] \in Seq(Resources \union {Gone}) /\ at \in Nat /\ n \in Nat /\ at <= n
      /\ \A i \in at + 1 .. n : lists[o][i] = Gone
  BY <1>1 DEF ResourceInv, ResourceTypes, EmptiedBehind
<1>3. at \in 1 .. n /\ at - 1 \in Nat
  BY <1>1, <1>2
<1>4. /\ [lists[o] EXCEPT ![at] = Gone] \in Seq(Resources \union {Gone}) /\ Len([lists[o] EXCEPT ![at] = Gone]) = n
      /\ \A j \in 1 .. n : [lists[o] EXCEPT ![at] = Gone][j] = IF j = at THEN Gone ELSE lists[o][j]
  BY <1>2, <1>3, ExceptSeq
<1>5. /\ lists' \in [Owners -> Seq(Resources \union {Gone})] /\ Len(lists'[o]) = n
      /\ \A j \in 1 .. n : lists'[o][j] = IF j = at THEN Gone ELSE lists[o][j]
      /\ \A p \in Owners \ {o} : lists'[p] = lists[p]
  BY <1>1, <1>2, <1>4 DEF ResourceTypes
<1>6. releasing' \in [Owners -> Nat] /\ releasing'[o] = at - 1 /\ \A p \in Owners \ {o} : releasing'[p] = releasing[p]
  BY <1>1, <1>2, <1>3 DEF ResourceTypes
<1>7. x \in Resources \union {Gone}
  BY <1>2, <1>3
<1>8. x # Gone => x \in Alive
  BY <1>2, <1>3, <1>7, AliveIs DEF AliveAreHeld, Holds
<1>9. x # Gone => /\ freed' \in Seq(Resources) /\ IsInjective(freed')
                  /\ ToSet(freed') = ToSet(freed) \union {x}
  <2> SUFFICES ASSUME x # Gone
               PROVE  /\ freed' \in Seq(Resources) /\ IsInjective(freed')
                      /\ ToSet(freed') = ToSet(freed) \union {x}
    OBVIOUS
  <2>1. x \in Resources /\ x \notin ToSet(freed) /\ freed \in Seq(Resources) /\ IsInjective(freed)
    BY <1>7, <1>8 DEF ResourceInv, ResourceTypes, ReleasedOnce
  <2> HIDE DEF x
  <2>2. QED  BY <1>1, <2>1, ReleasedMore
<1>10. ResourceTypes'
  <2>1. freed' \in Seq(Resources)
    BY <1>1, <1>2, <1>9 DEF ResourceTypes
  <2>2. QED  BY <1>5, <1>6, <2>1 DEF ResourceTypes
<1>11. \A p \in Owners, q \in Resources : \A i \in Nat : Holds(p, i, q)' <=> Holds(p, i, q) /\ ~(p = o /\ i = at)
  <2> SUFFICES ASSUME NEW p \in Owners, NEW q \in Resources, NEW i \in Nat
               PROVE  Holds(p, i, q)' <=> Holds(p, i, q) /\ ~(p = o /\ i = at)
    OBVIOUS
  <2>1. CASE p # o
    BY <1>5, <2>1 DEF Holds
  <2>2. CASE p = o
    BY <1>5, <2>2, ResourcesAssumption DEF Holds
  <2>3. QED  BY <2>1, <2>2
<1>12. \A q \in Resources : \A i \in Nat : Holds(o, i, q) => i <= at
  <2> SUFFICES ASSUME NEW q \in Resources, NEW i \in Nat, Holds(o, i, q), ~(i <= at) PROVE FALSE
    OBVIOUS
  <2>1. i \in at + 1 .. n
    BY <1>2 DEF Holds
  <2>2. QED  BY <1>2, <2>1, ResourcesAssumption DEF Holds
<1> HIDE DEF at, n, x
<1>13. \A p \in Owners : EmptiedBehind(p)'
  <2>1. EmptiedBehind(o)'
    <3>1. at - 1 <= n /\ \A i \in (at - 1) + 1 .. n : i \in 1 .. n /\ (i = at \/ i \in at + 1 .. n)
      BY <1>2, <1>3
    <3>2. QED  BY <1>2, <1>5, <1>6, <3>1 DEF EmptiedBehind
  <2>2. \A p \in Owners \ {o} : EmptiedBehind(p)'
    BY <1>5, <1>6 DEF ResourceInv, EmptiedBehind
  <2>3. QED  BY <2>1, <2>2
<1>14. OnePlace'
  BY <1>11 DEF ResourceInv, OnePlace
<1>15. UsesStandBefore'
  <2> SUFFICES ASSUME NEW p \in Owners, NEW y \in Resources, NEW i \in Nat, Holds(p, i, y)', NEW q \in uses[y]
               PROVE  y \in DOMAIN uses /\ q \in Resources /\ \E j \in 1 .. i - 1 : Holds(p, j, q)'
    <3>1. ASSUME NEW p \in Owners, NEW y \in Resources, NEW i \in Nat, Holds(p, i, y)'
          PROVE  y \in DOMAIN uses
      BY <1>11, <3>1 DEF ResourceInv, UsesStandBefore
    <3>2. QED  BY <1>1, <3>1 DEF UsesStandBefore
  <2>1. Holds(p, i, y) /\ ~(p = o /\ i = at)
    BY <1>11
  <2>2. PICK j \in 1 .. i - 1 : Holds(p, j, q)
    BY <2>1 DEF ResourceInv, UsesStandBefore
  <2>3. y \in DOMAIN uses /\ q \in Resources
    BY <2>1 DEF ResourceInv, UsesStandBefore
  <2>4. j \in Nat /\ j < i
    BY <2>2
  <2>5. ~(p = o /\ j = at)
    <3>1. p = o => i <= at
      BY <1>12, <2>1
    <3>2. QED  BY <1>2, <2>4, <3>1
  <2>6. QED  BY <1>11, <2>2, <2>3, <2>4, <2>5
<1>16. Alive' = Alive \ {x}
  <2>1. \A q : q \in Alive <=> q \in Resources /\ \E p \in Owners : \E i \in Nat : Holds(p, i, q)
    BY <1>2, AliveIs DEF AliveAreHeld
  <2>2. \A q : q \in Alive' <=> q \in Resources /\ \E p \in Owners : \E i \in Nat : Holds(p, i, q)'
    <3>1. AliveAreHeld'
      BY <1>10, AliveIs, PTL
    <3>2. QED  BY <3>1 DEF AliveAreHeld
  <2>3. Holds(o, at, x) /\ at \in Nat
    BY <1>2, <1>3 DEF Holds, x, n
  <2>4. \A q \in Resources : \A p \in Owners : \A i \in Nat :
          Holds(p, i, q) => (q = x <=> p = o /\ i = at)
    <3> SUFFICES ASSUME NEW q \in Resources, NEW p \in Owners, NEW i \in Nat, Holds(p, i, q)
                 PROVE  q = x <=> p = o /\ i = at
      OBVIOUS
    <3>1. q = x => p = o /\ i = at
      BY <2>3 DEF ResourceInv, OnePlace
    <3>2. p = o /\ i = at => q = x
      BY DEF Holds, x
    <3>3. QED  BY <3>1, <3>2
  <2>5. QED  BY <1>11, <2>1, <2>2, <2>4
<1>17. ReleasedOnce'
  <2>1. CASE x = Gone
    <3>1. Alive' = Alive /\ freed' = freed
      BY <1>1, <1>16, <2>1 DEF Alive
    <3>2. QED  BY <1>1, <3>1 DEF ResourceInv, ReleasedOnce
  <2>2. CASE x # Gone
    BY <1>1, <1>8, <1>9, <1>16, <2>2 DEF ResourceInv, ReleasedOnce
  <2>3. QED  BY <2>1, <2>2
<1>18. QED  BY <1>10, <1>13, <1>14, <1>15, <1>17 DEF ResourceInv

\* A list moves as it is, onto one that holds nothing.
LEMMA MoveListKeeps ==
  ASSUME ~AssignOverHeld, ResourceInv, NEW o \in Owners, NEW p \in Owners, MoveList(o, p)
  PROVE  ResourceInv'
<1>1. /\ o # p /\ releasing[o] = 0 /\ releasing[p] = 0 /\ ToSet(lists[p]) \subseteq {Gone}
      /\ lists' = [lists EXCEPT ![o] = <<>>, ![p] = lists[o]]
      /\ UNCHANGED <<releasing, uses, freed>>
  BY DEF MoveList, Quiet
<1>2. ResourceTypes /\ lists[o] \in Seq(Resources \union {Gone}) /\ lists[p] \in Seq(Resources \union {Gone})
  BY DEF ResourceInv, ResourceTypes
<1>3. /\ ResourceTypes' /\ lists'[o] = <<>> /\ lists'[p] = lists[o]
      /\ \A u \in Owners \ {o, p} : lists'[u] = lists[u]
  <2>1. <<>> \in Seq(Resources \union {Gone})
    OBVIOUS
  <2>2. lists' \in [Owners -> Seq(Resources \union {Gone})]
    BY <1>1, <1>2, <2>1 DEF ResourceTypes
  <2>3. QED  BY <1>1, <1>2, <2>2 DEF ResourceTypes
<1>4. \A q \in Resources : \A i \in Nat : ~Holds(p, i, q)
  <2>1. \A i \in 1 .. Len(lists[p]) : lists[p][i] = Gone
    <3>1. DOMAIN lists[p] = 1 .. Len(lists[p])
      BY <1>2
    <3>2. \A i \in 1 .. Len(lists[p]) : lists[p][i] \in ToSet(lists[p])
      BY <3>1 DEF ToSet
    <3>3. QED  BY <1>1, <3>2
  <2>2. QED  BY <2>1, ResourcesAssumption DEF Holds
<1>5. Len(<<>>) = 0
  OBVIOUS
<1>6. /\ \A q \in Resources : \A i \in Nat : ~Holds(o, i, q)' /\ (Holds(p, i, q)' <=> Holds(o, i, q))
      /\ \A q \in Resources : \A i \in Nat : \A u \in Owners \ {o, p} : Holds(u, i, q)' <=> Holds(u, i, q)
  BY <1>3, <1>5 DEF Holds
<1>7. \A u \in Owners : EmptiedBehind(u)'
  <2>1. EmptiedBehind(o)' /\ EmptiedBehind(p)'
    <3>1. Len(lists'[o]) \in Nat /\ Len(lists'[p]) \in Nat /\ releasing'[o] = 0 /\ releasing'[p] = 0
      BY <1>1, <1>2, <1>3, <1>5
    <3>2. QED  BY <3>1 DEF EmptiedBehind
  <2>2. \A u \in Owners \ {o, p} : EmptiedBehind(u)'
    BY <1>1, <1>3 DEF ResourceInv, EmptiedBehind
  <2>3. QED  BY <2>1, <2>2
<1>8. OnePlace'
  <2> SUFFICES ASSUME NEW u \in Owners, NEW v \in Owners, NEW q \in Resources, NEW i \in Nat, NEW j \in Nat,
                      Holds(u, i, q)', Holds(v, j, q)'
               PROVE  u = v /\ i = j
    BY DEF OnePlace
  <2>1. u # o /\ v # o
    BY <1>6
  <2>2. Holds(IF u = p THEN o ELSE u, i, q) /\ Holds(IF v = p THEN o ELSE v, j, q)
    BY <1>6, <2>1
  <2>3. (IF u = p THEN o ELSE u) = (IF v = p THEN o ELSE v) /\ i = j
    BY <2>2 DEF ResourceInv, OnePlace
  <2>4. QED  BY <1>1, <2>1, <2>3
<1>9. UsesStandBefore'
  <2> SUFFICES ASSUME NEW u \in Owners, NEW q \in Resources, NEW i \in Nat, Holds(u, i, q)'
               PROVE  /\ q \in DOMAIN uses
                      /\ \A y \in uses[q] : y \in Resources /\ \E j \in 1 .. i - 1 : Holds(u, j, y)'
    BY <1>1 DEF UsesStandBefore
  <2> DEFINE v == IF u = p THEN o ELSE u
  <2>1. u # o /\ Holds(v, i, q) /\ v \in Owners
    BY <1>6
  <2>2. \A j \in 1 .. i - 1 : j \in Nat
    OBVIOUS
  <2>3. \A y \in Resources : \A j \in Nat : Holds(v, j, y) => Holds(u, j, y)'
    BY <1>6, <2>1
  <2> HIDE DEF v
  <2>4. QED  BY <2>1, <2>2, <2>3 DEF ResourceInv, UsesStandBefore
<1>10. Alive' = Alive
  <2>1. AliveAreHeld /\ AliveAreHeld'
    BY <1>2, <1>3, AliveIs, PTL
  <2>2. \A q \in Resources : (\E u \in Owners : \E i \in Nat : Holds(u, i, q)')
                               <=> \E u \in Owners : \E i \in Nat : Holds(u, i, q)
    BY <1>4, <1>6
  <2>3. QED  BY <2>1, <2>2 DEF AliveAreHeld
<1>11. QED  BY <1>1, <1>3, <1>7, <1>8, <1>9, <1>10 DEF ResourceInv, ReleasedOnce

\* Unless a list is assigned over one that still holds something, resources are
\* released once each, and never before one that may use them, for any number of
\* lists and resources (clear() of ResourceList, and its moves).
THEOREM ReleasesInOrder ==
  ASSUME ~AssignOverHeld
  PROVE  ResourcesInit /\ [][ResourcesNext]_resourceVars => []ReleasedInOrder
<1>1. ResourceInv /\ [ResourcesNext]_resourceVars => ResourceInv'
  <2> SUFFICES ASSUME ResourceInv, [ResourcesNext]_resourceVars PROVE ResourceInv'
    OBVIOUS
  <2>1. CASE UNCHANGED resourceVars
    BY <2>1 DEF resourceVars, ResourceInv, ResourceTypes, EmptiedBehind, OnePlace, UsesStandBefore, Holds,
                ReleasedOnce, Alive
  <2>2. QED  BY <2>1, MakeKeeps, BeginClearKeeps, ResetKeeps, MoveListKeeps DEF ResourcesNext
<1>2. QED  BY <1>1, ResourceInitInv, ResourceInvSuffices, PTL
-----------------------------------------------------------------------------
\* The recursive function that FlattenSeq takes the last value of.
IsFlat(f, s, n) == f = [i \in 1 .. n |-> IF i = 1 THEN s[i] ELSE f[i - 1] \o s[i]]

\* One value of it.
LEMMA FlatIs ==
  ASSUME NEW f, NEW s, NEW n \in Nat, IsFlat(f, s, n), NEW i \in 1 .. n
  PROVE  f[i] = IF i = 1 THEN s[i] ELSE f[i - 1] \o s[i]
BY DEF IsFlat

\* There is such a function, by induction on how many values it has.
LEMMA FlatExists ==
  ASSUME NEW s, NEW n \in Nat
  PROVE  \E f : IsFlat(f, s, n)
<1> DEFINE T == {m \in Nat : ~\E f : IsFlat(f, s, m)}
<1>1. ASSUME T # {} PROVE FALSE
  <2> DEFINE m == Min(T)
  <2>1. m \in T /\ \A y \in T : m <= y
    BY <1>1, MinIs
  <2>2. m \in Nat /\ ~\E f : IsFlat(f, s, m)
    BY <2>1
  <2> HIDE DEF m
  <2>3. m # 0
    <3>1. IsFlat([i \in 1 .. 0 |-> 0], s, 0)
      BY DEF IsFlat
    <3>2. QED  BY <2>2, <3>1
  <2>4. m - 1 \in Nat /\ m - 1 < m
    BY <2>2, <2>3
  <2>5. PICK f : IsFlat(f, s, m - 1)
    BY <2>1, <2>4
  <2> DEFINE last == IF m = 1 THEN s[m] ELSE f[m - 1] \o s[m]
             g == [i \in 1 .. m |-> IF i = m THEN last ELSE f[i]]
             h == [i \in 1 .. m |-> IF i = 1 THEN s[i] ELSE g[i - 1] \o s[i]]
  <2>6. ASSUME NEW i \in 1 .. m PROVE g[i] = IF i = 1 THEN s[i] ELSE g[i - 1] \o s[i]
    <3>1. i # 1 => i - 1 \in 1 .. m /\ i - 1 # m
      BY <2>2
    <3>2. i # 1 => g[i - 1] = f[i - 1]
      BY <3>1
    <3>3. CASE i = m
      BY <3>2, <3>3
    <3>4. CASE i # m
      <4>1. i \in 1 .. m - 1
        BY <2>2, <3>4
      <4>2. f[i] = IF i = 1 THEN s[i] ELSE f[i - 1] \o s[i]
        BY <2>4, <2>5, <4>1, FlatIs
      <4>3. g[i] = f[i]
        BY <3>4
      <4>4. QED  BY <3>2, <4>2, <4>3
    <3>5. QED  BY <3>3, <3>4
  <2> HIDE DEF last
  <2>7. g = h
    <3>1. \A i \in 1 .. m : g[i] = h[i]
      BY <2>6
    <3>2. QED  BY <3>1
  <2> HIDE DEF g
  <2>8. IsFlat(g, s, m)
    BY <2>7 DEF IsFlat
  <2>9. QED  BY <2>2, <2>8
<1>2. QED  BY <1>1

\* It depends on the values up to its index only.
LEMMA FlatAgrees ==
  ASSUME NEW f, NEW s, NEW n \in Nat, IsFlat(f, s, n),
         NEW g, NEW t, NEW k \in Nat, IsFlat(g, t, k),
         n <= k, \A i \in 1 .. n : s[i] = t[i]
  PROVE  \A i \in 1 .. n : f[i] = g[i]
<1> DEFINE T == {i \in 1 .. n : f[i] # g[i]}
<1>1. ASSUME T # {} PROVE FALSE
  <2> DEFINE m == Min(T)
  <2>1. m \in T /\ \A y \in T : m <= y
    BY <1>1, MinIs
  <2>2. m \in 1 .. n /\ f[m] # g[m]
    BY <2>1
  <2> HIDE DEF m
  <2>3. /\ f[m] = IF m = 1 THEN s[m] ELSE f[m - 1] \o s[m]
        /\ g[m] = IF m = 1 THEN t[m] ELSE g[m - 1] \o t[m]
        /\ s[m] = t[m]
    BY <2>2, FlatIs
  <2>4. m # 1 /\ f[m - 1] # g[m - 1]
    BY <2>2, <2>3
  <2>5. m - 1 \in T /\ ~(m <= m - 1)
    BY <2>2, <2>4
  <2>6. QED  BY <2>1, <2>5
<1>2. QED  BY <1>1

\* FlattenSeq takes the last value of any such function.
LEMMA FlattenIs ==
  ASSUME NEW S, NEW s \in Seq(S), NEW f, IsFlat(f, s, Len(s)), Len(s) # 0
  PROVE  FlattenSeq(s) = f[Len(s)]
<1> DEFINE n == Len(s)
           c == CHOOSE h : IsFlat(h, s, n)
<1>1. n \in Nat /\ IsFlat(c, s, n)
  OBVIOUS
<1>2. FlattenSeq(s) = c[n]
  BY DEF FlattenSeq, IsFlat
<1> HIDE DEF c
<1>3. \A i \in 1 .. n : c[i] = f[i]
  BY <1>1, FlatAgrees
<1>4. QED  BY <1>1, <1>2, <1>3

\* Nothing flattens to nothing.
LEMMA FlattenEmpty == FlattenSeq(<<>>) = <<>>
BY DEF FlattenSeq

\* One sequence more is appended.
LEMMA FlattenAppend ==
  ASSUME NEW S, NEW s \in Seq(S), NEW o \in S
  PROVE  FlattenSeq(Append(s, o)) = IF s = <<>> THEN o ELSE FlattenSeq(s) \o o
<1> DEFINE t == Append(s, o)
           n == Len(s)
<1>1. /\ n \in Nat /\ t \in Seq(S) /\ Len(t) = n + 1 /\ t[n + 1] = o
      /\ \A i \in 1 .. n : t[i] = s[i]
  OBVIOUS
<1>2. s # <<>> => n # 0
  OBVIOUS
<1>3. s = <<>> => n = 0
  OBVIOUS
<1> HIDE DEF t
<1>4. PICK g : IsFlat(g, t, n + 1)
  <2>1. n + 1 \in Nat
    BY <1>1
  <2>2. QED  BY <2>1, FlatExists
<1>5. FlattenSeq(t) = g[n + 1]
  <2>1. n + 1 # 0 /\ IsFlat(g, t, Len(t)) /\ Len(t) # 0
    BY <1>1, <1>4
  <2>2. FlattenSeq(t) = g[Len(t)]
    BY <1>1, <2>1, FlattenIs
  <2>3. QED  BY <1>1, <2>2
<1>6. g[n + 1] = IF n + 1 = 1 THEN t[n + 1] ELSE g[n + 1 - 1] \o t[n + 1]
  <2>1. n + 1 \in Nat /\ n + 1 \in 1 .. n + 1
    BY <1>1
  <2>2. QED  BY <1>4, <2>1, FlatIs
<1>7. CASE s = <<>>
  BY <1>1, <1>3, <1>5, <1>6, <1>7 DEF t
<1>8. CASE s # <<>>
  <2>1. PICK f : IsFlat(f, s, n)
    BY <1>1, FlatExists
  <2>2. FlattenSeq(s) = f[n]
    BY <1>2, <1>8, <2>1, FlattenIs
  <2>3. n <= n + 1 /\ n + 1 \in Nat /\ n \in 1 .. n /\ n + 1 # 1 /\ n + 1 - 1 = n
    BY <1>1, <1>2, <1>8
  <2>4. \A i \in 1 .. n : f[i] = g[i]
    BY <1>1, <1>4, <2>1, <2>3, FlatAgrees
  <2>5. g[n + 1] = g[n] \o o
    BY <1>1, <1>6, <2>3
  <2>6. QED  BY <1>5, <1>8, <2>2, <2>3, <2>4, <2>5 DEF t
<1>9. QED  BY <1>7, <1>8
-----------------------------------------------------------------------------
\* A part of a sequence does not see what is appended behind it.
LEMMA PartOfAppend ==
  ASSUME NEW S, NEW s \in Seq(S), NEW v \in S, NEW a \in 0 .. Len(s), NEW b \in 0 .. Len(s)
  PROVE  /\ SubSeq(Append(s, v), a + 1, b) = SubSeq(s, a + 1, b)
         /\ SubSeq(Append(s, v), a + 1, Len(s) + 1) = Append(SubSeq(s, a + 1, Len(s)), v)
<1> DEFINE n == Len(s)
           t == Append(s, v)
<1>1. /\ n \in Nat /\ t \in Seq(S) /\ Len(t) = n + 1 /\ t[n + 1] = v
      /\ \A i \in 1 .. n : t[i] = s[i] /\ s[i] \in S
  OBVIOUS
<1> HIDE DEF n, t
<1>2. a \in 0 .. n /\ b \in 0 .. n
  BY DEF n
<1>3. SubSeq(t, a + 1, b) = SubSeq(s, a + 1, b)
  <2>1. SubSeq(t, a + 1, b) = [i \in 1 .. b - a |-> t[i + a]]
    BY <1>1, <1>2
  <2>2. SubSeq(s, a + 1, b) = [i \in 1 .. b - a |-> s[i + a]]
    BY <1>1, <1>2
  <2>3. \A i \in 1 .. b - a : t[i + a] = s[i + a]
    BY <1>1, <1>2
  <2>4. QED  BY <2>1, <2>2, <2>3
<1>4. SubSeq(t, a + 1, n + 1) = Append(SubSeq(s, a + 1, n), v)
  <2> DEFINE p == SubSeq(s, a + 1, n)
             q == SubSeq(t, a + 1, n + 1)
  <2>1. p \in Seq(S) /\ Len(p) = n - a /\ \A i \in 1 .. n - a : p[i] = s[i + a]
    BY <1>1, <1>2
  <2>2. q \in Seq(S) /\ Len(q) = n - a + 1 /\ \A i \in 1 .. n - a + 1 : q[i] = t[i + a]
    BY <1>1, <1>2
  <2> HIDE DEF p, q
  <2>3. /\ Append(p, v) \in Seq(S) /\ Len(Append(p, v)) = n - a + 1
        /\ Append(p, v)[n - a + 1] = v /\ \A i \in 1 .. n - a : Append(p, v)[i] = p[i]
    BY <1>2, <2>1
  <2>4. \A i \in 1 .. n - a + 1 : q[i] = Append(p, v)[i]
    <3> SUFFICES ASSUME NEW i \in 1 .. n - a + 1 PROVE q[i] = Append(p, v)[i]
      OBVIOUS
    <3>1. CASE i = n - a + 1
      <4>1. i + a = n + 1
        BY <1>1, <1>2, <3>1
      <4>2. QED  BY <1>1, <2>2, <2>3, <3>1, <4>1
    <3>2. CASE i # n - a + 1
      <4>1. i \in 1 .. n - a /\ i + a \in 1 .. n
        BY <1>1, <1>2, <3>2
      <4>2. QED  BY <1>1, <2>1, <2>2, <2>3, <4>1
    <3>3. QED  BY <3>1, <3>2
  <2>5. q = Append(p, v)
    BY <2>2, <2>3, <2>4, SeqEqual
  <2>6. QED  BY <2>5 DEF p, q
<1>5. QED  BY <1>3, <1>4 DEF n, t

\* Every variable has its type, and offsets are too wide to wrap.
GroupTypes ==
  /\ values \in Seq(Members) /\ open \in Seq(Members)
  /\ closed \in Seq(Seq(Members)) /\ groups \in Seq(Nat)
  /\ Len(values) < OffsetMod
  /\ Len(groups) = Len(closed) + 1

\* Every group lies in the vector, where its offsets say, and the rest is open.
GroupsLie ==
  /\ \A g \in 1 .. Len(groups) : groups[g] <= Len(values)
  /\ \A g \in 1 .. Len(closed) : SubSeq(values, groups[g] + 1, groups[g + 1]) = closed[g]
  /\ SubSeq(values, groups[Len(groups)] + 1, Len(values)) = open

\* The vector is the groups one after the other, and the rest.
ValuesAre == FlattenSeq(closed) \in Seq(Members) /\ values = FlattenSeq(closed) \o open

\* The inductive invariant.
GroupsInv == GroupTypes /\ GroupsLie /\ ValuesAre

\* An empty Grouped: one offset, no value.
Fresh == values = <<>> /\ groups = <<0>> /\ closed = <<>> /\ open = <<>>

\* It holds of an empty Grouped.
LEMMA GroupsStart == Fresh => GroupsInv
<1> SUFFICES ASSUME Fresh PROVE GroupsInv
  OBVIOUS
<1> USE DEF Fresh
<1>1. GroupTypes
  BY OffsetAssumption DEF GroupTypes
<1>2. GroupsLie
  <2>1. SubSeq(<<>>, 0 + 1, 0) = <<>>
    OBVIOUS
  <2>2. QED  BY <2>1 DEF GroupsLie
<1>3. ValuesAre
  <2>1. <<>> \in Seq(Members) /\ <<>> \o <<>> = <<>>
    OBVIOUS
  <2>2. FlattenSeq(closed) = <<>>
    BY FlattenEmpty
  <2>3. QED  BY <2>1, <2>2 DEF ValuesAre
<1>4. QED  BY <1>1, <1>2, <1>3 DEF GroupsInv

\* add_to_last_group() leaves every group where it is.
LEMMA AddKeeps ==
  ASSUME GroupsInv, NEW v \in Members, AddToLastGroup(v)
  PROVE  GroupsInv'
<1>1. /\ Len(values) < OffsetMod - 1 /\ values' = Append(values, v) /\ open' = Append(open, v)
      /\ UNCHANGED <<groups, closed>>
  BY DEF AddToLastGroup
<1>2. GroupTypes /\ GroupsLie /\ ValuesAre
  BY DEF GroupsInv
<1>3. Len(values) \in Nat /\ Len(groups) \in Nat /\ Len(closed) \in Nat /\ Len(values') = Len(values) + 1
  BY <1>1, <1>2 DEF GroupTypes
<1>4. GroupTypes'
  <2>1. Len(values') < OffsetMod
    BY <1>1, <1>3, OffsetAssumption
  <2>2. values' \in Seq(Members) /\ open' \in Seq(Members)
    BY <1>1, <1>2 DEF GroupTypes
  <2>3. QED  BY <1>1, <1>2, <2>1, <2>2 DEF GroupTypes
<1>5. \A g \in 1 .. Len(groups) : groups[g] \in 0 .. Len(values)
  BY <1>2, <1>3 DEF GroupTypes, GroupsLie
<1>6. GroupsLie'
  <2>1. \A g \in 1 .. Len(groups) : groups[g] <= Len(values')
    BY <1>3, <1>5
  <2>2. ASSUME NEW g \in 1 .. Len(closed)
        PROVE  SubSeq(values', groups[g] + 1, groups[g + 1]) = closed[g]
    <3>1. g \in 1 .. Len(groups) /\ g + 1 \in 1 .. Len(groups)
      BY <1>2, <1>3 DEF GroupTypes
    <3>2. groups[g] \in 0 .. Len(values) /\ groups[g + 1] \in 0 .. Len(values)
      BY <1>5, <3>1
    <3>3. SubSeq(values', groups[g] + 1, groups[g + 1]) = SubSeq(values, groups[g] + 1, groups[g + 1])
      BY <1>1, <1>2, <3>2, PartOfAppend DEF GroupTypes
    <3>4. QED  BY <1>2, <3>3 DEF GroupsLie
  <2>3. SubSeq(values', groups[Len(groups)] + 1, Len(values')) = open'
    <3>1. groups[Len(groups)] \in 0 .. Len(values)
      <4>1. Len(groups) \in 1 .. Len(groups)
        BY <1>2, <1>3 DEF GroupTypes
      <4>2. QED  BY <1>5, <4>1
    <3>2. SubSeq(values', groups[Len(groups)] + 1, Len(values) + 1)
            = Append(SubSeq(values, groups[Len(groups)] + 1, Len(values)), v)
      BY <1>1, <1>2, <3>1, PartOfAppend DEF GroupTypes
    <3>3. QED  BY <1>1, <1>2, <1>3, <3>2 DEF GroupsLie
  <2>4. QED  BY <1>1, <2>1, <2>2, <2>3 DEF GroupsLie
<1>7. ValuesAre'
  <2>1. Append(FlattenSeq(closed) \o open, v) = FlattenSeq(closed) \o Append(open, v)
    <3>1. \A a, b \in Seq(Members) : Append(a \o b, v) = a \o Append(b, v)
      OBVIOUS
    <3>2. QED  BY <1>2, <3>1 DEF ValuesAre, GroupTypes
  <2>2. QED  BY <1>1, <1>2, <2>1 DEF ValuesAre
<1>8. QED  BY <1>4, <1>6, <1>7 DEF GroupsInv

\* next_group() makes the rest a group.
LEMMA NextGroupKeeps ==
  ASSUME GroupsInv, NextGroup
  PROVE  GroupsInv'
<1>1. /\ groups' = Append(groups, Len(values) % OffsetMod) /\ closed' = Append(closed, open)
      /\ open' = <<>> /\ values' = values
  BY DEF NextGroup
<1>2. GroupTypes /\ GroupsLie /\ ValuesAre
  BY DEF GroupsInv
<1>3. Len(values) \in Nat /\ Len(groups) \in Nat /\ Len(closed) \in Nat /\ Len(groups) = Len(closed) + 1
  BY <1>2 DEF GroupTypes
<1>4. Len(values) % OffsetMod = Len(values)
  <2>1. \A a \in Nat, b \in Nat \ {0} : a < b => a % b = a
    OBVIOUS
  <2>2. Len(values) < OffsetMod
    BY <1>2 DEF GroupTypes
  <2>3. QED  BY <1>3, <2>1, <2>2, OffsetAssumption
<1>5. /\ groups' \in Seq(Nat) /\ Len(groups') = Len(groups) + 1 /\ groups'[Len(groups) + 1] = Len(values)
      /\ \A g \in 1 .. Len(groups) : groups'[g] = groups[g]
  BY <1>1, <1>2, <1>3, <1>4 DEF GroupTypes
<1>6. /\ closed' \in Seq(Seq(Members)) /\ Len(closed') = Len(closed) + 1 /\ closed'[Len(closed) + 1] = open
      /\ \A g \in 1 .. Len(closed) : closed'[g] = closed[g]
  BY <1>1, <1>2, <1>3 DEF GroupTypes
<1>7. GroupTypes'
  BY <1>1, <1>2, <1>3, <1>5, <1>6 DEF GroupTypes
<1>8. GroupsLie'
  <2>1. ASSUME NEW g \in 1 .. Len(groups) + 1 PROVE groups'[g] <= Len(values)
    <3>1. CASE g = Len(groups) + 1
      BY <1>3, <1>5, <3>1
    <3>2. CASE g # Len(groups) + 1
      <4>1. g \in 1 .. Len(groups)
        BY <1>3, <3>2
      <4>2. QED  BY <1>2, <1>5, <4>1 DEF GroupsLie
    <3>3. QED  BY <3>1, <3>2
  <2>2. ASSUME NEW g \in 1 .. Len(closed) + 1
        PROVE  SubSeq(values, groups'[g] + 1, groups'[g + 1]) = closed'[g]
    <3>1. CASE g = Len(closed) + 1
      <4>1. g = Len(groups) /\ g \in 1 .. Len(groups) /\ g + 1 = Len(groups) + 1
        BY <1>3, <3>1
      <4>2. groups'[g] = groups[Len(groups)] /\ groups'[g + 1] = Len(values) /\ closed'[g] = open
        BY <1>5, <1>6, <3>1, <4>1
      <4>3. QED  BY <1>2, <4>2 DEF GroupsLie
    <3>2. CASE g # Len(closed) + 1
      <4>1. g \in 1 .. Len(closed) /\ g \in 1 .. Len(groups) /\ g + 1 \in 1 .. Len(groups)
        BY <1>3, <3>2
      <4>2. groups'[g] = groups[g] /\ groups'[g + 1] = groups[g + 1] /\ closed'[g] = closed[g]
        BY <1>5, <1>6, <4>1
      <4>3. QED  BY <1>2, <4>1, <4>2 DEF GroupsLie
    <3>3. QED  BY <3>1, <3>2
  <2>3. SubSeq(values, Len(values) + 1, Len(values)) = <<>>
    BY <1>3, SubSeqEmpty
  <2>4. QED  BY <1>1, <1>5, <1>6, <2>1, <2>2, <2>3 DEF GroupsLie
<1>9. ValuesAre'
  <2>1. FlattenSeq(closed') = values
    <3>1. FlattenSeq(closed') = IF closed = <<>> THEN open ELSE FlattenSeq(closed) \o open
      BY <1>1, <1>2, FlattenAppend DEF GroupTypes
    <3>2. CASE closed = <<>>
      <4>1. values = <<>> \o open
        BY <1>2, <3>2, FlattenEmpty DEF ValuesAre
      <4>2. <<>> \o open = open
        BY <1>2 DEF GroupTypes
      <4>3. QED  BY <3>1, <3>2, <4>1, <4>2
    <3>3. QED  BY <1>2, <3>1, <3>2 DEF ValuesAre
  <2>2. values \o <<>> = values
    BY <1>2 DEF GroupTypes
  <2>3. QED  BY <1>1, <1>2, <2>1, <2>2 DEF ValuesAre, GroupTypes
<1>10. QED  BY <1>7, <1>8, <1>9 DEF GroupsInv

\* The groups of a Grouped are the values as next_group() separated them, empty
\* groups included, for every content that fits the offsets.
THEOREM GroupsStand == GroupsInit /\ [][GroupsNext]_groupVars => []GroupsAsClosed
<1>1. GroupsInit => GroupsInv
  BY GroupsStart DEF GroupsInit, Fresh
<1>2. GroupsInv /\ [GroupsNext]_groupVars => GroupsInv'
  <2> SUFFICES ASSUME GroupsInv, [GroupsNext]_groupVars PROVE GroupsInv'
    OBVIOUS
  <2>1. CASE StartOver
    <3>1. Fresh'
      BY <2>1 DEF StartOver, Fresh
    <3>2. QED  BY <3>1, GroupsStart, PTL
  <2>2. CASE UNCHANGED groupVars
    BY <2>2 DEF groupVars, GroupsInv, GroupTypes, GroupsLie, ValuesAre
  <2>3. QED  BY <2>1, <2>2, AddKeeps, NextGroupKeeps DEF GroupsNext
<1>3. GroupsInv => GroupsAsClosed
  <2> SUFFICES ASSUME GroupsInv PROVE GroupsAsClosed
    OBVIOUS
  <2>1. Len(closed) \in Nat /\ Len(groups) = Len(closed) + 1
    BY DEF GroupsInv, GroupTypes
  <2>2. GroupCount = Len(closed)
    BY <2>1 DEF GroupCount
  <2>3. ASSUME NEW g \in 0 .. Len(closed) - 1 PROVE Group(g) = closed[g + 1]
    <3>1. g + 1 \in 1 .. Len(closed) /\ g + 1 + 1 = g + 2
      BY <2>1
    <3>2. QED  BY <3>1 DEF GroupsInv, GroupsLie, Group
  <2>4. QED  BY <2>2, <2>3 DEF GroupsAsClosed, GroupsInv, ValuesAre
<1>4. QED  BY <1>1, <1>2, <1>3, PTL

-----------------------------------------------------------------------------
(* Powers of two and binomial coefficients.                               *)

\* What a step makes of a beginning, in n turns.
IsRun(f, n, D, a, step) == f \in [0 .. n -> D] /\ f[0] = a /\ \A i \in 1 .. n : f[i] = step[f[i - 1]]

\* A step can be taken any number of times.
LEMMA Repeated ==
  ASSUME NEW n \in Nat, NEW D, NEW a \in D, NEW step \in [D -> D]
  PROVE  \E f : IsRun(f, n, D, a, step)
<1> DEFINE Good(m, f) == IsRun(f, m, D, a, step)
           T == {m \in Nat : ~\E f : Good(m, f)}
<1>1. ASSUME T # {} PROVE FALSE
  <2> DEFINE m == Min(T)
  <2>1. m \in T /\ \A y \in T : m <= y
    BY <1>1, MinIs
  <2>2. m \in Nat /\ ~\E f : Good(m, f)
    BY <2>1
  <2> HIDE DEF m
  <2>3. m # 0
    <3>1. Good(0, [i \in 0 .. 0 |-> a])
      BY DEF IsRun
    <3>2. QED  BY <2>2, <3>1
  <2>4. m - 1 \in Nat /\ m - 1 < m
    BY <2>2, <2>3
  <2>5. PICK f : Good(m - 1, f)
    <3> HIDE DEF Good
    <3>1. m - 1 \notin T
      <4> HIDE DEF T
      <4>1. QED  BY <2>1, <2>2, <2>4
    <3>2. QED  BY <2>4, <3>1
  <2> DEFINE last == step[f[m - 1]]
             g == [i \in 0 .. m |-> IF i = m THEN last ELSE f[i]]
  <2>6. last \in D
    BY <2>4, <2>5 DEF IsRun
  <2>7. Good(m, g)
    <3> HIDE DEF last
    <3>1. g \in [0 .. m -> D] /\ g[0] = a
      BY <2>2, <2>3, <2>4, <2>5, <2>6 DEF IsRun
    <3>2. ASSUME NEW i \in 1 .. m PROVE g[i] = step[g[i - 1]]
      <4>1. g[i - 1] = f[i - 1]
        BY <2>2
      <4>2. CASE i = m
        BY <2>2, <4>1, <4>2 DEF last
      <4>3. CASE i # m
        BY <2>2, <2>5, <4>1, <4>3 DEF IsRun
      <4>4. QED  BY <4>2, <4>3
    <3>3. QED  BY <3>1, <3>2 DEF IsRun
  <2>8. QED  BY <2>2, <2>7
<1>2. n \notin T
  BY <1>1
<1>3. QED  BY <1>2

\* The powers of two, which double.
LEMMA PowersAre ==
  /\ TwoTo[0] = 1 /\ \A i \in 1 .. W : TwoTo[i] = 2 * TwoTo[i - 1]
  /\ \A i \in 0 .. W : TwoTo[i] \in Nat \ {0}
<1> DEFINE c == CHOOSE f : f = [i \in 0 .. W |-> IF i = 0 THEN 1 ELSE 2 * f[i - 1]]
           P == Nat \ {0}
           double == [v \in P |-> 2 * v]
<1>1. PICK f \in [0 .. W -> P] : f[0] = 1 /\ \A i \in 1 .. W : f[i] = double[f[i - 1]]
  <2>1. double \in [P -> P] /\ 1 \in P /\ W \in Nat
    BY WidthAssumption
  <2> HIDE DEF P, double
  <2>2. \E f : IsRun(f, W, P, 1, double)
    BY <2>1, Repeated
  <2>3. QED  BY <2>2 DEF IsRun
<1>2. f = [i \in 0 .. W |-> IF i = 0 THEN 1 ELSE 2 * f[i - 1]]
  <2>1. ASSUME NEW i \in 1 .. W PROVE f[i] = 2 * f[i - 1]
    <3>1. f[i - 1] \in P
      BY <1>1, WidthAssumption
    <3>2. double[f[i - 1]] = 2 * f[i - 1]
      BY <3>1
    <3> HIDE DEF double
    <3>3. QED  BY <1>1, <3>2
  <2>2. \A i \in 0 .. W : i = 0 \/ i \in 1 .. W
    BY WidthAssumption
  <2>3. \A i \in 0 .. W : f[i] = IF i = 0 THEN 1 ELSE 2 * f[i - 1]
    BY <1>1, <2>1, <2>2
  <2>4. QED  BY <2>3
<1>3. c = [i \in 0 .. W |-> IF i = 0 THEN 1 ELSE 2 * c[i - 1]]
  BY <1>2
<1>4. TwoTo = c
  BY DEF TwoTo
<1> HIDE DEF c
<1>5. c[0] = 1 /\ \A i \in 1 .. W : c[i] = 2 * c[i - 1]
  <2>1. \A i \in 0 .. W : c[i] = IF i = 0 THEN 1 ELSE 2 * c[i - 1]
    BY <1>3
  <2>2. QED  BY <2>1, WidthAssumption
<1> DEFINE T == {i \in 0 .. W : c[i] \notin P}
<1>6. ASSUME T # {} PROVE FALSE
  <2> DEFINE m == Min(T)
  <2>1. T \subseteq Nat
    BY WidthAssumption
  <2>2. m \in T /\ \A y \in T : m <= y
    BY <1>6, <2>1, MinIs
  <2> HIDE DEF m
  <2>3. m \in 0 .. W /\ c[m] \notin P
    BY <2>2
  <2>4. m # 0
    BY <1>5, <2>3
  <2>5. m - 1 \in 0 .. W /\ m - 1 < m
    BY <2>3, <2>4, WidthAssumption
  <2>6. c[m - 1] \in P
    BY <2>2, <2>5, WidthAssumption
  <2>7. QED  BY <1>5, <2>3, <2>4, <2>6
<1>7. QED  BY <1>4, <1>5, <1>6

\* They grow.
LEMMA PowersGrow == \A i, j \in 0 .. W : i <= j => TwoTo[i] <= TwoTo[j]
<1> DEFINE T == {j \in 0 .. W : \E i \in 0 .. j : ~(TwoTo[i] <= TwoTo[j])}
<1>1. ASSUME T # {} PROVE FALSE
  <2> DEFINE m == Min(T)
  <2>1. T \subseteq Nat
    BY WidthAssumption
  <2>2. m \in T /\ \A y \in T : m <= y
    BY <1>1, <2>1, MinIs
  <2> HIDE DEF m
  <2>3. PICK i \in 0 .. m : m \in 0 .. W /\ ~(TwoTo[i] <= TwoTo[m])
    BY <2>2
  <2>4. i # m /\ i \in 0 .. W
    BY <2>3, PowersAre, WidthAssumption
  <2>5. m - 1 \in 0 .. W /\ i \in 0 .. m - 1 /\ m - 1 < m /\ m \in 1 .. W
    BY <2>3, <2>4, WidthAssumption
  <2>6. TwoTo[i] <= TwoTo[m - 1]
    BY <2>2, <2>5, WidthAssumption
  <2>7. TwoTo[m] = 2 * TwoTo[m - 1] /\ TwoTo[m - 1] \in Nat /\ TwoTo[i] \in Nat
    BY <2>4, <2>5, PowersAre
  <2>8. QED  BY <2>3, <2>6, <2>7
<1>2. QED  BY <1>1, WidthAssumption

\* floor2 stops at the highest bit.
LEMMA FloorIs ==
  ASSUME NEW x \in 1 .. Modulus - 1
  PROVE  \E p \in 0 .. W - 1 : Floor2(x) = TwoTo[p] /\ TwoTo[p] <= x /\ x < 2 * TwoTo[p]
<1>0. W \in Nat \ {0} /\ Modulus = TwoTo[W] /\ Modulus \in Nat \ {0} /\ x \in Nat \ {0}
  BY WidthAssumption, PowersAre DEF Modulus
<1> DEFINE Above == {i \in 0 .. W : x < TwoTo[i]}
           q == Min(Above)
<1>1. q \in Above /\ \A i \in Above : q <= i
  <2>1. W \in Above /\ Above \in SUBSET Nat
    BY <1>0
  <2>2. QED  BY <2>1, MinIs
<1> HIDE DEF q
<1>2. q \in 1 .. W /\ x < TwoTo[q]
  BY <1>0, <1>1, PowersAre
<1> DEFINE Stops == {i \in 0 .. W : Cleared(x, i) \in {0, TwoTo[i]}}
<1>3. PICK p \in 0 .. W - 1 : p = q - 1
  BY <1>0, <1>2
<1>4. p \in 0 .. W /\ TwoTo[p] <= x /\ x < 2 * TwoTo[p] /\ TwoTo[p] \in Nat \ {0}
  <2>1. p \in 0 .. W /\ p < q
    BY <1>0, <1>2, <1>3
  <2>2. TwoTo[p] \in Nat \ {0} /\ TwoTo[q] = 2 * TwoTo[p]
    BY <1>2, <1>3, <2>1, PowersAre
  <2>3. ~(x < TwoTo[p])
    BY <1>0, <1>1, <1>2, <2>1
  <2>4. QED  BY <1>0, <1>2, <2>1, <2>2, <2>3
<1>5. Cleared(x, p) = TwoTo[p]
  <2>1. PICK d \in Nat \ {0} : d = TwoTo[p] /\ d <= x /\ x < 2 * d
    BY <1>4
  <2>2. x % d = x - d
    BY <1>0, <2>1
  <2>3. QED  BY <1>0, <2>1, <2>2 DEF Cleared
<1>6. ASSUME NEW i \in Stops PROVE p <= i
  <2>1. SUFFICES ASSUME i < p PROVE FALSE
    BY <1>0, <1>4
  <2>2. i + 1 \in 0 .. W /\ i + 1 < q /\ i \in 0 .. W /\ i + 1 - 1 = i /\ i + 1 \in 1 .. W
    BY <1>0, <1>2, <1>3, <2>1
  <2>3. ~(x < TwoTo[i + 1])
    BY <1>0, <1>1, <1>2, <2>2
  <2>4. PICK d \in Nat \ {0} : d = TwoTo[i] /\ TwoTo[i + 1] = 2 * d
    BY <2>2, PowersAre
  <2>5. 2 * d <= x
    BY <1>0, <2>3, <2>4
  <2>6. x % d \in 0 .. d - 1
    BY <1>0
  <2>7. Cleared(x, i) > d
    BY <1>0, <2>4, <2>5, <2>6 DEF Cleared
  <2>8. QED  BY <1>0, <2>4, <2>7
<1>7. Min(Stops) = p
  <2>1. p \in Stops /\ Stops \in SUBSET Nat
    BY <1>0, <1>4, <1>5
  <2>2. Min(Stops) \in Stops /\ \A y \in Stops : Min(Stops) <= y
    BY <2>1, MinIs
  <2>3. PICK y \in Nat : y = Min(Stops) /\ y \in Stops /\ y <= p
    BY <2>1, <2>2
  <2>4. p <= y
    BY <1>6, <2>3
  <2>5. QED  BY <1>0, <1>4, <2>3, <2>4
<1>8. Floor2(x) = Cleared(x, p)
  BY <1>7 DEF Floor2
<1>9. QED  BY <1>4, <1>5, <1>8

\* A remainder is the number that is left of whole multiples.
LEMMA RemainderIs ==
  ASSUME NEW m \in Nat \ {0}, NEW a \in Nat
  PROVE  a % m \in 0 .. m - 1 /\ \E q \in Nat : a = q * m + (a % m)
<1>1. a % m \in 0 .. m - 1 /\ a \div m \in Nat /\ a = (a \div m) * m + (a % m)
  OBVIOUS
<1>2. QED  BY <1>1

\* There is one.
LEMMA OneRemainder ==
  ASSUME NEW m \in Nat \ {0}, NEW q \in Nat, NEW r \in 0 .. m - 1
  PROVE  (q * m + r) % m = r
OBVIOUS

\* Sums may be cut to the width as they are made.
LEMMA SumWraps ==
  ASSUME NEW m \in Nat \ {0}, NEW a \in Nat, NEW b \in Nat
  PROVE  ((a % m) + (b % m)) % m = (a + b) % m
<1>1. PICK q \in Nat, r \in 0 .. m - 1 : a = q * m + r /\ r = a % m
  BY RemainderIs
<1>2. PICK u \in Nat, v \in 0 .. m - 1 : b = u * m + v /\ v = b % m
  BY RemainderIs
<1>3. PICK t \in Nat, w \in 0 .. m - 1 : r + v = t * m + w /\ w = (r + v) % m
  <2>1. PICK z \in Nat : z = r + v
    OBVIOUS
  <2>2. QED  BY <2>1, RemainderIs
<1>4. a + b = (q + u + t) * m + w
  <2>1. (q + u + t) * m = q * m + u * m + t * m
    OBVIOUS
  <2>2. q * m \in Nat /\ u * m \in Nat /\ t * m \in Nat
    OBVIOUS
  <2>3. QED  BY <1>1, <1>2, <1>3, <2>1, <2>2
<1>5. ((q + u + t) * m + w) % m = w
  <2>1. PICK z \in Nat : z = q + u + t
    OBVIOUS
  <2>2. QED  BY <2>1, OneRemainder
<1>6. QED  BY <1>1, <1>2, <1>3, <1>4, <1>5

\* The number of ways to choose j of n, in sets.
Chosen(j, n) == Cardinality(kSubset(j, 1 .. n))

\* Finitely many sets can be chosen of a finite set.
LEMMA ChoicesFinite ==
  ASSUME NEW S, IsFiniteSet(S), NEW j
  PROVE  IsFiniteSet(kSubset(j, S)) /\ Cardinality(kSubset(j, S)) \in Nat
<1>1. IsFiniteSet(SUBSET S) /\ kSubset(j, S) \in SUBSET (SUBSET S)
  BY FS_SUBSET DEF kSubset
<1>2. QED  BY <1>1, FS_Subset, FS_CardinalityType

\* Pascal's rule: what is chosen with one more to choose from has it or has not.
LEMMA Pascal ==
  ASSUME NEW S, IsFiniteSet(S), NEW x, x \notin S, NEW j \in Nat
  PROVE  Cardinality(kSubset(j + 1, S \cup {x})) = Cardinality(kSubset(j, S)) + Cardinality(kSubset(j + 1, S))
<1> DEFINE A == kSubset(j, S)
           B == kSubset(j + 1, S)
           C == {s \cup {x} : s \in A}
           f == [s \in A |-> s \cup {x}]
<1>0. \A s \in SUBSET S : IsFiniteSet(s) /\ Cardinality(s) \in Nat
  BY FS_Subset, FS_CardinalityType
<1>1. \A s \in A : s \in SUBSET S /\ x \notin s /\ Cardinality(s) = j
  BY DEF kSubset
<1>2. \A s \in SUBSET S : Cardinality(s \cup {x}) = Cardinality(s) + 1
  BY <1>0, FS_AddElement
<1>3. f \in Bijection(A, C)
  <2>1. f \in [A -> C]
    OBVIOUS
  <2>2. ASSUME NEW s \in A, NEW t \in A, f[s] = f[t] PROVE s = t
    <3>1. s \cup {x} = t \cup {x} /\ x \notin s /\ x \notin t
      BY <1>1, <2>2
    <3>2. QED  BY <3>1
  <2>3. \A c \in C : \E s \in A : f[s] = c
    OBVIOUS
  <2> HIDE DEF A, C, f
  <2>4. QED  BY <2>1, <2>2, <2>3 DEF Bijection, Injection, Surjection, IsInjective
<1>4. IsFiniteSet(A) /\ IsFiniteSet(B)
  BY ChoicesFinite
<1>5. IsFiniteSet(C) /\ Cardinality(C) = Cardinality(A)
  <2> HIDE DEF A, C, f
  <2>1. ExistsBijection(A, C)
    BY <1>3 DEF ExistsBijection
  <2>2. QED  BY <1>4, <2>1, FS_Bijection
<1>6. kSubset(j + 1, S \cup {x}) = B \cup C
  <2>1. ASSUME NEW s \in kSubset(j + 1, S \cup {x}) PROVE s \in B \cup C
    <3>1. s \in SUBSET (S \cup {x}) /\ Cardinality(s) = j + 1
      BY DEF kSubset
    <3>2. CASE x \notin s
      BY <3>1, <3>2 DEF kSubset
    <3>3. CASE x \in s
      <4>1. PICK t \in SUBSET S : t = s \ {x}
        BY <3>1
      <4>2. s = t \cup {x}
        BY <3>3, <4>1
      <4>3. Cardinality(t) = j
        BY <1>0, <1>2, <3>1, <4>1, <4>2
      <4>4. QED  BY <4>1, <4>2, <4>3 DEF kSubset
    <3>4. QED  BY <3>2, <3>3
  <2>2. B \subseteq kSubset(j + 1, S \cup {x})
    BY DEF kSubset
  <2>3. C \subseteq kSubset(j + 1, S \cup {x})
    BY <1>1, <1>2 DEF kSubset
  <2>4. QED  BY <2>1, <2>2, <2>3
<1>7. B \cap C = {}
  BY DEF kSubset
<1>8. Cardinality(A) \in Nat /\ Cardinality(B) \in Nat
  BY ChoicesFinite
<1> HIDE DEF A, B, C, f
<1>9. Cardinality(B \cup C) = Cardinality(B) + Cardinality(C) - Cardinality(B \cap C)
  BY <1>4, <1>5, FS_Union
<1>10. Cardinality(B \cup C) = Cardinality(A) + Cardinality(B)
  BY <1>5, <1>7, <1>8, <1>9, FS_EmptySet
<1>11. QED  BY <1>6, <1>10 DEF A, B

\* The numbers of ways, row by row.
LEMMA ChosenAre ==
  /\ \A n \in Nat : Chosen(0, n) = 1
  /\ \A j \in Nat \ {0} : Chosen(j, 0) = 0
  /\ \A j, n \in Nat \ {0} : Chosen(j, n) = Chosen(j - 1, n - 1) + Chosen(j, n - 1)
  /\ \A j, n \in Nat : Chosen(j, n) \in Nat
<1>1. \A n \in Nat : IsFiniteSet(1 .. n)
  BY FS_Interval
<1>2. ASSUME NEW n \in Nat PROVE Chosen(0, n) = 1
  <2>1. kSubset(0, 1 .. n) = {{}}
    <3>1. \A s \in SUBSET (1 .. n) : Cardinality(s) = 0 <=> s = {}
      BY <1>1, FS_Subset, FS_EmptySet
    <3>2. QED  BY <3>1 DEF kSubset
  <2>2. QED  BY <2>1, FS_Singleton DEF Chosen
<1>3. ASSUME NEW j \in Nat \ {0} PROVE Chosen(j, 0) = 0
  <2>1. 1 .. 0 = {}
    OBVIOUS
  <2>2. kSubset(j, {}) = {}
    BY FS_EmptySet DEF kSubset
  <2>3. QED  BY <2>1, <2>2, FS_EmptySet DEF Chosen
<1>4. ASSUME NEW j \in Nat \ {0}, NEW n \in Nat \ {0}
      PROVE  Chosen(j, n) = Chosen(j - 1, n - 1) + Chosen(j, n - 1)
  <2>1. PICK i \in Nat, m \in Nat : i = j - 1 /\ m = n - 1 /\ j = i + 1 /\ n = m + 1
    <3>1. j - 1 \in Nat /\ n - 1 \in Nat /\ j = j - 1 + 1 /\ n = n - 1 + 1
      OBVIOUS
    <3>2. QED  BY <3>1
  <2>2. PICK S : S = 1 .. m /\ IsFiniteSet(S)
    BY <1>1
  <2>3. n \notin S /\ S \cup {n} = 1 .. n
    BY <2>1, <2>2
  <2>4. Cardinality(kSubset(i + 1, S \cup {n})) = Cardinality(kSubset(i, S)) + Cardinality(kSubset(i + 1, S))
    BY <2>2, <2>3, Pascal
  <2>5. QED  BY <2>1, <2>2, <2>3, <2>4 DEF Chosen
<1>5. \A j, n \in Nat : Chosen(j, n) \in Nat
  BY <1>1, ChoicesFinite DEF Chosen
<1>6. QED  BY <1>2, <1>3, <1>4, <1>5

\* Every row of binomial's is right, modulo the width.
LEMMA BinomialIs ==
  ASSUME NEW n \in Nat, NEW k \in 0 .. n
  PROVE  Binomial(n, k) = Chosen(k, n) % Modulus
<1> DEFINE D == [0 .. n -> Nat]
           first == [j \in 0 .. n |-> IF j = 0 THEN 1 ELSE 0]
           step == [v \in D |-> Row(v)]
           c == CHOOSE row : row = [i \in 0 .. n |-> IF i = 0 THEN first ELSE Row(row[i - 1])]
           Ways(i) == [j \in 0 .. n |-> Chosen(j, i) % Modulus]
<1>1. Modulus \in Nat /\ Modulus >= 2
  <2>1. TwoTo[W] = 2 * TwoTo[W - 1] /\ TwoTo[W - 1] \in Nat \ {0}
    BY PowersAre, WidthAssumption
  <2>2. QED  BY <2>1 DEF Modulus
<1>2. \E row : row = [i \in 0 .. n |-> IF i = 0 THEN first ELSE Row(row[i - 1])]
  <2>1. ASSUME NEW v \in D PROVE Row(v) \in D
    <3>1. ASSUME NEW j \in 0 .. n, j # 0 PROVE (v[j - 1] + v[j]) % Modulus \in Nat
      <4>1. v[j - 1] \in Nat /\ v[j] \in Nat
        BY <3>1
      <4>2. QED  BY <1>1, <4>1
    <3>2. DOMAIN v = 0 .. n
      OBVIOUS
    <3>3. QED  BY <3>1, <3>2 DEF Row
  <2>2. step \in [D -> D] /\ first \in D
    <3>1. first \in D
      OBVIOUS
    <3> HIDE DEF D
    <3>2. QED  BY <2>1, <3>1
  <2>3. PICK f : IsRun(f, n, D, first, step)
    <3> HIDE DEF D, first, step
    <3>1. QED  BY <2>2, Repeated
  <2>4. ASSUME NEW i \in 1 .. n PROVE f[i] = Row(f[i - 1])
    <3>1. i - 1 \in 0 .. n
      OBVIOUS
    <3> HIDE DEF D, first
    <3>2. f[i - 1] \in D
      BY <2>3, <3>1 DEF IsRun
    <3>3. step[f[i - 1]] = Row(f[i - 1])
      BY <3>2
    <3> HIDE DEF step
    <3>4. QED  BY <2>3, <3>3 DEF IsRun
  <2>5. \A i \in 0 .. n : f[i] = IF i = 0 THEN first ELSE Row(f[i - 1])
    <3> HIDE DEF D, first, step
    <3>1. \A i \in 0 .. n : i = 0 \/ i \in 1 .. n
      OBVIOUS
    <3>2. f[0] = first
      BY <2>3 DEF IsRun
    <3>3. QED  BY <2>4, <3>1, <3>2
  <2>6. f = [i \in 0 .. n |-> IF i = 0 THEN first ELSE Row(f[i - 1])]
    <3> HIDE DEF D, first, step
    <3>1. f = [i \in 0 .. n |-> f[i]]
      BY <2>3 DEF IsRun
    <3> DEFINE g == [i \in 0 .. n |-> IF i = 0 THEN first ELSE Row(f[i - 1])]
    <3>2. [i \in 0 .. n |-> f[i]] = g
      BY <2>5
    <3> HIDE DEF g
    <3>3. f = g
      BY <3>1, <3>2
    <3>4. QED  BY <3>3 DEF g
  <2>7. QED  BY <2>6
<1>3. c = [i \in 0 .. n |-> IF i = 0 THEN first ELSE Row(c[i - 1])]
  <2> HIDE DEF first
  <2>1. QED  BY <1>2
<1>4. Binomial(n, k) = c[n][k]
  BY DEF Binomial
<1> HIDE DEF c
<1>5. c[0] = first /\ \A i \in 1 .. n : c[i] = Row(c[i - 1])
  <2> HIDE DEF first
  <2>1. \A i \in 0 .. n : c[i] = IF i = 0 THEN first ELSE Row(c[i - 1])
    BY <1>3
  <2>2. QED  BY <2>1
<1>6. first = Ways(0)
  <2>1. 1 % Modulus = 1 /\ 0 % Modulus = 0
    BY <1>1
  <2>2. ASSUME NEW j \in 0 .. n PROVE first[j] = Chosen(j, 0) % Modulus
    <3>1. first[j] = IF j = 0 THEN 1 ELSE 0
      OBVIOUS
    <3>2. Chosen(j, 0) = IF j = 0 THEN 1 ELSE 0
      BY ChosenAre
    <3> HIDE DEF first
    <3>3. QED  BY <2>1, <3>1, <3>2
  <2>3. QED  BY <2>2
<1>7. ASSUME NEW i \in 1 .. n PROVE Row(Ways(i - 1)) = Ways(i)
  <2>1. ASSUME NEW j \in 0 .. n
        PROVE  Chosen(j, i) % Modulus =
                 IF j = 0 THEN 1 ELSE ((Chosen(j - 1, i - 1) % Modulus) + (Chosen(j, i - 1) % Modulus)) % Modulus
    <3>1. CASE j = 0
      <4>1. 1 % Modulus = 1 /\ i \in Nat
        BY <1>1
      <4>2. QED  BY <3>1, <4>1, ChosenAre
    <3>2. CASE j # 0
      <4>1. j \in Nat \ {0} /\ i \in Nat \ {0} /\ j - 1 \in Nat /\ i - 1 \in Nat
        BY <3>2
      <4>2. PICK a \in Nat, b \in Nat : a = Chosen(j - 1, i - 1) /\ b = Chosen(j, i - 1) /\ Chosen(j, i) = a + b
        BY <4>1, ChosenAre
      <4>3. (a + b) % Modulus = ((a % Modulus) + (b % Modulus)) % Modulus
        <5>1. PICK m \in Nat \ {0} : m = Modulus
          BY <1>1
        <5>2. QED  BY <5>1, SumWraps
      <4>4. QED  BY <3>2, <4>2, <4>3
    <3>3. QED  BY <3>1, <3>2
  <2> DEFINE v == Ways(i - 1)
  <2>2. DOMAIN v = 0 .. n /\ \A j \in 0 .. n : v[j] = Chosen(j, i - 1) % Modulus
    OBVIOUS
  <2> HIDE DEF v
  <2>3. Row(v) = [j \in 0 .. n |-> IF j = 0 THEN 1 ELSE (v[j - 1] + v[j]) % Modulus]
    BY <2>2 DEF Row
  <2>4. ASSUME NEW j \in 0 .. n
        PROVE  (IF j = 0 THEN 1 ELSE (v[j - 1] + v[j]) % Modulus) = Chosen(j, i) % Modulus
    <3>1. j # 0 => j - 1 \in 0 .. n
      OBVIOUS
    <3>2. QED  BY <2>1, <2>2, <3>1
  <2>5. Row(v) = Ways(i)
    BY <2>3, <2>4
  <2>6. QED  BY <2>5 DEF v
<1> DEFINE T == {i \in 0 .. n : c[i] # Ways(i)}
<1>8. ASSUME T # {} PROVE FALSE
  <2> DEFINE m == Min(T)
  <2>1. m \in T /\ \A y \in T : m <= y
    <3>1. T \in SUBSET Nat
      OBVIOUS
    <3>2. QED  BY <1>8, <3>1, MinIs
  <2>2. m \in 0 .. n /\ c[m] # Ways(m)
    BY <2>1
  <2> HIDE DEF m, Ways, first
  <2>3. m # 0
    BY <1>5, <1>6, <2>2
  <2>4. m \in 1 .. n /\ m - 1 \in 0 .. n /\ m - 1 < m
    BY <2>2, <2>3
  <2>5. c[m - 1] = Ways(m - 1)
    <3>1. m - 1 \notin T
      <4> HIDE DEF T
      <4>1. QED  BY <2>1, <2>2, <2>4
    <3>2. QED  BY <2>4, <3>1
  <2>6. QED  BY <1>5, <1>7, <2>2, <2>4, <2>5
<1>9. c[n] = Ways(n)
  <2>1. n \in 0 .. n
    OBVIOUS
  <2>2. QED  BY <1>8, <2>1
<1>10. Ways(n)[k] = Chosen(k, n) % Modulus
  OBVIOUS
<1> HIDE DEF Ways
<1>11. QED  BY <1>4, <1>9, <1>10

\* ceil2 goes up to the next power of two, as far as there is one.
LEMMA CeilIs ==
  ASSUME NEW x \in 1 .. Modulus - 1
  PROVE  IF x > Modulus \div 2 THEN Ceil2(x) = 0
         ELSE IsPower(Ceil2(x)) /\ x <= Ceil2(x) /\ Ceil2(x) < 2 * x
<1>1. PICK p \in 0 .. W - 1 : Floor2(x) = TwoTo[p] /\ TwoTo[p] <= x /\ x < 2 * TwoTo[p]
  BY FloorIs
<1>2. W \in Nat \ {0} /\ p \in 0 .. W /\ p + 1 \in 1 .. W /\ p + 1 - 1 = p
  BY WidthAssumption
<1>3. PICK d \in Nat \ {0}, e \in Nat \ {0}, h \in Nat \ {0} :
        /\ d = TwoTo[p] /\ e = TwoTo[p + 1] /\ h = TwoTo[W - 1]
        /\ e = 2 * d /\ Modulus = 2 * h /\ d <= h
  <2>1. W \in 1 .. W /\ W - 1 \in 0 .. W /\ p <= W - 1
    BY <1>2
  <2>2. TwoTo[p + 1] = 2 * TwoTo[p] /\ TwoTo[W] = 2 * TwoTo[W - 1]
    <3>1. TwoTo[p + 1] = 2 * TwoTo[p + 1 - 1]
      BY <1>2, PowersAre
    <3>2. QED  BY <1>2, <2>1, <3>1, PowersAre
  <2>3. TwoTo[p] <= TwoTo[W - 1]
    BY <1>2, <2>1, PowersGrow
  <2>4. TwoTo[p] \in Nat \ {0} /\ TwoTo[p + 1] \in Nat \ {0} /\ TwoTo[W - 1] \in Nat \ {0}
    BY <1>2, <2>1, PowersAre
  <2>5. QED  BY <2>2, <2>3, <2>4 DEF Modulus
<1>4. Modulus \div 2 = h /\ x \in Nat
  BY <1>3
<1>5. CASE x = d
  <2>1. Ceil2(x) = x
    BY <1>1, <1>3, <1>5 DEF Ceil2
  <2>2. IsPower(x)
    BY <1>3, <1>5 DEF IsPower
  <2>3. QED  BY <1>3, <1>4, <1>5, <2>1, <2>2
<1>6. CASE x # d
  <2>1. Ceil2(x) = e % Modulus /\ d < x /\ x < e
    BY <1>1, <1>3, <1>4, <1>6 DEF Ceil2
  <2>2. CASE p = W - 1
    <3>1. e = Modulus /\ d = h
      BY <1>2, <1>3, <2>2
    <3>2. Ceil2(x) = 0
      BY <1>3, <2>1, <3>1
    <3>3. QED  BY <1>4, <2>1, <3>1, <3>2
  <2>3. CASE p # W - 1
    <3>1. p + 1 \in 0 .. W - 1
      BY <1>2, <2>3
    <3>2. e <= h
      <4>1. p + 1 \in 0 .. W /\ W - 1 \in 0 .. W /\ p + 1 <= W - 1
        BY <1>2, <3>1
      <4>2. QED  BY <1>3, <4>1, PowersGrow
    <3>3. Ceil2(x) = e
      BY <1>3, <2>1, <3>2
    <3>4. IsPower(e)
      BY <1>3, <3>1 DEF IsPower
    <3>5. ~(x > Modulus \div 2) /\ x <= e /\ e < 2 * x
      BY <1>3, <1>4, <2>1, <3>2
    <3>6. QED  BY <3>3, <3>4, <3>5
  <2>4. QED  BY <2>2, <2>3
<1>7. QED  BY <1>5, <1>6

\* What is called has been given what it takes, and has returned what it does.
Answered ==
  \/ \E x \in 0 .. Modulus - 1 : asked = Call("floor2", x, 0, Floor2(x))
  \/ \E x \in 0 .. Modulus - 1 : asked = Call("ceil2", x, 0, Ceil2(x))
  \/ \E x \in 0 .. Modulus - 1 : \E k \in 0 .. x : asked = Call("binomial", x, k, Binomial(x, k))

\* For every width, floor2 and ceil2 give the nearest powers of two, and
\* binomial the number of subsets, as NumbersAreRight says.
THEOREM NumbersRight == NumbersInit /\ [][NumbersNext]_asked => []NumbersAreRight
<1>1. Modulus \in Nat \ {0}
  BY PowersAre, WidthAssumption DEF Modulus
<1>2. NumbersInit => Answered
  <2>1. Floor2(0) = 0
    <3> DEFINE Stops == {i \in 0 .. W : Cleared(0, i) \in {0, TwoTo[i]}}
    <3>1. ASSUME NEW i \in 0 .. W PROVE Cleared(0, i) = 0
      BY PowersAre DEF Cleared
    <3>2. 0 \in Stops /\ Stops \in SUBSET Nat
      BY <3>1, WidthAssumption
    <3>3. Min(Stops) \in Stops
      BY <3>2, MinIs
    <3>4. QED  BY <3>1, <3>3 DEF Floor2
  <2>2. QED  BY <1>1, <2>1 DEF NumbersInit, Answered
<1>3. Answered /\ [NumbersNext]_asked => Answered'
  <2> SUFFICES ASSUME Answered, [NumbersNext]_asked PROVE Answered'
    OBVIOUS
  <2>1. CASE asked' = asked
    BY <2>1 DEF Answered
  <2>2. CASE NumbersNext
    BY <2>2 DEF NumbersNext, Answered
  <2>3. QED  BY <2>1, <2>2
<1>4. Answered => NumbersAreRight
  <2>1. ASSUME NEW x \in 0 .. Modulus - 1, asked = Call("floor2", x, 0, Floor2(x)) PROVE NumbersAreRight
    <3>1. asked.f = "floor2" /\ asked.x = x /\ asked.z = Floor2(x)
      BY <2>1 DEF Call
    <3>2. x # 0 => IsPower(Floor2(x)) /\ Floor2(x) <= x /\ x < 2 * Floor2(x)
      BY <1>1, FloorIs DEF IsPower
    <3>3. QED  BY <3>1, <3>2 DEF NumbersAreRight, PowersAreNearest, BinomialCounts
  <2>2. ASSUME NEW x \in 0 .. Modulus - 1, asked = Call("ceil2", x, 0, Ceil2(x)) PROVE NumbersAreRight
    <3>1. asked.f = "ceil2" /\ asked.x = x /\ asked.z = Ceil2(x)
      BY <2>2 DEF Call
    <3>2. x # 0 => IF x > Modulus \div 2 THEN Ceil2(x) = 0
                   ELSE IsPower(Ceil2(x)) /\ x <= Ceil2(x) /\ Ceil2(x) < 2 * x
      BY <1>1, CeilIs
    <3>3. QED  BY <3>1, <3>2 DEF NumbersAreRight, PowersAreNearest, BinomialCounts
  <2>3. ASSUME NEW x \in 0 .. Modulus - 1, NEW k \in 0 .. x, asked = Call("binomial", x, k, Binomial(x, k))
        PROVE  NumbersAreRight
    <3>1. asked.f = "binomial" /\ asked.x = x /\ asked.y = k /\ asked.z = Binomial(x, k)
      BY <2>3 DEF Call
    <3>2. Binomial(x, k) = Cardinality(kSubset(k, 1 .. x)) % Modulus
      BY <1>1, BinomialIs DEF Chosen
    <3>3. QED  BY <3>1, <3>2 DEF NumbersAreRight, PowersAreNearest, BinomialCounts
  <2>4. QED  BY <2>1, <2>2, <2>3 DEF Answered
<1>5. QED  BY <1>2, <1>3, <1>4, PTL

-----------------------------------------------------------------------------
(* Durations and points in time.                                           *)

\* A unit is named by one factor only.
LEMMA FactorIs ==
  ASSUME NEW i \in DOMAIN Units
  PROVE  Units[i].factor \in Nat \ {0} /\ FactorOf(UnitName(i)) = Units[i].factor
<1> DEFINE j == CHOOSE k \in DOMAIN Units : UnitName(k) = UnitName(i)
<1>1. j \in DOMAIN Units /\ UnitName(j) = UnitName(i)
  OBVIOUS
<1>2. j = i
  <2> HIDE DEF j
  <2>1. QED  BY <1>1, UnitsAssumption DEF UnitName
<1>3. Units[i].factor \in Nat \ {0}
  <2> DEFINE S == [name : STRING, factor : Nat \ {0}]
  <2>1. Units \in Seq(S)
    BY UnitsAssumption
  <2>2. Units[i] \in S
    <3> HIDE DEF S
    <3>1. DOMAIN Units = 1 .. Len(Units)
      BY <2>1
    <3>2. QED  BY <2>1, <3>1, ElementOfSeq
  <2>3. QED  BY <2>2
<1>4. FactorOf(UnitName(i)) = Units[j].factor
  BY DEF FactorOf
<1> HIDE DEF j
<1>5. QED  BY <1>2, <1>3, <1>4

\* A double holds a number up to Exact, in ones or in halves.
LEMMA DoubleIs ==
  ASSUME NEW n \in Nat, n <= Exact \/ (n % 2 = 0 /\ n <= Exact * 2)
  PROVE  Double(n) = n
<1> DEFINE Fits(g) == g \in Gaps /\ n <= Exact * g /\ \A h \in Gaps : n <= Exact * h => g <= h
           gap == CHOOSE g \in Gaps : n <= Exact * g /\ \A h \in Gaps : n <= Exact * h => g <= h
<1>0. Exact \in Nat \ {0}
  BY UnitsAssumption
<1>1. 1 \in Gaps /\ 2 \in Gaps /\ \A g \in Gaps : g \in Nat /\ g >= 1
  BY DEF Gaps
<1>2. CASE n <= Exact
  <2>1. Fits(1)
    BY <1>0, <1>1, <1>2
  <2>2. Fits(gap)
    BY <2>1
  <2>3. gap = 1
    <3>1. gap \in Nat /\ gap <= 1 /\ gap >= 1
      <4> HIDE DEF gap
      <4>1. QED  BY <2>1, <2>2, <1>1
    <3>2. QED  BY <3>1
  <2>4. Double(n) = LET below == n \div gap rest == 2 * (n % gap)
                    IN gap * IF rest > gap \/ (rest = gap /\ below % 2 = 1) THEN below + 1 ELSE below
    BY DEF Double
  <2> HIDE DEF gap
  <2>5. QED  BY <2>3, <2>4
<1>3. CASE ~(n <= Exact)
  <2>1. n % 2 = 0 /\ Fits(2)
    <3>1. \A h \in Gaps : n <= Exact * h => 2 <= h
      <4> SUFFICES ASSUME NEW h \in Gaps, n <= Exact * h, h = 1 PROVE FALSE
        BY <1>1
      <4>1. QED  BY <1>0, <1>3
    <3>2. QED  BY <1>0, <1>1, <1>3, <3>1
  <2>2. Fits(gap)
    BY <2>1
  <2>3. gap = 2
    <3>1. gap \in Nat /\ gap <= 2 /\ gap >= 2
      <4> HIDE DEF gap
      <4>1. QED  BY <2>1, <2>2, <1>1
    <3>2. QED  BY <3>1
  <2>4. Double(n) = LET below == n \div gap rest == 2 * (n % gap)
                    IN gap * IF rest > gap \/ (rest = gap /\ below % 2 = 1) THEN below + 1 ELSE below
    BY DEF Double
  <2> HIDE DEF gap
  <2>5. QED  BY <2>1, <2>3, <2>4
<1>4. QED  BY <1>2, <1>3

\* A duration is written as a number of some unit.
LEMMA InUnitsIs ==
  ASSUME NEW c \in Int, c # 0
  PROVE  \E i \in DOMAIN Units :
           /\ c % Units[i].factor = 0
           /\ InUnits(c) = DurationText(Truncated(c, Units[i].factor), UnitName(i))
<1> DEFINE fits == {i \in DOMAIN Units : c % Units[i].factor = 0}
           best == CHOOSE i \in fits : \A j \in fits : i <= j
<1>1. Len(Units) \in Nat \ {0} /\ DOMAIN Units = 1 .. Len(Units) /\ Units[Len(Units)].factor = 1
  BY UnitsAssumption
<1>2. Len(Units) \in fits
  BY <1>1
<1>3. fits \in SUBSET Nat /\ fits # {}
  BY <1>1, <1>2
<1>4. \E i \in fits : \A j \in fits : i <= j
  <2> HIDE DEF fits
  <2>1. QED  BY <1>3, MinIs
<1>5. best \in fits
  BY <1>4
<1>6. InUnits(c) = DurationText(Truncated(c, Units[best].factor), UnitName(best))
  BY DEF InUnits
<1> HIDE DEF best
<1>7. QED  BY <1>5, <1>6

\* Quotient and remainder of a number.
LEMMA Divided ==
  ASSUME NEW b \in Nat \ {0}, NEW a \in Int
  PROVE  a % b \in 0 .. b - 1 /\ a \div b \in Int /\ a = b * (a \div b) + (a % b)
<1>1. a % b \in 0 .. b - 1
  OBVIOUS
<1>2. a \div b \in Int
  OBVIOUS
<1>3. a % b = a - b * (a \div b)
  OBVIOUS
<1>4. b * (a \div b) \in Int
  BY <1>2
<1>5. ASSUME NEW x, NEW z, x \in 0 .. b - 1, z \in Int, x = a - z PROVE a = z + x
  BY <1>5
<1>6. a = b * (a \div b) + (a % b)
  BY <1>1, <1>3, <1>4, <1>5
<1>7. QED  BY <1>1, <1>2, <1>6

\* A number of a unit is taken apart without loss, and keeps its sign.
LEMMA TruncatedIs ==
  ASSUME NEW c \in Int, NEW f \in Nat \ {0}, c % f = 0
  PROVE  LET t == Truncated(c, f) IN
         /\ t \in Int /\ t * f = c
         /\ c >= 0 => t \in 0 .. c
         /\ c < 0 => t < 0
<1> DEFINE q == (-c) \div f
           k == c \div f
           r == (-c) % f
<1>1. q \in Int /\ r \in 0 .. f - 1 /\ -c = f * q + r
  <2>1. -c \in Int
    OBVIOUS
  <2>2. QED  BY <2>1, Divided
<1>2. k \in Int /\ c = f * k
  BY Divided
<1>3. Truncated(c, f) = IF c >= 0 THEN k ELSE -q
  BY DEF Truncated
<1> HIDE DEF q, k, r
<1>4. f * (q + k) = -r
  <2>1. f * (q + k) = f * q + f * k
    BY <1>1, <1>2
  <2>2. QED  BY <1>1, <1>2, <2>1
<1>5. q + k = 0
  <2>1. q + k >= 1 => f * (q + k) >= f
    BY <1>1, <1>2
  <2>2. q + k <= -1 => f * (q + k) <= -f
    BY <1>1, <1>2
  <2>3. QED  BY <1>1, <1>2, <1>4, <2>1, <2>2
<1>6. k >= 0 => k <= f * k
  BY <1>2
<1>7. k <= -1 => f * k <= -f
  BY <1>2
<1>8. k >= 0 => f * k >= 0
  BY <1>2
<1>9. Truncated(c, f) = k
  BY <1>1, <1>2, <1>3, <1>5
<1>10. k * f = c
  BY <1>2
<1>11. QED  BY <1>2, <1>6, <1>7, <1>8, <1>9, <1>10

\* A duration, as long as it has no more nanoseconds or whole units than a
\* double can count, is read back as it was written.
LEMMA WrittenIsRead ==
  ASSUME NEW c \in 0 .. MaxCount, NEW i \in DOMAIN Units, NEW n \in Nat,
         n * Units[i].factor = c, n <= c,
         c <= Exact \/ UnitName(i) \in WholeUnits
  PROVE  DurationsOf(DurationText(n, UnitName(i))) = {c}
<1> DEFINE s == DurationText(n, UnitName(i))
           f == Units[i].factor
<1>1. s.halves = 2 * n /\ s.unit = UnitName(i)
  BY DEF DurationText
<1>2. f \in Nat \ {0} /\ FactorOf(UnitName(i)) = f
  BY FactorIs
<1>3. Exact \in Nat \ {0} /\ MaxCount \in Nat
  BY UnitsAssumption
<1>4. n <= Exact
  <2>1. CASE c <= Exact
    BY <1>3, <2>1
  <2>2. CASE UnitName(i) \in WholeUnits
    <3>1. MaxCount <= Exact * f
      BY <2>2, UnitsAssumption DEF UnitName
    <3>2. n * f <= Exact * f
      BY <1>2, <1>3, <3>1
    <3> HIDE DEF f
    <3>3. n > Exact => n * f >= Exact * f + f
      <4> SUFFICES ASSUME n > Exact PROVE n * f >= Exact * f + f
        OBVIOUS
      <4>1. n * f >= (Exact + 1) * f
        BY <1>2, <1>3
      <4>2. (Exact + 1) * f = Exact * f + f
        BY <1>2, <1>3
      <4>3. QED  BY <1>2, <1>3, <4>1, <4>2
    <3>4. QED  BY <1>2, <1>3, <3>2, <3>3
  <2>3. QED  BY <2>1, <2>2
<1>5. Double(s.halves) = 2 * n
  <2>1. 2 * n \in Nat /\ (2 * n) % 2 = 0 /\ 2 * n <= Exact * 2
    BY <1>3, <1>4
  <2>2. Double(2 * n) = 2 * n
    BY <2>1, DoubleIs
  <2>3. QED  BY <1>1, <2>2
<1>6. Nanoseconds(s) = c
  <2>1. CASE UnitName(i) \in WholeUnits
    <3>1. (2 * n) \div 2 = n
      OBVIOUS
    <3>2. Nanoseconds(s) = ((2 * n) \div 2) * f
      BY <1>1, <1>2, <1>5, <2>1 DEF Nanoseconds
    <3>3. QED  BY <3>1, <3>2
  <2>2. CASE UnitName(i) \notin WholeUnits
    <3>1. c <= Exact
      BY <2>2
    <3>2. 2 * c \in Nat /\ (2 * c) % 2 = 0 /\ 2 * c <= Exact * 2 /\ (2 * c) \div 2 = c
      BY <1>3, <3>1
    <3>3. Double(2 * c) = 2 * c
      BY <3>2, DoubleIs
    <3>4. (2 * n) * f = 2 * c
      BY <1>2
    <3>5. Nanoseconds(s) = Double((2 * n) * f) \div 2
      BY <1>1, <1>2, <1>5, <2>2 DEF Nanoseconds
    <3> HIDE DEF f
    <3>6. QED  BY <3>2, <3>3, <3>4, <3>5
  <2>3. QED  BY <2>1, <2>2
<1>7. QED  BY <1>3, <1>6 DEF DurationsOf

\* Every duration is written without loss, and read back without if it can be.
LEMMA DurationSurvives ==
  ASSUME duration \in (-MaxCount - 1) .. MaxCount
  PROVE  DurationIsReadBack
<1> DEFINE s == InUnits(duration)
<1>1. MaxCount \in Nat /\ Exact \in Nat \ {0}
  BY UnitsAssumption
<1>2. duration \in Int /\ duration <= MaxCount
  BY <1>1
<1>3. \E i \in DOMAIN Units, n \in Int :
        /\ s = DurationText(n, UnitName(i)) /\ n * Units[i].factor = duration
        /\ duration >= 0 => n \in 0 .. duration
        /\ duration < 0 => n < 0
  <2>1. CASE duration = 0
    <3>1. PICK i \in DOMAIN Units : UnitName(i) = "s"
      BY UnitsAssumption DEF UnitName
    <3>2. s = DurationText(0, UnitName(i))
      BY <2>1, <3>1 DEF InUnits
    <3>3. 0 * Units[i].factor = 0
      BY FactorIs
    <3> HIDE DEF s
    <3>4. QED  BY <2>1, <3>2, <3>3
  <2>2. CASE duration # 0
    <3>1. PICK i \in DOMAIN Units :
            /\ duration % Units[i].factor = 0
            /\ s = DurationText(Truncated(duration, Units[i].factor), UnitName(i))
      BY <1>2, <2>2, InUnitsIs
    <3>2. Units[i].factor \in Nat \ {0}
      BY FactorIs
    <3> DEFINE t == Truncated(duration, Units[i].factor)
    <3>3. /\ t \in Int /\ t * Units[i].factor = duration
          /\ duration >= 0 => t \in 0 .. duration
          /\ duration < 0 => t < 0
      BY <1>2, <3>1, <3>2, TruncatedIs
    <3> HIDE DEF t, s
    <3>4. QED  BY <3>1, <3>3 DEF t
  <2>3. QED  BY <2>1, <2>2
<1>4. PICK i \in DOMAIN Units, n \in Int :
        /\ s = DurationText(n, UnitName(i)) /\ n * Units[i].factor = duration
        /\ duration >= 0 => n \in 0 .. duration
        /\ duration < 0 => n < 0
  BY <1>3
<1>5. s.halves = 2 * n /\ s.unit = UnitName(i)
  BY <1>4 DEF DurationText
<1>6. IsDurationText(s) <=> duration >= 0
  <2> HIDE DEF s
  <2>1. QED  BY <1>2, <1>4, <1>5 DEF IsDurationText
<1>7. ASSUME duration \in 0 .. Exact \/ (duration >= 0 /\ s.unit \in WholeUnits)
      PROVE  DurationsOf(s) = {duration}
  <2>1. duration \in 0 .. MaxCount /\ n \in Nat /\ n <= duration
    BY <1>1, <1>2, <1>4, <1>7
  <2>2. duration <= Exact \/ UnitName(i) \in WholeUnits
    BY <1>1, <1>5, <1>7
  <2>3. PICK c : c = duration
    OBVIOUS
  <2>4. DurationsOf(DurationText(n, UnitName(i))) = {c}
    BY <1>4, <2>1, <2>2, <2>3, WrittenIsRead
  <2>5. QED  BY <1>4, <2>3, <2>4
<1>8. QED  BY <1>6, <1>7 DEF DurationIsReadBack

-----------------------------------------------------------------------------
(* Points in time.                                                         *)

\* A dash makes the first word the date.
LEMMA ReadDate ==
  ASSUME NEW ws, Len(ws) \in Nat, NEW i \in 1 .. Len(ws), NEW ok, ws[i].dash
  PROVE  ReadWord(ws, i, Looking("Date", Parts(ok, 0, 0, 0))) = Looking("Time", Parts(ok, i, 0, 0))
<1> DEFINE found == Parts(ok, 0, 0, 0)
           at == Looking("Date", found)
<1>1. [found EXCEPT !.date = i] = Parts(ok, i, 0, 0) /\ found.date = 0
  BY DEF Parts
<1>2. at.part = "Date" /\ at.found = found
  BY DEF Looking
<1> HIDE DEF found, at
<1>3. ReadWord(ws, i, at) = Looking("Time", [at.found EXCEPT !.date = i])
  BY <1>1, <1>2 DEF ReadWord
<1>4. QED  BY <1>1, <1>2, <1>3 DEF found, at

\* A colon makes the first word the time, without a dash.
LEMMA ReadTimeFirst ==
  ASSUME NEW ws, Len(ws) \in Nat, NEW i \in 1 .. Len(ws), NEW ok, ~ws[i].dash, ws[i].colon
  PROVE  ReadWord(ws, i, Looking("Date", Parts(ok, 0, 0, 0))) = Looking("TimeZone", Parts(ok, 0, i, 0))
<1> DEFINE found == Parts(ok, 0, 0, 0)
           at == Looking("Date", found)
<1>1. [found EXCEPT !.time = i] = Parts(ok, 0, i, 0) /\ found.date = 0
  BY DEF Parts
<1>2. at.part = "Date" /\ at.found = found
  BY DEF Looking
<1> HIDE DEF found, at
<1>3. ReadWord(ws, i, at) = Looking("TimeZone", [at.found EXCEPT !.time = i])
  BY <1>1, <1>2 DEF ReadWord
<1>4. QED  BY <1>1, <1>2, <1>3 DEF found, at

\* A colon makes the word after the date the time.
LEMMA ReadTime ==
  ASSUME NEW ws, Len(ws) \in Nat, NEW i \in 1 .. Len(ws), NEW ok, ws[i].colon
  PROVE  ReadWord(ws, i, Looking("Time", Parts(ok, 1, 0, 0))) = Looking("TimeZone", Parts(ok, 1, i, 0))
<1> DEFINE found == Parts(ok, 1, 0, 0)
           at == Looking("Time", found)
<1>1. [found EXCEPT !.time = i] = Parts(ok, 1, i, 0) /\ found.date = 1
  BY DEF Parts
<1>2. at.part = "Time" /\ at.found = found
  BY DEF Looking
<1> HIDE DEF found, at
<1>3. ReadWord(ws, i, at) = Looking("TimeZone", [at.found EXCEPT !.time = i])
  BY <1>1, <1>2 DEF ReadWord
<1>4. QED  BY <1>1, <1>2, <1>3 DEF found, at

\* Another word after the date is the time zone.
LEMMA ReadZone ==
  ASSUME NEW ws, Len(ws) \in Nat, NEW i \in 1 .. Len(ws), NEW ok, ~ws[i].colon
  PROVE  ReadWord(ws, i, Looking("Time", Parts(ok, 1, 0, 0))) = Looking("Invalid", Parts(ok, 1, 0, i))
<1> DEFINE found == Parts(ok, 1, 0, 0)
           at == Looking("Time", found)
<1>1. [found EXCEPT !.zone = i] = Parts(ok, 1, 0, i) /\ found.date = 1
  BY DEF Parts
<1>2. at.part = "Time" /\ at.found = found
  BY DEF Looking
<1> HIDE DEF found, at
<1>3. ReadWord(ws, i, at) = Looking("Invalid", [at.found EXCEPT !.zone = i])
  BY <1>1, <1>2 DEF ReadWord
<1>4. QED  BY <1>1, <1>2, <1>3 DEF found, at

\* The word after the time is the time zone.
LEMMA ReadZoneLast ==
  ASSUME NEW ws, Len(ws) \in Nat, NEW i \in 1 .. Len(ws), NEW ok, NEW date \in Nat, NEW time \in Nat
  PROVE  ReadWord(ws, i, Looking("TimeZone", Parts(ok, date, time, 0))) = Looking("Invalid", Parts(ok, date, time, i))
<1> DEFINE found == Parts(ok, date, time, 0)
           at == Looking("TimeZone", found)
<1>1. [found EXCEPT !.zone = i] = Parts(ok, date, time, i) /\ found.date = date
  BY DEF Parts
<1>2. at.part = "TimeZone" /\ at.found = found
  BY DEF Looking
<1> HIDE DEF found, at
<1>3. ReadWord(ws, i, at) = Looking("Invalid", [at.found EXCEPT !.zone = i])
  BY <1>1, <1>2 DEF ReadWord
<1>4. QED  BY <1>1, <1>2, <1>3 DEF found, at

\* The first word has to be a date or a time.
LEMMA ReadNeither ==
  ASSUME NEW ws, Len(ws) \in Nat, NEW i \in 1 .. Len(ws), NEW ok, ~ws[i].dash, ~ws[i].colon
  PROVE  ReadWord(ws, i, Looking("Date", Parts(ok, 0, 0, 0))) = Looking("Invalid", Nowhere)
<1> DEFINE found == Parts(ok, 0, 0, 0)
           at == Looking("Date", found)
<1>1. found.date = 0
  BY DEF Parts
<1>2. at.part = "Date" /\ at.found = found
  BY DEF Looking
<1> HIDE DEF found, at
<1>3. ReadWord(ws, i, at) = Looking("Invalid", Nowhere)
  BY <1>1, <1>2 DEF ReadWord
<1>4. QED  BY <1>3 DEF found, at

\* No word follows the time zone.
LEMMA ReadTooMany ==
  ASSUME NEW ws, Len(ws) \in Nat, NEW i \in 1 .. Len(ws), NEW ok, NEW date, NEW time, NEW zone
  PROVE  ReadWord(ws, i, Looking("Invalid", Parts(ok, date, time, zone))) = Looking("Invalid", Nowhere)
<1> DEFINE found == Parts(ok, date, time, zone)
           at == Looking("Invalid", found)
<1>1. found.date = date
  BY DEF Parts
<1>2. at.part = "Invalid" /\ at.found = found
  BY DEF Looking
<1> HIDE DEF found, at
<1>3. ReadWord(ws, i, at) = Looking("Invalid", Nowhere)
  BY <1>1, <1>2 DEF ReadWord
<1>4. QED  BY <1>3 DEF found, at

\* Without a word there is no turn.
LEMMA ReadNoWord ==
  ASSUME NEW ws, Len(ws) \in Nat, NEW i \in Nat, i > Len(ws), NEW at
  PROVE  ReadWord(ws, i, at) = at
BY DEF ReadWord

\* The parts of up to three words, one word after the other.
LEMMA PartsAre ==
  ASSUME NEW ws \in Seq([dash : BOOLEAN, colon : BOOLEAN]), Len(ws) \in 1 .. 3
  PROVE  LET dated == ws[1].dash
             next == IF dated THEN 2 ELSE 1
             timed == next <= Len(ws) /\ ws[next].colon
             used == next - 1 + IF timed THEN 1 ELSE 0
         IN PartsOf(ws) = IF (dated \/ timed) /\ Len(ws) <= used + 1
                          THEN Parts(TRUE, IF dated THEN 1 ELSE 0, IF timed THEN next ELSE 0,
                                     IF Len(ws) > used THEN Len(ws) ELSE 0)
                          ELSE Nowhere
<1>0. PICK ok : ok = TRUE
  OBVIOUS
<1> DEFINE a == ReadWord(ws, 1, Looking("Date", Parts(ok, 0, 0, 0)))
           b == ReadWord(ws, 2, a)
           c == ReadWord(ws, 3, b)
           dated == ws[1].dash
           next == IF dated THEN 2 ELSE 1
           timed == next <= Len(ws) /\ ws[next].colon
           used == next - 1 + IF timed THEN 1 ELSE 0
           first == IF dated THEN 1 ELSE 0
           second == IF timed THEN next ELSE 0
           third == IF Len(ws) > used THEN Len(ws) ELSE 0
           fit == (dated \/ timed) /\ Len(ws) <= used + 1
<1>1. PartsOf(ws) = c.found
  BY <1>0, Zenon DEF PartsOf
<1>2. \A p, f : Looking(p, f).found = f
  BY DEF Looking
<1>3. /\ Len(ws) \in Nat /\ (Len(ws) < 2 => b = a) /\ (Len(ws) < 3 => c = b)
      /\ a = ReadWord(ws, 1, Looking("Date", Parts(ok, 0, 0, 0)))
      /\ b = ReadWord(ws, 2, a) /\ c = ReadWord(ws, 3, b)
  <2>1. Len(ws) \in Nat
    OBVIOUS
  <2> HIDE DEF a
  <2>2. Len(ws) < 2 => b = a
    BY <2>1, ReadNoWord
  <2> HIDE DEF b
  <2>3. Len(ws) < 3 => c = b
    BY <2>1, ReadNoWord
  <2>4. QED  BY <2>1, <2>2, <2>3 DEF a, b
<1> HIDE DEF a, b, c
<1> SUFFICES PartsOf(ws) = IF fit THEN Parts(ok, first, second, third) ELSE Nowhere
  BY <1>0, Zenon
<1>4. CASE ws[1].dash
  <2>1. a = Looking("Time", Parts(ok, 1, 0, 0))
    BY <1>3, <1>4, ReadDate
  <2>2. CASE Len(ws) = 1
    <3>1. fit /\ first = 1 /\ second = 0 /\ third = 0
      BY <1>3, <1>4, <2>2
    <3>2. PartsOf(ws) = Parts(ok, 1, 0, 0)
      BY <1>1, <1>2, <1>3, <2>1, <2>2
    <3> HIDE DEF fit, first, second, third
    <3>3. QED  BY <3>1, <3>2
  <2>3. CASE Len(ws) \in 2 .. 3 /\ ws[2].colon
    <3>1. b = Looking("TimeZone", Parts(ok, 1, 2, 0))
      BY <1>3, <2>1, <2>3, ReadTime
    <3>2. CASE Len(ws) = 2
      <4>1. fit /\ first = 1 /\ second = 2 /\ third = 0
        BY <1>3, <1>4, <2>3, <3>2
      <4>2. PartsOf(ws) = Parts(ok, 1, 2, 0)
        BY <1>1, <1>2, <1>3, <3>1, <3>2
      <4> HIDE DEF fit, first, second, third
      <4>3. QED  BY <4>1, <4>2
    <3>3. CASE Len(ws) = 3
      <4>0. c = Looking("Invalid", Parts(ok, 1, 2, 3))
        <5>1. c = ReadWord(ws, 3, Looking("TimeZone", Parts(ok, 1, 2, 0))) /\ 3 \in 1 .. Len(ws) /\ Len(ws) \in Nat
          BY <1>3, <3>1, <3>3
        <5>2. QED  BY <5>1, ReadZoneLast
      <4>1. fit /\ first = 1 /\ second = 2 /\ third = 3
        BY <1>3, <1>4, <2>3, <3>3
      <4>2. PartsOf(ws) = Parts(ok, 1, 2, 3)
        BY <1>1, <1>2, <1>3, <4>0
      <4> HIDE DEF fit, first, second, third
      <4>3. QED  BY <4>1, <4>2
    <3>4. QED  BY <2>3, <3>2, <3>3
  <2>4. CASE Len(ws) \in 2 .. 3 /\ ~ws[2].colon
    <3>1. b = Looking("Invalid", Parts(ok, 1, 0, 2))
      BY <1>3, <2>1, <2>4, ReadZone
    <3>2. CASE Len(ws) = 2
      <4>1. fit /\ first = 1 /\ second = 0 /\ third = 2
        BY <1>3, <1>4, <2>4, <3>2
      <4>2. PartsOf(ws) = Parts(ok, 1, 0, 2)
        BY <1>1, <1>2, <1>3, <3>1, <3>2
      <4> HIDE DEF fit, first, second, third
      <4>3. QED  BY <4>1, <4>2
    <3>3. CASE Len(ws) = 3
      <4>0. c = Looking("Invalid", Nowhere)
        BY <1>3, <3>1, <3>3, ReadTooMany
      <4>1. ~fit
        BY <1>3, <1>4, <2>4, <3>3
      <4>2. PartsOf(ws) = Nowhere
        BY <1>1, <1>2, <1>3, <4>0
      <4> HIDE DEF fit, first, second, third
      <4>3. QED  BY <4>1, <4>2
    <3>4. QED  BY <2>4, <3>2, <3>3
  <2>5. QED  BY <1>3, <2>2, <2>3, <2>4
<1>5. CASE ~ws[1].dash /\ ws[1].colon
  <2>1. a = Looking("TimeZone", Parts(ok, 0, 1, 0))
    BY <1>3, <1>5, ReadTimeFirst
  <2>2. CASE Len(ws) = 1
    <3>1. fit /\ first = 0 /\ second = 1 /\ third = 0
      BY <1>3, <1>5, <2>2
    <3>2. PartsOf(ws) = Parts(ok, 0, 1, 0)
      BY <1>1, <1>2, <1>3, <2>1, <2>2
    <3> HIDE DEF fit, first, second, third
    <3>3. QED  BY <3>1, <3>2
  <2>3. CASE Len(ws) \in 2 .. 3
    <3>1. b = Looking("Invalid", Parts(ok, 0, 1, 2))
      BY <1>3, <2>1, <2>3, ReadZoneLast
    <3>2. CASE Len(ws) = 2
      <4>1. fit /\ first = 0 /\ second = 1 /\ third = 2
        BY <1>3, <1>5, <2>3, <3>2
      <4>2. PartsOf(ws) = Parts(ok, 0, 1, 2)
        BY <1>1, <1>2, <1>3, <3>1, <3>2
      <4> HIDE DEF fit, first, second, third
      <4>3. QED  BY <4>1, <4>2
    <3>3. CASE Len(ws) = 3
      <4>0. c = Looking("Invalid", Nowhere)
        BY <1>3, <3>1, <3>3, ReadTooMany
      <4>1. ~fit
        BY <1>3, <1>5, <2>3, <3>3
      <4>2. PartsOf(ws) = Nowhere
        BY <1>1, <1>2, <1>3, <4>0
      <4> HIDE DEF fit, first, second, third
      <4>3. QED  BY <4>1, <4>2
    <3>4. QED  BY <2>3, <3>2, <3>3
  <2>4. QED  BY <1>3, <2>2, <2>3
<1>6. CASE ~ws[1].dash /\ ~ws[1].colon
  <2>1. a = Looking("Invalid", Nowhere)
    BY <1>3, <1>6, ReadNeither
  <2>2. \A i \in 1 .. Len(ws) : ReadWord(ws, i, Looking("Invalid", Nowhere)) = Looking("Invalid", Nowhere)
    BY <1>3, ReadTooMany DEF Nowhere
  <2>3. c = Looking("Invalid", Nowhere)
    <3>1. b = Looking("Invalid", Nowhere)
      BY <1>3, <2>1, <2>2
    <3>2. QED  BY <1>3, <2>2, <3>1
  <2>4. ~fit
    BY <1>3, <1>6
  <2>5. PartsOf(ws) = Nowhere
    BY <1>1, <1>2, <2>3
  <2> HIDE DEF fit
  <2>6. QED  BY <2>4, <2>5
<1>7. QED  BY <1>4, <1>5, <1>6

\* The words are taken for the parts that they stand for, in their order.
LEMMA WordsFit ==
  ASSUME words \in Seq([dash : BOOLEAN, colon : BOOLEAN])
  PROVE  PartsFit
<1> DEFINE dated == words # <<>> /\ words[1].dash
           next == IF dated THEN 2 ELSE 1
           timed == next <= Len(words) /\ words[next].colon
           used == next - 1 + IF timed THEN 1 ELSE 0
           parts == Parts(TRUE, IF dated THEN 1 ELSE 0, IF timed THEN next ELSE 0,
                          IF Len(words) > used THEN Len(words) ELSE 0)
           fit == (dated \/ timed) /\ Len(words) <= used + 1
<1>1. Len(words) \in Nat /\ (Len(words) # 0 <=> words # <<>>)
  OBVIOUS
<1>2. PartsOf(words) = IF Len(words) \in 1 .. 3 /\ fit THEN parts ELSE Nowhere
  <2>1. CASE Len(words) \in 1 .. 3
    <3>1. PICK ws : ws = words
      OBVIOUS
    <3>2. words # <<>>
      BY <1>1, <2>1
    <3>3. QED  BY <2>1, <3>1, <3>2, PartsAre
  <2>2. CASE Len(words) \notin 1 .. 3
    BY <2>2 DEF PartsOf
  <2>3. QED  BY <2>1, <2>2
<1>3. parts.ok /\ ~Nowhere.ok
  BY DEF Parts, Nowhere
<1>4. PartsFit <=> /\ PartsOf(words).ok <=> Len(words) \in 1 .. 3 /\ fit
                   /\ PartsOf(words).ok => PartsOf(words) = parts
  BY DEF PartsFit
<1> HIDE DEF fit, parts
<1>5. QED  BY <1>2, <1>3, <1>4

-----------------------------------------------------------------------------
\* What holds of every text besides: durations are numbers of nanoseconds, and
\* a point in time has words.
TimeTypes ==
  /\ duration \in (-MaxCount - 1) .. MaxCount
  /\ words \in Seq([dash : BOOLEAN, colon : BOOLEAN])

\* Durations and points in time mean what they were written as, for any units,
\* any longest duration and any precision of a double.
THEOREM TimesSurvive == TextSpec => []TimesSurviveText
<1>1. TextInit => TimeTypes
  <2> SUFFICES ASSUME TextInit PROVE TimeTypes
    OBVIOUS
  <2>1. duration = 0 /\ words = <<>>
    BY DEF TextInit, DurationInit, WordsInit
  <2>2. MaxCount \in Nat
    BY UnitsAssumption
  <2>3. QED  BY <2>1, <2>2 DEF TimeTypes
<1>2. TimeTypes /\ [TextNext]_TextVars => TimeTypes'
  <2> SUFFICES ASSUME TimeTypes, [TextNext]_TextVars PROVE TimeTypes'
    OBVIOUS
  <2>1. MaxCount \in Nat
    BY UnitsAssumption
  <2>2. CASE DurationNext /\ UNCHANGED <<pathVars, words>>
    <3>1. words' = words
      BY <2>2
    <3>2. duration' \in (-MaxCount - 1) .. MaxCount
      <4>1. CASE WriteDuration
        BY <4>1 DEF WriteDuration, TimeTypes
      <4>2. CASE ReadDuration
        <5>1. DurationsOf(written) \subseteq (-MaxCount - 1) .. MaxCount
          BY <2>1 DEF DurationsOf
        <5>2. QED  BY <4>2, <5>1 DEF ReadDuration
      <4>3. ASSUME NEW count \in (-MaxCount - 1) .. MaxCount, SetDuration(count)
            PROVE  duration' \in (-MaxCount - 1) .. MaxCount
        BY <4>3 DEF SetDuration
      <4>4. ASSUME NEW halves \in 0 .. MaxHalves, NEW i \in DOMAIN Units, TypeDuration(halves, i)
            PROVE  duration' \in (-MaxCount - 1) .. MaxCount
        BY <4>4 DEF TypeDuration, TimeTypes
      <4>5. QED  BY <2>2, <4>1, <4>2, <4>3, <4>4 DEF DurationNext
    <3>3. QED  BY <3>1, <3>2 DEF TimeTypes
  <2>3. CASE WordsNext /\ UNCHANGED <<pathVars, durationVars>>
    <3>1. duration' = duration
      BY <2>3 DEF durationVars
    <3>2. PICK dash \in BOOLEAN, colon \in BOOLEAN : words' = Append(words, Word(dash, colon))
      BY <2>3 DEF WordsNext
    <3> DEFINE S == [dash : BOOLEAN, colon : BOOLEAN]
    <3>3. Word(dash, colon) \in S
      BY Zenon DEF Word
    <3>4. words \in Seq(S)
      BY DEF TimeTypes
    <3> HIDE DEF S
    <3>5. words' \in Seq(S)
      BY <3>2, <3>3, <3>4
    <3>6. QED  BY <3>1, <3>5 DEF TimeTypes, S
  <2>4. CASE (PathNext /\ UNCHANGED <<durationVars, words>>) \/ UNCHANGED TextVars
    BY <2>4 DEF durationVars, TextVars, TimeTypes
  <2>5. QED  BY <2>2, <2>3, <2>4 DEF TextNext
<1>3. TimeTypes => TimesSurviveText
  BY DurationSurvives, WordsFit DEF TimeTypes, TimesSurviveText
<1>4. QED  BY <1>1, <1>2, <1>3, PTL DEF TextSpec

-----------------------------------------------------------------------------
(* Paths and their texts.                                                  *)

\* A sequence comes apart at its last element, and together again.
LEMMA AtLast ==
  ASSUME NEW S, NEW s \in Seq(S), s # <<>>
  PROVE  /\ Front(s) \in Seq(S) /\ Last(s) \in S
         /\ s = Append(Front(s), Last(s)) /\ Len(Front(s)) = Len(s) - 1
         /\ \A i \in 1 .. Len(s) - 1 : Front(s)[i] = s[i]
<1>1. Len(s) \in Nat \ {0}
  BY EmptySeq
<1>2. /\ Front(s) \in Seq(S) /\ Len(Front(s)) = Len(s) - 1
      /\ \A i \in 1 .. Len(s) - 1 : Front(s)[i] = s[i]
  <2>1. PICK n \in Nat : n = Len(s) - 1
    BY <1>1
  <2>2. Front(s) = SubSeq(s, 1, n)
    BY <2>1 DEF Front
  <2>3. \A i \in 1 .. n : s[i] \in S
    BY <1>1, <2>1, ElementOfSeq
  <2>4. /\ SubSeq(s, 1, n) \in Seq(S)
        /\ Len(SubSeq(s, 1, n)) = IF 1 <= n THEN n - 1 + 1 ELSE 0
        /\ \A i \in 1 .. n - 1 + 1 : SubSeq(s, 1, n)[i] = s[1 + i - 1]
    BY <2>3, SubSeqProperties
  <2>5. Len(SubSeq(s, 1, n)) = n /\ \A i \in 1 .. n : SubSeq(s, 1, n)[i] = s[i]
    <3>1. n - 1 + 1 = n /\ \A i \in 1 .. n : 1 + i - 1 = i
      OBVIOUS
    <3>2. QED  BY <2>4, <3>1
  <2>6. QED  BY <2>1, <2>2, <2>4, <2>5
<1>3. Last(s) = s[Len(s)] /\ Last(s) \in S
  BY <1>1, ElementOfSeq DEF Last
<1>4. s = Append(Front(s), Last(s))
  <2> DEFINE f == Front(s)
             l == Last(s)
  <2>1. /\ Append(f, l) \in Seq(S) /\ Len(Append(f, l)) = Len(s)
        /\ \A i \in 1 .. Len(s) : Append(f, l)[i] = IF i = Len(s) THEN l ELSE f[i]
    <3> HIDE DEF f, l
    <3>1. f \in Seq(S) /\ l \in S /\ Len(f) = Len(s) - 1
      BY <1>2, <1>3 DEF f, l
    <3>2. QED  BY <1>1, <3>1
  <2>2. \A i \in 1 .. Len(s) : Append(f, l)[i] = s[i]
    BY <1>1, <1>2, <1>3, <2>1
  <2> HIDE DEF f, l
  <2>3. s = Append(f, l)
    BY <2>1, <2>2, SeqEqual
  <2>4. QED  BY <2>3 DEF f, l
<1>5. QED  BY <1>2, <1>3, <1>4

\* What is appended is taken off again.
LEMMA OffLast ==
  ASSUME NEW S, NEW s \in Seq(S), NEW c \in S
  PROVE  /\ Append(s, c) \in Seq(S) /\ Append(s, c) # <<>> /\ Len(Append(s, c)) = Len(s) + 1
         /\ Front(Append(s, c)) = s /\ Last(Append(s, c)) = c
         /\ \A i \in 1 .. Len(s) : Append(s, c)[i] = s[i]
         /\ Append(s, c)[Len(s) + 1] = c
<1> DEFINE t == Append(s, c)
<1>1. /\ t \in Seq(S) /\ Len(t) = Len(s) + 1 /\ Len(s) \in Nat
      /\ \A i \in 1 .. Len(s) : t[i] = s[i]
      /\ t[Len(s) + 1] = c
  OBVIOUS
<1>2. t # <<>>
  BY <1>1
<1> HIDE DEF t
<1>3. Front(t) = s
  <2>1. Front(t) \in Seq(S) /\ Len(Front(t)) = Len(t) - 1 /\ \A i \in 1 .. Len(t) - 1 : Front(t)[i] = t[i]
    BY <1>1, <1>2, AtLast
  <2>2. Len(Front(t)) = Len(s) /\ \A i \in 1 .. Len(s) : Front(t)[i] = s[i]
    BY <1>1, <2>1
  <2>3. QED  BY <2>1, <2>2, SeqEqual
<1>4. Last(t) = c
  BY <1>1 DEF Last
<1>5. QED  BY <1>1, <1>2, <1>3, <1>4 DEF t

\* What is appended to the second of two sequences is appended to both.
LEMMA AppendBehind ==
  ASSUME NEW S, NEW s \in Seq(S), NEW t \in Seq(S), NEW c \in S
  PROVE  s \o Append(t, c) = Append(s \o t, c)
<1>1. s \o t \in Seq(S) /\ <<c>> \in Seq(S)
  BY ConcatProperties
<1>2. s \o (t \o <<c>>) = (s \o t) \o <<c>>
  BY <1>1, ConcatAssociative
<1>3. Append(t, c) = t \o <<c>>
  BY AppendIsConcat
<1>4. Append(s \o t, c) = (s \o t) \o <<c>>
  BY <1>1, AppendIsConcat
<1>5. QED  BY <1>2, <1>3, <1>4

\* The first element goes off, and what is behind it stays.
LEMMA OffFirst ==
  ASSUME NEW S, NEW k \in S, NEW s \in Seq(S)
  PROVE  <<k>> \o s \in Seq(S) /\ <<k>> \o s # <<>> /\ Head(<<k>> \o s) = k /\ Tail(<<k>> \o s) = s
<1> DEFINE t == <<k>> \o s
<1>1. <<k>> \in Seq(S) /\ Len(<<k>>) = 1 /\ <<k>>[1] = k /\ Len(s) \in Nat
  OBVIOUS
<1>2. /\ t \in Seq(S) /\ Len(t) = 1 + Len(s)
      /\ \A i \in 1 .. 1 + Len(s) : t[i] = IF i <= 1 THEN <<k>>[i] ELSE s[i - 1]
  BY <1>1, ConcatProperties
<1>3. t # <<>> /\ t[1] = k /\ \A i \in 1 .. Len(s) : t[i + 1] = s[i]
  BY <1>1, <1>2
<1> HIDE DEF t
<1>4. Head(t) = k
  BY <1>2, <1>3
<1>5. Tail(t) = s
  <2>1. Tail(t) \in Seq(S) /\ Len(Tail(t)) = Len(s) /\ \A i \in 1 .. Len(s) : Tail(t)[i] = t[i + 1]
    BY <1>1, <1>2, <1>3, HeadTailProperties
  <2>2. QED  BY <1>3, <2>1, SeqEqual
<1>6. QED  BY <1>2, <1>3, <1>4, <1>5 DEF t

\* A sequence comes apart behind its first element.
LEMMA AtFirst ==
  ASSUME NEW S, NEW s \in Seq(S), s # <<>>
  PROVE  Tail(s) \in Seq(S) /\ s = <<Head(s)>> \o Tail(s)
<1> DEFINE t == Tail(s)
           k == Head(s)
           b == <<k>> \o t
<1>1. /\ k \in S /\ t \in Seq(S) /\ Len(t) = Len(s) - 1 /\ k = s[1] /\ Len(s) \in Nat \ {0}
      /\ \A i \in 1 .. Len(t) : t[i] = s[i + 1]
  BY HeadTailProperties, EmptySeq
<1> HIDE DEF t, k
<1>2. <<k>> \in Seq(S) /\ Len(<<k>>) = 1 /\ <<k>>[1] = k
  BY <1>1
<1>3. /\ b \in Seq(S) /\ Len(b) = 1 + Len(t)
      /\ \A i \in 1 .. 1 + Len(t) : b[i] = IF i <= 1 THEN <<k>>[i] ELSE t[i - 1]
  BY <1>1, <1>2, ConcatProperties
<1>4. Len(b) = Len(s)
  BY <1>1, <1>3
<1>5. ASSUME NEW i \in 1 .. Len(s) PROVE b[i] = s[i]
  <2>1. CASE i = 1
    BY <1>1, <1>2, <1>3, <2>1
  <2>2. CASE i # 1
    <3>1. i - 1 \in 1 .. Len(t) /\ ~(i <= 1) /\ i \in 1 .. 1 + Len(t) /\ (i - 1) + 1 = i
      BY <1>1, <2>2
    <3>2. t[i - 1] = s[i]
      BY <1>1, <3>1
    <3>3. QED  BY <1>3, <3>1, <3>2
  <2>3. QED  BY <2>1, <2>2
<1> HIDE DEF b
<1>6. s = b
  BY <1>3, <1>4, <1>5, SeqEqual
<1>7. QED  BY <1>1, <1>6 DEF b, t, k

-----------------------------------------------------------------------------
\* The two loops over the characters of a text, which Number10 and Segments take
\* the last value of: what they start with, and what a character does.
Start(number) == IF number THEN 0 ELSE << <<>> >>
Turn(number, x, c) ==
  IF number THEN 10 * x + DigitValue(c)
  ELSE IF c = "/" THEN Append(x, <<>>) ELSE Append(Front(x), Append(Last(x), c))
IsScan(number, f, s, n) == f = [i \in 0 .. n |-> IF i = 0 THEN Start(number) ELSE Turn(number, f[i - 1], s[i])]

\* One value of such a loop.
LEMMA ScanIs ==
  ASSUME NEW number, NEW f, NEW s, NEW n \in Nat, IsScan(number, f, s, n), NEW i \in 0 .. n
  PROVE  f[i] = IF i = 0 THEN Start(number) ELSE Turn(number, f[i - 1], s[i])
BY DEF IsScan

\* There is such a function, by induction on how many values it has.
LEMMA ScanExists ==
  ASSUME NEW number, NEW s, NEW n \in Nat
  PROVE  \E f : IsScan(number, f, s, n)
<1> DEFINE T == {m \in Nat : ~\E f : IsScan(number, f, s, m)}
<1>1. ASSUME T # {} PROVE FALSE
  <2> DEFINE m == Min(T)
  <2>1. m \in T /\ \A y \in T : m <= y
    BY <1>1, MinIs
  <2>2. m \in Nat /\ ~\E f : IsScan(number, f, s, m)
    BY <2>1
  <2> HIDE DEF m
  <2>3. m # 0
    <3> DEFINE z == [i \in 0 .. 0 |-> Start(number)]
               y == [i \in 0 .. 0 |-> IF i = 0 THEN Start(number) ELSE Turn(number, z[i - 1], s[i])]
    <3>1. z = y
      OBVIOUS
    <3> HIDE DEF z
    <3>2. IsScan(number, z, s, 0)
      BY <3>1 DEF IsScan
    <3>3. QED  BY <2>2, <3>2
  <2>4. m - 1 \in Nat /\ m - 1 < m
    BY <2>2, <2>3
  <2>5. PICK f : IsScan(number, f, s, m - 1)
    BY <2>1, <2>4
  <2> DEFINE last == Turn(number, f[m - 1], s[m])
             g == [i \in 0 .. m |-> IF i = m THEN last ELSE f[i]]
             h == [i \in 0 .. m |-> IF i = 0 THEN Start(number) ELSE Turn(number, g[i - 1], s[i])]
  <2>6. ASSUME NEW i \in 0 .. m PROVE g[i] = IF i = 0 THEN Start(number) ELSE Turn(number, g[i - 1], s[i])
    <3>1. i # 0 => i - 1 \in 0 .. m /\ i - 1 # m
      BY <2>2
    <3>2. i # 0 => g[i - 1] = f[i - 1]
      BY <3>1
    <3>3. CASE i = m
      BY <2>3, <3>2, <3>3
    <3>4. CASE i # m
      <4>1. i \in 0 .. m - 1
        BY <2>2, <3>4
      <4>2. f[i] = IF i = 0 THEN Start(number) ELSE Turn(number, f[i - 1], s[i])
        BY <2>4, <2>5, <4>1, ScanIs
      <4>3. g[i] = f[i]
        BY <3>4
      <4>4. QED  BY <3>2, <4>2, <4>3
    <3>5. QED  BY <3>3, <3>4
  <2> HIDE DEF last
  <2>7. g = h
    <3>1. \A i \in 0 .. m : g[i] = h[i]
      BY <2>6
    <3>2. QED  BY <3>1
  <2> HIDE DEF g
  <2>8. IsScan(number, g, s, m)
    BY <2>7 DEF IsScan
  <2>9. QED  BY <2>2, <2>8
<1>2. QED  BY <1>1

\* It depends on the characters up to its index only.
LEMMA ScanAgrees ==
  ASSUME NEW number, NEW f, NEW s, NEW n \in Nat, IsScan(number, f, s, n),
         NEW g, NEW t, NEW k \in Nat, IsScan(number, g, t, k),
         n <= k, \A i \in 1 .. n : s[i] = t[i]
  PROVE  \A i \in 0 .. n : f[i] = g[i]
<1> DEFINE T == {i \in 0 .. n : f[i] # g[i]}
<1>1. ASSUME T # {} PROVE FALSE
  <2> DEFINE m == Min(T)
  <2>1. m \in T /\ \A y \in T : m <= y
    BY <1>1, MinIs
  <2>2. m \in 0 .. n /\ f[m] # g[m]
    BY <2>1
  <2> HIDE DEF m
  <2>3. /\ f[m] = IF m = 0 THEN Start(number) ELSE Turn(number, f[m - 1], s[m])
        /\ g[m] = IF m = 0 THEN Start(number) ELSE Turn(number, g[m - 1], t[m])
        /\ m # 0 => s[m] = t[m]
    BY <2>2, ScanIs
  <2>4. m # 0 /\ f[m - 1] # g[m - 1]
    BY <2>2, <2>3
  <2>5. m - 1 \in T /\ ~(m <= m - 1)
    BY <2>2, <2>4
  <2>6. QED  BY <2>1, <2>5
<1>2. QED  BY <1>1

Scan(number, s) == (CHOOSE f : IsScan(number, f, s, Len(s)))[Len(s)]

\* Any such function has the same last value.
LEMMA ScanOf ==
  ASSUME NEW number, NEW s, Len(s) \in Nat, NEW f, IsScan(number, f, s, Len(s))
  PROVE  f[Len(s)] = Scan(number, s)
<1> DEFINE c == CHOOSE h : IsScan(number, h, s, Len(s))
<1>1. IsScan(number, c, s, Len(s))
  OBVIOUS
<1>2. Scan(number, s) = c[Len(s)]
  BY DEF Scan
<1> HIDE DEF c
<1>3. \A i \in 0 .. Len(s) : f[i] = c[i]
  BY <1>1, ScanAgrees
<1>4. QED  BY <1>2, <1>3

\* Number10 and Segments are these loops.
LEMMA NumberIsScan ==
  ASSUME NEW s, Len(s) \in Nat
  PROVE  Number10(s) = Scan(TRUE, s)
<1> DEFINE c == CHOOSE f : f = [i \in 0 .. Len(s) |-> IF i = 0 THEN 0 ELSE 10 * f[i - 1] + DigitValue(s[i])]
<1>1. \A f : IsScan(TRUE, f, s, Len(s)) <=> f = [i \in 0 .. Len(s) |-> IF i = 0 THEN 0 ELSE 10 * f[i - 1] + DigitValue(s[i])]
  BY DEF IsScan, Start, Turn
<1>2. \E f : f = [i \in 0 .. Len(s) |-> IF i = 0 THEN 0 ELSE 10 * f[i - 1] + DigitValue(s[i])]
  BY <1>1, ScanExists
<1>3. c = [i \in 0 .. Len(s) |-> IF i = 0 THEN 0 ELSE 10 * c[i - 1] + DigitValue(s[i])]
  BY <1>2
<1>4. Number10(s) = c[Len(s)]
  BY DEF Number10
<1> HIDE DEF c
<1>5. IsScan(TRUE, c, s, Len(s))
  BY <1>1, <1>3
<1>6. QED  BY <1>4, <1>5, ScanOf

\* The parts of a text are gathered a character at a time.
LEMMA SegmentsIsScan ==
  ASSUME NEW s, Len(s) \in Nat
  PROVE  Segments(s) = Scan(FALSE, s)
<1> DEFINE Next1(f, i) == LET parts == f[i - 1]
                          IN IF s[i] = "/" THEN Append(parts, <<>>)
                             ELSE Append(Front(parts), Append(Last(parts), s[i]))
           c == CHOOSE f : f = [i \in 0 .. Len(s) |-> IF i = 0 THEN << <<>> >> ELSE Next1(f, i)]
<1>1. \A f : IsScan(FALSE, f, s, Len(s)) <=> f = [i \in 0 .. Len(s) |-> IF i = 0 THEN << <<>> >> ELSE Next1(f, i)]
  BY DEF IsScan, Start, Turn
<1>2. \E f : f = [i \in 0 .. Len(s) |-> IF i = 0 THEN << <<>> >> ELSE Next1(f, i)]
  BY <1>1, ScanExists
<1>3. c = [i \in 0 .. Len(s) |-> IF i = 0 THEN << <<>> >> ELSE Next1(c, i)]
  BY <1>2
<1>4. Segments(s) = c[Len(s)]
  BY DEF Segments
<1> HIDE DEF c
<1>5. IsScan(FALSE, c, s, Len(s))
  BY <1>1, <1>3
<1>6. QED  BY <1>4, <1>5, ScanOf

\* Nothing is scanned to what a loop starts with, and a character more to what it
\* makes of the value before.
LEMMA ScanAppend ==
  ASSUME NEW number, NEW S, NEW s \in Seq(S), NEW c \in S
  PROVE  Scan(number, Append(s, c)) = Turn(number, Scan(number, s), c) /\ Scan(number, <<>>) = Start(number)
<1> DEFINE t == Append(s, c)
           n == Len(s)
<1>1. /\ n \in Nat /\ Len(t) = n + 1 /\ t[n + 1] = c
      /\ \A i \in 1 .. n : s[i] = t[i]
  BY OffLast
<1>2. Len(<<>>) = 0
  BY EmptySeq
<1> HIDE DEF t, n
<1>3. PICK f : IsScan(number, f, s, n)
  BY <1>1, ScanExists
<1>4. PICK g : IsScan(number, g, t, n + 1)
  <2>1. n + 1 \in Nat
    BY <1>1
  <2>2. QED  BY <2>1, ScanExists
<1>5. f[n] = Scan(number, s)
  BY <1>1, <1>3, ScanOf DEF n
<1>6. g[n + 1] = Scan(number, t)
  <2>1. Len(t) \in Nat /\ IsScan(number, g, t, Len(t))
    BY <1>1, <1>4
  <2>2. g[Len(t)] = Scan(number, t)
    BY <2>1, ScanOf
  <2>3. QED  BY <1>1, <2>2
<1>7. f[n] = g[n]
  <2>1. n + 1 \in Nat /\ n <= n + 1 /\ n \in 0 .. n
    BY <1>1
  <2>2. \A i \in 0 .. n : f[i] = g[i]
    BY <1>1, <1>3, <1>4, <2>1, ScanAgrees
  <2>3. QED  BY <2>1, <2>2
<1>8. g[n + 1] = Turn(number, g[n], t[n + 1])
  <2>1. PICK k \in Nat : k = n + 1
    BY <1>1
  <2>2. k \in 0 .. k /\ k # 0 /\ k - 1 = n /\ IsScan(number, g, t, k)
    BY <1>1, <1>4, <2>1
  <2>3. g[k] = IF k = 0 THEN Start(number) ELSE Turn(number, g[k - 1], t[k])
    BY <2>2, ScanIs
  <2>4. QED  BY <2>1, <2>2, <2>3
<1>9. Scan(number, <<>>) = Start(number)
  <2>1. PICK h : IsScan(number, h, <<>>, 0)
    BY ScanExists
  <2>2. h[0] = Start(number)
    BY <2>1, ScanIs
  <2>3. h[0] = Scan(number, <<>>)
    <3>1. IsScan(number, h, <<>>, Len(<<>>)) /\ Len(<<>>) \in Nat
      BY <1>2, <2>1
    <3>2. h[Len(<<>>)] = Scan(number, <<>>)
      BY <3>1, ScanOf
    <3>3. QED  BY <1>2, <3>2
  <2>4. QED  BY <2>2, <2>3
<1>10. QED  BY <1>1, <1>5, <1>6, <1>7, <1>8, <1>9 DEF t

\* One character more of a number, and of the parts between slashes.
LEMMA NumberAppend ==
  ASSUME NEW S, NEW s \in Seq(S), NEW c \in S
  PROVE  Number10(Append(s, c)) = 10 * Number10(s) + DigitValue(c) /\ Number10(<<>>) = 0
<1>1. Len(s) \in Nat /\ Len(Append(s, c)) \in Nat /\ Len(<<>>) \in Nat
  BY OffLast, EmptySeq
<1>2. /\ Number10(s) = Scan(TRUE, s) /\ Number10(Append(s, c)) = Scan(TRUE, Append(s, c))
      /\ Number10(<<>>) = Scan(TRUE, <<>>)
  BY <1>1, NumberIsScan
<1>3. Scan(TRUE, Append(s, c)) = Turn(TRUE, Scan(TRUE, s), c) /\ Scan(TRUE, <<>>) = Start(TRUE)
  BY ScanAppend
<1>4. QED  BY <1>2, <1>3 DEF Turn, Start

\* A slash at the end begins a part, any other character goes to the last.
LEMMA SegmentsAppend ==
  ASSUME NEW S, NEW s \in Seq(S), NEW c \in S
  PROVE  /\ Segments(<<>>) = << <<>> >>
         /\ c = "/" => Segments(Append(s, c)) = Append(Segments(s), <<>>)
         /\ c # "/" => Segments(Append(s, c)) = Append(Front(Segments(s)), Append(Last(Segments(s)), c))
<1>1. Len(s) \in Nat /\ Len(Append(s, c)) \in Nat /\ Len(<<>>) \in Nat
  BY OffLast, EmptySeq
<1>2. /\ Segments(s) = Scan(FALSE, s) /\ Segments(Append(s, c)) = Scan(FALSE, Append(s, c))
      /\ Segments(<<>>) = Scan(FALSE, <<>>)
  BY <1>1, SegmentsIsScan
<1>3. Scan(FALSE, Append(s, c)) = Turn(FALSE, Scan(FALSE, s), c) /\ Scan(FALSE, <<>>) = Start(FALSE)
  BY ScanAppend
<1>4. QED  BY <1>2, <1>3 DEF Turn, Start

-----------------------------------------------------------------------------
(* Numbers and their digits.                                               *)

\* The digits are ten different characters, and no slash.
LEMMA Digits ==
  /\ \A n \in 0 .. 9 : Digit[n + 1] \in Characters /\ DigitValue(Digit[n + 1]) = n /\ Digit[n + 1] # "/"
  /\ \A j \in DOMAIN Digit : j - 1 \in 0 .. 9 /\ j - 1 + 1 = j
  /\ \A n \in 0 .. 9 : Digit[n + 1] = "0" => n = 0
<1>1. DOMAIN Digit = 1 .. 10
  BY DEF Digit
<1>2. /\ Digit[1] = "0" /\ Digit[2] = "1" /\ Digit[3] = "2" /\ Digit[4] = "3" /\ Digit[5] = "4"
      /\ Digit[6] = "5" /\ Digit[7] = "6" /\ Digit[8] = "7" /\ Digit[9] = "8" /\ Digit[10] = "9"
  BY DEF Digit
<1>3. \A n \in 0 .. 9 : n = 0 \/ n = 1 \/ n = 2 \/ n = 3 \/ n = 4 \/ n = 5 \/ n = 6 \/ n = 7 \/ n = 8 \/ n = 9
  OBVIOUS
<1>4. ASSUME NEW n \in 0 .. 9, NEW m \in 0 .. 9, Digit[n + 1] = Digit[m + 1] PROVE n = m
  <2>1. CASE n = 0
    BY <1>2, <1>3, <1>4, <2>1
  <2>2. CASE n = 1
    BY <1>2, <1>3, <1>4, <2>2
  <2>3. CASE n = 2
    BY <1>2, <1>3, <1>4, <2>3
  <2>4. CASE n = 3
    BY <1>2, <1>3, <1>4, <2>4
  <2>5. CASE n = 4
    BY <1>2, <1>3, <1>4, <2>5
  <2>6. CASE n = 5
    BY <1>2, <1>3, <1>4, <2>6
  <2>7. CASE n = 6
    BY <1>2, <1>3, <1>4, <2>7
  <2>8. CASE n = 7
    BY <1>2, <1>3, <1>4, <2>8
  <2>9. CASE n = 8
    BY <1>2, <1>3, <1>4, <2>9
  <2>10. CASE n = 9
    BY <1>2, <1>3, <1>4, <2>10
  <2>11. QED  BY <1>3, <2>1, <2>2, <2>3, <2>4, <2>5, <2>6, <2>7, <2>8, <2>9, <2>10
<1>5. ASSUME NEW n \in 0 .. 9
      PROVE  Digit[n + 1] \in Characters /\ Digit[n + 1] # "/" /\ (Digit[n + 1] = "0" => n = 0)
  <2>1. Digit[n + 1] \in Characters
    <3>1. n + 1 \in DOMAIN Digit
      BY <1>1
    <3>2. QED  BY <3>1, PathsAssumption
  <2>2. Digit[n + 1] # "/"
    BY <1>2, <1>3
  <2>3. Digit[n + 1] = "0" => n = 0
    BY <1>2, <1>3
  <2>4. QED  BY <2>1, <2>2, <2>3
<1>6. ASSUME NEW n \in 0 .. 9 PROVE DigitValue(Digit[n + 1]) = n
  <2> DEFINE v == CHOOSE m \in 0 .. 9 : Digit[m + 1] = Digit[n + 1]
  <2>1. v \in 0 .. 9 /\ Digit[v + 1] = Digit[n + 1]
    OBVIOUS
  <2>2. DigitValue(Digit[n + 1]) = v
    BY DEF DigitValue
  <2> HIDE DEF v
  <2>3. v = n
    BY <1>4, <2>1
  <2>4. QED  BY <2>2, <2>3
<1>7. QED  BY <1>1, <1>5, <1>6

\* The recursive function of Decimal.
IsDecimal(f, m) ==
  f = [n \in 0 .. m |-> IF n < 10 THEN <<Digit[n + 1]>> ELSE Append(f[n \div 10], Digit[(n % 10) + 1])]

\* There is such a function, by induction on how many values it has.
LEMMA DecimalExists ==
  ASSUME NEW k \in Nat
  PROVE  \E f : IsDecimal(f, k)
<1> DEFINE T == {m \in Nat : ~\E f : IsDecimal(f, m)}
<1>1. ASSUME T # {} PROVE FALSE
  <2> DEFINE m == Min(T)
  <2>1. m \in T /\ \A y \in T : m <= y
    BY <1>1, MinIs
  <2>2. m \in Nat /\ ~\E f : IsDecimal(f, m)
    BY <2>1
  <2> HIDE DEF m
  <2>3. m # 0
    <3> DEFINE z == [n \in 0 .. 0 |-> <<Digit[1]>>]
               y == [n \in 0 .. 0 |-> IF n < 10 THEN <<Digit[n + 1]>> ELSE Append(z[n \div 10], Digit[(n % 10) + 1])]
    <3>1. \A n \in 0 .. 0 : z[n] = y[n]
      OBVIOUS
    <3>2. z = y
      BY <3>1
    <3> HIDE DEF z
    <3>3. IsDecimal(z, 0)
      BY <3>2 DEF IsDecimal
    <3>4. QED  BY <2>2, <3>3
  <2>4. m - 1 \in Nat /\ m - 1 < m
    BY <2>2, <2>3
  <2>5. PICK f : IsDecimal(f, m - 1)
    BY <2>1, <2>4
  <2> DEFINE last == IF m < 10 THEN <<Digit[m + 1]>> ELSE Append(f[m \div 10], Digit[(m % 10) + 1])
             g == [n \in 0 .. m |-> IF n = m THEN last ELSE f[n]]
             h == [n \in 0 .. m |-> IF n < 10 THEN <<Digit[n + 1]>> ELSE Append(g[n \div 10], Digit[(n % 10) + 1])]
  <2>6. ASSUME NEW n \in 0 .. m
        PROVE  g[n] = IF n < 10 THEN <<Digit[n + 1]>> ELSE Append(g[n \div 10], Digit[(n % 10) + 1])
    <3>1. ~(n < 10) => n \div 10 \in 0 .. m /\ n \div 10 # m /\ n \div 10 < n
      BY <2>2
    <3>2. ~(n < 10) => g[n \div 10] = f[n \div 10]
      <4> DEFINE q == n \div 10
      <4> HIDE DEF q, last
      <4>1. ~(n < 10) => g[q] = f[q]
        BY <3>1 DEF q
      <4>2. QED  BY <4>1 DEF q
    <3>3. CASE n = m
      BY <3>2, <3>3
    <3>4. CASE n # m
      <4>1. n \in 0 .. m - 1
        BY <2>2, <3>4
      <4>2. f[n] = IF n < 10 THEN <<Digit[n + 1]>> ELSE Append(f[n \div 10], Digit[(n % 10) + 1])
        BY <2>4, <2>5, <4>1 DEF IsDecimal
      <4>3. g[n] = f[n]
        BY <3>4
      <4>4. QED  BY <3>2, <4>2, <4>3
    <3>5. QED  BY <3>3, <3>4
  <2> HIDE DEF last
  <2>7. g = h
    <3>1. \A n \in 0 .. m : g[n] = h[n]
      BY <2>6
    <3>2. QED  BY <3>1
  <2> HIDE DEF g
  <2>8. IsDecimal(g, m)
    BY <2>7 DEF IsDecimal
  <2>9. QED  BY <2>2, <2>8
<1>2. QED  BY <1>1

\* An index has the digits of its tenth, and its last digit.
LEMMA DecimalIs ==
  ASSUME NEW n \in 0 .. MaxIndex
  PROVE  Decimal[n] = IF n < 10 THEN <<Digit[n + 1]>> ELSE Append(Decimal[n \div 10], Digit[(n % 10) + 1])
<1>1. \E f : IsDecimal(f, MaxIndex)
  BY DecimalExists, PathsAssumption
<1> DEFINE c == CHOOSE f : f = [i \in 0 .. MaxIndex |->
                    IF i < 10 THEN <<Digit[i + 1]>> ELSE Append(f[i \div 10], Digit[(i % 10) + 1])]
<1>2. c = [i \in 0 .. MaxIndex |-> IF i < 10 THEN <<Digit[i + 1]>> ELSE Append(c[i \div 10], Digit[(i % 10) + 1])]
  BY <1>1 DEF IsDecimal
<1>3. Decimal = c
  BY DEF Decimal
<1> HIDE DEF c
<1>4. QED  BY <1>2, <1>3

\* One more digit is a digit as well.
LEMMA DigitsAppend ==
  ASSUME NEW s \in Seq(Characters), NEW c \in Characters
  PROVE  /\ IsDigits(Append(s, c)) <=> (s = <<>> \/ IsDigits(s)) /\ \E j \in DOMAIN Digit : Digit[j] = c
         /\ ~IsDigits(<<>>)
<1> DEFINE t == Append(s, c)
<1>1. /\ Len(s) \in Nat /\ DOMAIN s = 1 .. Len(s) /\ t # <<>> /\ DOMAIN t = 1 .. Len(s) + 1
      /\ \A i \in 1 .. Len(s) : t[i] = s[i]
      /\ t[Len(s) + 1] = c
  BY OffLast, LenProperties
<1>2. s = <<>> <=> Len(s) = 0
  BY EmptySeq
<1> DEFINE In(x) == \E j \in DOMAIN Digit : Digit[j] = x
<1>3. IsDigits(t) <=> \A i \in 1 .. Len(s) + 1 : In(t[i])
  BY <1>1 DEF IsDigits
<1>4. IsDigits(s) <=> s # <<>> /\ \A i \in 1 .. Len(s) : In(s[i])
  BY <1>1 DEF IsDigits
<1>5. (\A i \in 1 .. Len(s) + 1 : In(t[i])) <=> (\A i \in 1 .. Len(s) : In(s[i])) /\ In(c)
  <2> HIDE DEF In, t
  <2>1. \A i \in 1 .. Len(s) + 1 : i \in 1 .. Len(s) \/ i = Len(s) + 1
    BY <1>1
  <2>2. Len(s) + 1 \in 1 .. Len(s) + 1 /\ \A i \in 1 .. Len(s) : i \in 1 .. Len(s) + 1
    BY <1>1
  <2>3. QED  BY <1>1, <2>1, <2>2
<1>6. s = <<>> => \A i \in 1 .. Len(s) : In(s[i])
  BY <1>2
<1>7. ~IsDigits(<<>>)
  BY DEF IsDigits
<1> HIDE DEF In
<1>8. QED  BY <1>3, <1>4, <1>5, <1>6, <1>7 DEF In

\* The text of an index has its digits, is read as the index, and starts with a
\* zero only if it is zero.
IsText(d, n) ==
  /\ d \in Seq(Characters) /\ d # <<>> /\ IsDigits(d) /\ Number10(d) = n
  /\ (n # 0 => d[1] # "0") /\ (Len(d) > 1 => n # 0)

\* Every index has such a text.
LEMMA DecimalReads ==
  ASSUME NEW k \in 0 .. MaxIndex
  PROVE  IsText(Decimal[k], k)
<1> DEFINE T == {n \in 0 .. MaxIndex : ~IsText(Decimal[n], n)}
<1>0. MaxIndex \in Nat
  BY PathsAssumption
<1>1. ASSUME T # {} PROVE FALSE
  <2> DEFINE n == Min(T)
  <2>0. T \in SUBSET Nat
    BY <1>0
  <2>1. n \in T /\ \A y \in T : n <= y
    BY <1>1, <2>0, MinIs
  <2>2. n \in 0 .. MaxIndex /\ ~IsText(Decimal[n], n)
    BY <2>1
  <2> HIDE DEF n
  <2>3. <<>> \in Seq(Characters) /\ Len(<<>>) = 0
    BY EmptySeq
  <2>4. CASE n < 10
    <3>1. PICK x \in Characters : x = Digit[n + 1]
      BY <1>0, <2>2, <2>4, Digits
    <3>2. DigitValue(x) = n /\ (x = "0" => n = 0) /\ \E j \in DOMAIN Digit : Digit[j] = x
      <4>1. n \in 0 .. 9
        BY <1>0, <2>2, <2>4
      <4>2. n + 1 \in DOMAIN Digit
        BY <4>1 DEF Digit
      <4>3. QED  BY <3>1, <4>1, <4>2, Digits
    <3>3. Decimal[n] = <<x>>
      BY <2>2, <2>4, <3>1, DecimalIs
    <3>4. <<x>> = Append(<<>>, x)
      OBVIOUS
    <3>5. Number10(<<x>>) = n
      <4>1. Number10(Append(<<>>, x)) = 10 * Number10(<<>>) + DigitValue(x) /\ Number10(<<>>) = 0
        BY <2>3, NumberAppend
      <4>2. n \in Int
        BY <2>2
      <4>3. QED  BY <3>2, <3>4, <4>1, <4>2
    <3>6. IsDigits(<<x>>)
      BY <2>3, <3>2, <3>4, DigitsAppend
    <3>7. <<x>> \in Seq(Characters) /\ <<x>> # <<>> /\ <<x>>[1] = x /\ Len(<<x>>) = 1
      OBVIOUS
    <3>8. IsText(<<x>>, n)
      BY <3>2, <3>5, <3>6, <3>7 DEF IsText
    <3>9. QED  BY <2>2, <3>3, <3>8
  <2>5. CASE ~(n < 10)
    <3>1. /\ n \div 10 \in 1 .. MaxIndex /\ n % 10 \in 0 .. 9 /\ 10 * (n \div 10) + (n % 10) = n /\ ~(n <= n \div 10)
      BY <1>0, <2>2, <2>5
    <3>2. PICK q \in 1 .. MaxIndex, r \in 0 .. 9 : q = n \div 10 /\ r = n % 10 /\ 10 * q + r = n /\ ~(n <= q)
      BY <3>1
    <3>3. q \in 0 .. MaxIndex /\ q # 0
      BY <1>0
    <3>4. PICK d : d = Decimal[q] /\ IsText(d, q)
      BY <2>1, <3>2, <3>3
    <3>5. PICK x \in Characters : x = Digit[r + 1]
      BY Digits
    <3>6. DigitValue(x) = r /\ \E j \in DOMAIN Digit : Digit[j] = x
      <4>1. r + 1 \in DOMAIN Digit
        BY DEF Digit
      <4>2. QED  BY <3>5, <4>1, Digits
    <3>7. Decimal[n] = Append(d, x)
      BY <2>2, <2>5, <3>2, <3>4, <3>5, DecimalIs
    <3>8. /\ d \in Seq(Characters) /\ d # <<>> /\ IsDigits(d) /\ Number10(d) = q /\ d[1] # "0"
      BY <3>3, <3>4 DEF IsText
    <3>9. /\ Append(d, x) \in Seq(Characters) /\ Append(d, x) # <<>> /\ Append(d, x)[1] = d[1]
      <4>1. Len(d) \in Nat \ {0}
        BY <3>8, EmptySeq
      <4>2. 1 \in 1 .. Len(d)
        BY <4>1
      <4>3. QED  BY <3>8, <4>2, OffLast
    <3>10. Number10(Append(d, x)) = n
      <4>1. Number10(Append(d, x)) = 10 * Number10(d) + DigitValue(x)
        BY <3>8, NumberAppend
      <4>2. QED  BY <3>2, <3>6, <3>8, <4>1
    <3>11. IsDigits(Append(d, x))
      BY <3>6, <3>8, DigitsAppend
    <3>12. n # 0
      BY <2>5
    <3>13. IsText(Append(d, x), n)
      BY <3>8, <3>9, <3>10, <3>11, <3>12 DEF IsText
    <3>14. QED  BY <2>2, <3>7, <3>13
  <2>6. QED  BY <2>4, <2>5
<1>2. QED  BY <1>1

\* A number without needless zeros is written with the digits it was read from.
ReadsBack(s) ==
  IsDigits(s) => /\ Number10(s) \in Nat
                 /\ s[1] # "0" => Number10(s) # 0
                 /\ (Len(s) = 1 \/ s[1] # "0") /\ Number10(s) <= MaxIndex => Decimal[Number10(s)] = s

\* Every text of digits is such a number, for all that the largest index allows.
LEMMA DigitsReadBack ==
  ASSUME NEW k \in Seq(Characters)
  PROVE  ReadsBack(k)
<1> DEFINE T == {n \in Nat : \E s \in Seq(Characters) : Len(s) = n /\ ~ReadsBack(s)}
<1>1. ASSUME T # {} PROVE FALSE
  <2> DEFINE n == Min(T)
  <2>1. n \in T /\ \A y \in T : n <= y
    BY <1>1, MinIs
  <2>2. PICK s \in Seq(Characters) : Len(s) = n /\ ~ReadsBack(s)
    BY <2>1
  <2>3. IsDigits(s) /\ s # <<>>
    BY <2>2 DEF ReadsBack, IsDigits
  <2>4. PICK f \in Seq(Characters), c \in Characters : s = Append(f, c) /\ Len(f) = Len(s) - 1
    <3>1. Front(s) \in Seq(Characters) /\ Last(s) \in Characters /\ s = Append(Front(s), Last(s)) /\ Len(Front(s)) = Len(s) - 1
      BY <2>3, AtLast
    <3>2. QED  BY <3>1
  <2>5. n \in Nat /\ Len(f) \in Nat /\ ~(n <= Len(f))
    BY <2>1, <2>2, <2>4
  <2>6. ReadsBack(f)
    BY <2>1, <2>5
  <2> HIDE DEF n
  <2>7. PICK j \in DOMAIN Digit : Digit[j] = c
    BY <2>3, <2>4, DigitsAppend
  <2>8. PICK v \in 0 .. 9 : c = Digit[v + 1] /\ DigitValue(c) = v /\ (c = "0" <=> v = 0)
    <3>1. j - 1 \in 0 .. 9 /\ j - 1 + 1 = j
      BY Digits
    <3>2. DigitValue(Digit[j - 1 + 1]) = j - 1 /\ (Digit[j - 1 + 1] = "0" => j - 1 = 0)
      BY <3>1, Digits
    <3>3. Digit[1] = "0"
      BY DEF Digit
    <3>4. j - 1 = 0 => Digit[j] = "0"
      BY <3>1, <3>3
    <3>5. c = Digit[j - 1 + 1]
      BY <2>7, <3>1
    <3>6. DigitValue(c) = j - 1 /\ (c = "0" => j - 1 = 0)
      BY <3>2, <3>5
    <3>7. QED  BY <2>7, <3>1, <3>4, <3>5, <3>6
  <2>9. Number10(s) = 10 * Number10(f) + v /\ Number10(<<>>) = 0
    BY <2>4, <2>8, NumberAppend
  <2>10. CASE f = <<>>
    <3>1. s = <<c>> /\ Number10(s) = v /\ s[1] = c
      BY <2>4, <2>9, <2>10
    <3>2. v \in 0 .. MaxIndex => Decimal[v] = <<c>>
      <4>1. v < 10
        OBVIOUS
      <4>2. QED  BY <2>8, <4>1, DecimalIs
    <3>3. v \in Nat
      OBVIOUS
    <3>4. MaxIndex \in Nat /\ (v <= MaxIndex => v \in 0 .. MaxIndex)
      BY PathsAssumption
    <3>5. s[1] # "0" => Number10(s) # 0
      BY <2>8, <3>1
    <3>6. QED  BY <2>2, <3>1, <3>2, <3>3, <3>4, <3>5 DEF ReadsBack
  <2>11. CASE f # <<>>
    <3>1. IsDigits(f)
      BY <2>3, <2>4, <2>11, DigitsAppend
    <3>2. PICK m \in Nat : m = Number10(f) /\ (f[1] # "0" => m # 0)
      BY <2>6, <3>1 DEF ReadsBack
    <3>3. Number10(s) = 10 * m + v /\ 10 * m + v \in Nat
      BY <2>9, <3>2
    <3>4. Len(f) \in Nat \ {0} /\ Len(s) = Len(f) + 1 /\ s[1] = f[1]
      <4>1. Len(f) \in Nat \ {0}
        BY <2>11, EmptySeq
      <4>2. 1 \in 1 .. Len(f)
        BY <4>1
      <4>3. QED  BY <2>4, <4>1, <4>2, OffLast
    <3>5. ASSUME s[1] # "0" PROVE 10 * m + v # 0 /\ (10 * m + v <= MaxIndex => Decimal[10 * m + v] = s)
      <4>1. m # 0
        BY <3>2, <3>4, <3>5
      <4>2. ASSUME 10 * m + v <= MaxIndex PROVE Decimal[10 * m + v] = s
        <5>1. MaxIndex \in Nat
          BY PathsAssumption
        <5>2. PICK w \in 0 .. MaxIndex : w = 10 * m + v
          BY <4>2, <5>1
        <5>3. ~(w < 10) /\ w \div 10 = m /\ w % 10 = v
          BY <4>1, <5>2
        <5>4. Decimal[w] = Append(Decimal[m], Digit[v + 1])
          BY <5>3, DecimalIs
        <5>5. Decimal[m] = f
          <6>1. m <= MaxIndex
            BY <5>1, <5>2
          <6>2. QED  BY <2>6, <3>1, <3>2, <3>4, <3>5, <6>1 DEF ReadsBack
        <5>6. QED  BY <2>4, <2>8, <5>2, <5>4, <5>5
      <4>3. QED  BY <4>1, <4>2
    <3>6. Len(s) # 1
      BY <3>4
    <3>7. QED  BY <2>2, <3>3, <3>5, <3>6 DEF ReadsBack
  <2>12. QED  BY <2>10, <2>11
<1>2. ASSUME ~ReadsBack(k) PROVE FALSE
  <2>1. Len(k) \in T
    BY <1>2, LenProperties
  <2>2. QED  BY <1>1, <2>1
<1>3. QED  BY <1>2

-----------------------------------------------------------------------------
(* The parts between slashes.                                              *)

Strings == Seq(Characters)
Joined(p) == FlattenSeq([i \in DOMAIN p |-> <<"/">> \o p[i]])
NoSlash(s) == \A i \in DOMAIN s : s[i] # "/"
IsParts(p) == p \in Seq(Strings) /\ p # <<>> /\ \A i \in DOMAIN p : NoSlash(p[i])

\* A slash and a part more.
LEMMA JoinedAppend ==
  ASSUME NEW p \in Seq(Strings), NEW w \in Strings, Joined(p) \in Strings
  PROVE  /\ Joined(<<>>) = <<>>
         /\ Joined(Append(p, w)) = Joined(p) \o (<<"/">> \o w) /\ Joined(Append(p, w)) \in Strings
<1> DEFINE Slashed(q) == [i \in DOMAIN q |-> <<"/">> \o q[i]]
           t == Append(p, w)
<1>0. "/" \in Characters /\ <<"/">> \in Strings
  BY PathsAssumption DEF Strings
<1>1. \A u \in Strings : <<"/">> \o u \in Strings
  BY <1>0, ConcatProperties DEF Strings
<1>2. /\ t \in Seq(Strings) /\ Len(p) \in Nat /\ DOMAIN p = 1 .. Len(p) /\ DOMAIN t = 1 .. Len(p) + 1
      /\ \A i \in 1 .. Len(p) : t[i] = p[i]
      /\ t[Len(p) + 1] = w
  BY OffLast, LenProperties
<1>3. Slashed(p) \in Seq(Strings) /\ Len(Slashed(p)) = Len(p)
  <2>1. \A i \in 1 .. Len(p) : <<"/">> \o p[i] \in Strings
    BY <1>1, ElementOfSeq
  <2> HIDE DEF Slashed
  <2>2. Slashed(p) = [i \in 1 .. Len(p) |-> <<"/">> \o p[i]]
    BY <1>2 DEF Slashed
  <2>3. QED  BY <1>2, <2>1, <2>2
<1>4. Slashed(t) = Append(Slashed(p), <<"/">> \o w)
  <2> DEFINE o == <<"/">> \o w
             a == Slashed(p)
             b == Slashed(t)
  <2>1. o \in Strings
    BY <1>1
  <2>2. /\ \A i \in 1 .. Len(p) : a[i] = <<"/">> \o p[i]
        /\ \A i \in 1 .. Len(p) + 1 : b[i] = <<"/">> \o t[i]
    BY <1>2
  <2>3. b \in Seq(Strings) /\ Len(b) = Len(p) + 1
    <3>1. \A i \in 1 .. Len(p) + 1 : <<"/">> \o t[i] \in Strings
      <4>1. \A i \in 1 .. Len(p) + 1 : t[i] \in Strings
        BY <1>2, ElementOfSeq, LenProperties
      <4>2. QED  BY <1>1, <4>1
    <3> HIDE DEF Slashed
    <3>2. Slashed(t) = [i \in 1 .. Len(p) + 1 |-> <<"/">> \o t[i]]
      BY <1>2 DEF Slashed
    <3>3. QED  BY <1>2, <3>1, <3>2
  <2> HIDE DEF o, a, b
  <2>4. a \in Seq(Strings) /\ Len(a) = Len(p)
    BY <1>3 DEF a
  <2>5. /\ Append(a, o) \in Seq(Strings) /\ Len(Append(a, o)) = Len(p) + 1
        /\ \A i \in 1 .. Len(p) : Append(a, o)[i] = a[i]
        /\ Append(a, o)[Len(p) + 1] = o
    BY <2>1, <2>4, OffLast
  <2>6. \A i \in 1 .. Len(b) : b[i] = Append(a, o)[i]
    <3> SUFFICES ASSUME NEW i \in 1 .. Len(p) + 1 PROVE b[i] = Append(a, o)[i]
      BY <2>3
    <3>1. CASE i = Len(p) + 1
      <4>1. b[i] = <<"/">> \o w
        BY <1>2, <2>2, <3>1
      <4>2. QED  BY <2>5, <3>1, <4>1 DEF o
    <3>2. CASE i # Len(p) + 1
      <4>1. i \in 1 .. Len(p)
        BY <1>2, <3>2
      <4>2. QED  BY <1>2, <2>2, <2>5, <4>1
    <3>3. QED  BY <3>1, <3>2
  <2>7. b = Append(a, o)
    BY <2>3, <2>5, <2>6, SeqEqual
  <2>8. QED  BY <2>7 DEF a, b, o
<1>5. Joined(p) = FlattenSeq(Slashed(p)) /\ Joined(t) = FlattenSeq(Slashed(t)) /\ Joined(<<>>) = FlattenSeq(Slashed(<<>>))
  BY DEF Joined
<1>6. Slashed(<<>>) = <<>>
  OBVIOUS
<1>7. Slashed(p) = <<>> => Joined(p) = <<>>
  BY <1>5, FlattenEmpty
<1> DEFINE o == <<"/">> \o w
<1>8. o \in Strings
  BY <1>1
<1> HIDE DEF Slashed, t, o
<1>9. FlattenSeq(Append(Slashed(p), o)) = IF Slashed(p) = <<>> THEN o ELSE FlattenSeq(Slashed(p)) \o o
  BY <1>3, <1>8, FlattenAppend
<1>10. Joined(t) = IF Slashed(p) = <<>> THEN o ELSE Joined(p) \o o
  BY <1>4, <1>5, <1>9 DEF o
<1>11. <<>> \o o = o
  BY <1>8, ConcatEmptySeq DEF Strings
<1>12. Joined(t) = Joined(p) \o o
  BY <1>7, <1>10, <1>11
<1>13. Joined(p) \o o \in Strings
  BY <1>8, ConcatProperties DEF Strings
<1>14. QED  BY <1>5, <1>6, <1>12, <1>13, FlattenEmpty DEF t, o

\* What is joined is a text, which starts with a slash.
LEMMA JoinedIs ==
  ASSUME NEW p \in Seq(Strings)
  PROVE  Joined(p) \in Strings /\ (p # <<>> => \E u \in Strings : Joined(p) = <<"/">> \o u)
<1> DEFINE Good(q) == Joined(q) \in Strings /\ (q # <<>> => \E u \in Strings : Joined(q) = <<"/">> \o u)
           T == {n \in Nat : \E q \in Seq(Strings) : Len(q) = n /\ ~Good(q)}
<1>1. ASSUME T # {} PROVE FALSE
  <2> DEFINE n == Min(T)
  <2>1. n \in T /\ \A y \in T : n <= y
    <3> HIDE DEF Good
    <3>1. QED  BY <1>1, MinIs
  <2> HIDE DEF n, Good
  <2>2. PICK q \in Seq(Strings) : Len(q) = n /\ ~Good(q)
    BY <2>1
  <2>3. <<>> \in Strings /\ <<>> \in Seq(Strings) /\ Joined(<<>>) = <<>>
    BY EmptySeq, FlattenEmpty DEF Strings, Joined
  <2>4. q # <<>>
    BY <2>2, <2>3 DEF Good
  <2>5. PICK f \in Seq(Strings), w \in Strings : q = Append(f, w) /\ Len(f) = Len(q) - 1
    <3>1. Front(q) \in Seq(Strings) /\ Last(q) \in Strings /\ q = Append(Front(q), Last(q)) /\ Len(Front(q)) = Len(q) - 1
      BY <2>4, AtLast
    <3>2. QED  BY <3>1
  <2>6. n \in Nat /\ Len(f) \in Nat /\ ~(n <= Len(f))
    BY <2>1, <2>2, <2>5
  <2>7. Good(f)
    BY <2>1, <2>6
  <2>8. Joined(q) = Joined(f) \o (<<"/">> \o w) /\ Joined(q) \in Strings
    BY <2>5, <2>7, JoinedAppend DEF Good
  <2>9. <<"/">> \in Strings /\ <<"/">> \o w \in Strings
    BY ConcatProperties, PathsAssumption DEF Strings
  <2>10. CASE f = <<>>
    <3>1. <<>> \o (<<"/">> \o w) = <<"/">> \o w
      BY <2>9, ConcatEmptySeq DEF Strings
    <3>2. QED  BY <2>2, <2>3, <2>8, <2>10, <3>1 DEF Good
  <2>11. CASE f # <<>>
    <3>1. PICK u \in Strings : Joined(f) = <<"/">> \o u
      BY <2>7, <2>11 DEF Good
    <3>2. (<<"/">> \o u) \o (<<"/">> \o w) = <<"/">> \o (u \o (<<"/">> \o w))
      BY <2>9, ConcatAssociative DEF Strings
    <3>3. u \o (<<"/">> \o w) \in Strings
      BY <2>9, ConcatProperties DEF Strings
    <3>4. QED  BY <2>2, <2>8, <3>1, <3>2, <3>3 DEF Good
  <2>12. QED  BY <2>10, <2>11
<1>2. ASSUME ~Good(p) PROVE FALSE
  <2>1. Len(p) \in T
    <3> HIDE DEF Good
    <3>1. QED  BY <1>2, LenProperties
  <2>2. QED  BY <1>1, <2>1
<1>3. QED  BY <1>2

\* A character more is no slash more, unless it is one.
LEMMA NoSlashAppend ==
  ASSUME NEW s \in Strings, NEW c \in Characters
  PROVE  /\ NoSlash(Append(s, c)) <=> NoSlash(s) /\ c # "/"
         /\ NoSlash(<<>>) /\ <<>> \in Strings
<1> DEFINE t == Append(s, c)
<1>1. /\ Len(s) \in Nat /\ DOMAIN s = 1 .. Len(s) /\ DOMAIN t = 1 .. Len(s) + 1
      /\ \A i \in 1 .. Len(s) : t[i] = s[i]
      /\ t[Len(s) + 1] = c
  BY OffLast, LenProperties DEF Strings
<1>2. NoSlash(<<>>) /\ <<>> \in Strings
  BY EmptySeq DEF NoSlash, Strings
<1> HIDE DEF t
<1>3. NoSlash(t) <=> NoSlash(s) /\ c # "/"
  <2>1. \A i \in 1 .. Len(s) + 1 : i \in 1 .. Len(s) \/ i = Len(s) + 1
    BY <1>1
  <2>2. Len(s) + 1 \in 1 .. Len(s) + 1 /\ \A i \in 1 .. Len(s) : i \in 1 .. Len(s) + 1
    BY <1>1
  <2>3. QED  BY <1>1, <2>1, <2>2 DEF NoSlash
<1>4. QED  BY <1>2, <1>3 DEF t

\* A part more.
LEMMA PartsAppend ==
  ASSUME NEW p \in Seq(Strings), NEW w \in Strings
  PROVE  IsParts(Append(p, w)) <=> (p = <<>> \/ IsParts(p)) /\ NoSlash(w)
<1> DEFINE t == Append(p, w)
<1>1. /\ t \in Seq(Strings) /\ t # <<>>
      /\ Len(p) \in Nat /\ DOMAIN p = 1 .. Len(p) /\ DOMAIN t = 1 .. Len(p) + 1
      /\ \A i \in 1 .. Len(p) : t[i] = p[i]
      /\ t[Len(p) + 1] = w
  BY OffLast, LenProperties
<1>2. p = <<>> => Len(p) = 0
  BY EmptySeq
<1> HIDE DEF t
<1>3. \A i \in 1 .. Len(p) + 1 : i \in 1 .. Len(p) \/ i = Len(p) + 1
  BY <1>1
<1>4. Len(p) + 1 \in 1 .. Len(p) + 1 /\ \A i \in 1 .. Len(p) : i \in 1 .. Len(p) + 1
  BY <1>1
<1>5. (\A i \in DOMAIN t : NoSlash(t[i])) <=> (\A i \in DOMAIN p : NoSlash(p[i])) /\ NoSlash(w)
  BY <1>1, <1>3, <1>4
<1>6. p = <<>> => \A i \in DOMAIN p : NoSlash(p[i])
  BY <1>1, <1>2
<1>7. QED  BY <1>1, <1>5, <1>6 DEF IsParts, t

\* The parts of a text have no slashes, put a slash before each and it is the
\* text with a slash before it, and there is one part only if there is no slash.
Splits(s) ==
  /\ IsParts(Segments(s)) /\ Joined(Segments(s)) = <<"/">> \o s
  /\ Len(Segments(s)) = 1 <=> NoSlash(s)

\* Every text comes apart so.
LEMMA SegmentsAre ==
  ASSUME NEW k \in Strings
  PROVE  Splits(k)
<1> DEFINE T == {n \in Nat : \E s \in Strings : Len(s) = n /\ ~Splits(s)}
<1>1. ASSUME T # {} PROVE FALSE
  <2> DEFINE n == Min(T)
  <2>1. n \in T /\ \A y \in T : n <= y
    BY <1>1, MinIs
  <2> HIDE DEF n
  <2>2. PICK s \in Strings : Len(s) = n /\ ~Splits(s)
    BY <2>1
  <2>3. <<"/">> \in Strings /\ "/" \in Characters /\ <<>> \in Strings /\ <<>> \in Seq(Strings)
    BY EmptySeq, PathsAssumption DEF Strings
  <2>4. CASE s = <<>>
    <3>1. Segments(<<>>) = << <<>> >>
      BY <2>3, SegmentsAppend DEF Strings
    <3>2. << <<>> >> = Append(<<>>, <<>>)
      OBVIOUS
    <3>3. IsParts(Append(<<>>, <<>>))
      BY <2>3, NoSlashAppend, PartsAppend
    <3>4. Joined(Append(<<>>, <<>>)) = <<>> \o (<<"/">> \o <<>>)
      <4>1. Joined(<<>>) \in Strings /\ Joined(<<>>) = <<>>
        BY <2>3, FlattenEmpty DEF Joined
      <4>2. QED  BY <2>3, <4>1, JoinedAppend
    <3>5. <<>> \o (<<"/">> \o <<>>) = <<"/">> \o <<>>
      BY <2>3, ConcatProperties, ConcatEmptySeq DEF Strings
    <3>6. Len(<< <<>> >>) = 1 /\ NoSlash(<<>>)
      BY <2>3, NoSlashAppend
    <3>7. Splits(<<>>)
      BY <3>1, <3>2, <3>3, <3>4, <3>5, <3>6 DEF Splits
    <3>8. QED  BY <2>2, <2>4, <3>7
  <2>5. CASE s # <<>>
    <3>1. PICK f \in Strings, c \in Characters : s = Append(f, c) /\ Len(f) = Len(s) - 1
      <4>1. Front(s) \in Strings /\ Last(s) \in Characters /\ s = Append(Front(s), Last(s)) /\ Len(Front(s)) = Len(s) - 1
        BY <2>5, AtLast DEF Strings
      <4>2. QED  BY <4>1
    <3>2. n \in Nat /\ Len(f) \in Nat /\ ~(n <= Len(f))
      BY <2>1, <2>2, <3>1 DEF Strings
    <3>3. Splits(f)
      BY <2>1, <3>2
    <3>4. PICK p \in Seq(Strings) : p = Segments(f) /\ IsParts(p) /\ p # <<>> /\ Joined(p) = <<"/">> \o f
                                    /\ (Len(p) = 1 <=> NoSlash(f))
      BY <3>3 DEF Splits, IsParts
    <3>5. <<"/">> \o s = Append(<<"/">> \o f, c)
      BY <2>3, <3>1, AppendBehind DEF Strings
    <3>6. CASE c = "/"
      <4>1. Segments(s) = Append(p, <<>>)
        BY <3>1, <3>4, <3>6, SegmentsAppend DEF Strings
      <4>2. IsParts(Append(p, <<>>))
        BY <2>3, <3>4, NoSlashAppend, PartsAppend
      <4>3. Joined(Append(p, <<>>)) = Joined(p) \o (<<"/">> \o <<>>)
        BY <2>3, JoinedIs, JoinedAppend
      <4>4. <<"/">> \o <<>> = <<"/">> /\ <<"/">> \o f \in Strings
        BY <2>3, ConcatProperties, ConcatEmptySeq DEF Strings
      <4>5. (<<"/">> \o f) \o <<"/">> = Append(<<"/">> \o f, "/")
        <5>1. PICK g \in Seq(Characters) : g = <<"/">> \o f
          BY <4>4 DEF Strings
        <5>2. Append(g, "/") = g \o <<"/">>
          BY <2>3, AppendIsConcat
        <5>3. QED  BY <5>1, <5>2
      <4>6. Joined(Segments(s)) = <<"/">> \o s
        BY <3>4, <3>5, <3>6, <4>1, <4>3, <4>4, <4>5
      <4>7. Len(Segments(s)) # 1 /\ ~NoSlash(s)
        <5>1. Len(p) \in Nat \ {0} /\ Len(Append(p, <<>>)) = Len(p) + 1
          BY <2>3, <3>4, OffLast, EmptySeq
        <5>2. Len(Append(p, <<>>)) # 1
          BY <5>1
        <5>3. ~NoSlash(Append(f, c))
          BY <3>6, NoSlashAppend
        <5>4. QED  BY <3>1, <4>1, <5>2, <5>3
      <4>8. QED  BY <2>2, <4>1, <4>2, <4>6, <4>7 DEF Splits
    <3>7. CASE c # "/"
      <4>1. PICK q \in Seq(Strings), w \in Strings : q = Front(p) /\ w = Last(p) /\ p = Append(q, w) /\ Len(q) = Len(p) - 1
        BY <3>4, AtLast
      <4>2. Segments(s) = Append(q, Append(w, c))
        BY <3>1, <3>4, <3>7, <4>1, SegmentsAppend DEF Strings
      <4>3. Append(w, c) \in Strings
        BY OffLast DEF Strings
      <4>4. IsParts(Append(q, Append(w, c)))
        <5>1. (q = <<>> \/ IsParts(q)) /\ NoSlash(w)
          BY <3>4, <4>1, PartsAppend
        <5>2. NoSlash(Append(w, c))
          BY <3>7, <5>1, NoSlashAppend
        <5>3. QED  BY <4>3, <5>1, <5>2, PartsAppend
      <4>5. Joined(q) \in Strings
        BY JoinedIs
      <4>6. Joined(p) = Joined(q) \o (<<"/">> \o w) /\ Joined(Append(q, Append(w, c))) = Joined(q) \o (<<"/">> \o Append(w, c))
        BY <4>1, <4>3, <4>5, JoinedAppend
      <4>7. Joined(q) \o (<<"/">> \o Append(w, c)) = Append(Joined(q) \o (<<"/">> \o w), c)
        <5>1. <<"/">> \o Append(w, c) = Append(<<"/">> \o w, c)
          BY <2>3, AppendBehind DEF Strings
        <5>2. <<"/">> \o w \in Strings
          BY <2>3, ConcatProperties DEF Strings
        <5>3. Joined(q) \o Append(<<"/">> \o w, c) = Append(Joined(q) \o (<<"/">> \o w), c)
          BY <4>5, <5>2, AppendBehind DEF Strings
        <5>4. QED  BY <5>1, <5>3
      <4>8. Joined(Segments(s)) = <<"/">> \o s
        BY <3>4, <3>5, <4>2, <4>6, <4>7
      <4>9. Len(Segments(s)) = 1 <=> NoSlash(s)
        <5>1. Len(Append(q, Append(w, c))) = Len(q) + 1 /\ Len(Append(q, w)) = Len(q) + 1
          BY <4>3, OffLast
        <5>2. NoSlash(s) <=> NoSlash(f)
          BY <3>1, <3>7, NoSlashAppend
        <5>3. QED  BY <3>4, <4>1, <4>2, <5>1, <5>2
      <4>10. QED  BY <2>2, <4>2, <4>4, <4>8, <4>9 DEF Splits
    <3>8. QED  BY <3>6, <3>7
  <2>6. QED  BY <2>4, <2>5
<1>2. ASSUME ~Splits(k) PROVE FALSE
  <2>1. Len(k) \in T
    BY <1>2, LenProperties DEF Strings
  <2>2. QED  BY <1>1, <2>1
<1>3. QED  BY <1>2

\* What is joined from parts without slashes comes apart into them.
Rejoins(t) == \A p : IsParts(p) /\ Joined(p) = <<"/">> \o t => Segments(t) = p

\* A text with a slash before it, and a character less at the end.
LEMMA TextShort ==
  ASSUME NEW t \in Strings, NEW u \in Strings, NEW c \in Characters,
         <<"/">> \o t = Append(<<"/">> \o u, c)
  PROVE  t = Append(u, c) /\ Len(u) \in Nat /\ Len(t) = Len(u) + 1
<1>1. "/" \in Characters /\ <<"/">> \in Strings
  BY PathsAssumption DEF Strings
<1>2. Append(<<"/">> \o u, c) = <<"/">> \o Append(u, c)
  BY <1>1, AppendBehind DEF Strings
<1>3. Append(u, c) \in Strings /\ Len(Append(u, c)) = Len(u) + 1 /\ Len(u) \in Nat
  BY OffLast, LenProperties DEF Strings
<1>4. Tail(<<"/">> \o t) = t /\ Tail(<<"/">> \o Append(u, c)) = Append(u, c)
  BY <1>1, <1>3, OffFirst DEF Strings
<1>5. QED  BY <1>2, <1>3, <1>4

\* Every text does, so that there is one way only to take it apart.
LEMMA JoinedSplits ==
  ASSUME NEW k \in Strings
  PROVE  Rejoins(k)
<1> DEFINE T == {n \in Nat : \E t \in Strings : Len(t) = n /\ ~Rejoins(t)}
<1>0. <<"/">> \in Strings /\ "/" \in Characters /\ <<>> \in Strings /\ <<>> \in Seq(Strings)
  BY EmptySeq, PathsAssumption DEF Strings
<1>1. ASSUME T # {} PROVE FALSE
  <2> DEFINE n == Min(T)
  <2>1. n \in T /\ \A y \in T : n <= y
    BY <1>1, MinIs
  <2> HIDE DEF n
  <2>2. PICK t \in Strings : Len(t) = n /\ ~Rejoins(t)
    BY <2>1
  <2>3. PICK p \in Seq(Strings) : IsParts(p) /\ p # <<>> /\ Joined(p) = <<"/">> \o t /\ Segments(t) # p
    BY <2>2 DEF Rejoins, IsParts
  <2>4. PICK q \in Seq(Strings), w \in Strings : p = Append(q, w)
    BY <2>3, AtLast
  <2>5. (q = <<>> \/ IsParts(q)) /\ NoSlash(w)
    BY <2>3, <2>4, PartsAppend
  <2>6. Joined(q) \in Strings /\ Joined(<<>>) = <<>> /\ Joined(p) = Joined(q) \o (<<"/">> \o w)
    BY <2>4, JoinedIs, JoinedAppend
  <2>7. CASE w = <<>> /\ q = <<>>
    <3>1. Joined(p) = <<"/">> \o <<>>
      BY <1>0, <2>6, <2>7, ConcatProperties, ConcatEmptySeq DEF Strings
    <3>2. t = <<>>
      <4>1. Tail(<<"/">> \o t) = t /\ Tail(<<"/">> \o <<>>) = <<>>
        BY <1>0, OffFirst DEF Strings
      <4>2. QED  BY <2>3, <3>1, <4>1
    <3>3. Segments(t) = << <<>> >>
      BY <1>0, <3>2, SegmentsAppend DEF Strings
    <3>4. Append(<<>>, <<>>) = << <<>> >>
      OBVIOUS
    <3>5. QED  BY <2>3, <2>4, <2>7, <3>3, <3>4
  <2>8. CASE w = <<>> /\ q # <<>>
    <3>1. PICK u \in Strings : Joined(q) = <<"/">> \o u
      BY <2>8, JoinedIs
    <3>2. <<"/">> \o t = Append(<<"/">> \o u, "/")
      <4>1. <<"/">> \o <<>> = <<"/">>
        BY <1>0, ConcatEmptySeq DEF Strings
      <4>2. PICK g \in Seq(Characters) : g = Joined(q)
        BY <2>6 DEF Strings
      <4>3. g \o <<"/">> = Append(g, "/")
        BY <1>0, AppendIsConcat
      <4>4. QED  BY <2>3, <2>6, <2>8, <3>1, <4>1, <4>2, <4>3
    <3>3. t = Append(u, "/") /\ Len(u) \in Nat /\ Len(t) = Len(u) + 1
      BY <1>0, <3>2, TextShort
    <3>4. Len(u) \in Nat /\ ~(n <= Len(u))
      BY <2>2, <3>3
    <3>5. Rejoins(u)
      BY <2>1, <3>4
    <3>6. Segments(u) = q
      BY <2>5, <2>8, <3>1, <3>5 DEF Rejoins
    <3>7. Segments(t) = Append(q, <<>>)
      BY <1>0, <3>3, <3>6, SegmentsAppend DEF Strings
    <3>8. QED  BY <2>3, <2>4, <2>8, <3>7
  <2>9. CASE w # <<>>
    <3>1. PICK v \in Strings, c \in Characters : w = Append(v, c)
      BY <2>9, AtLast DEF Strings
    <3>2. NoSlash(v) /\ c # "/"
      BY <2>5, <3>1, NoSlashAppend
    <3>3. PICK p1 \in Seq(Strings) : p1 = Append(q, v) /\ IsParts(p1) /\ p1 # <<>> /\ Front(p1) = q /\ Last(p1) = v
      <4>1. IsParts(Append(q, v))
        BY <2>5, <3>2, PartsAppend
      <4>2. Append(q, v) \in Seq(Strings) /\ Append(q, v) # <<>> /\ Front(Append(q, v)) = q /\ Last(Append(q, v)) = v
        BY OffLast
      <4>3. QED  BY <4>1, <4>2
    <3>4. PICK u \in Strings : Joined(p1) = <<"/">> \o u
      BY <3>3, JoinedIs
    <3>5. <<"/">> \o t = Append(<<"/">> \o u, c)
      <4>1. Joined(p1) = Joined(q) \o (<<"/">> \o v)
        BY <2>6, <3>3, JoinedAppend
      <4>2. <<"/">> \o Append(v, c) = Append(<<"/">> \o v, c)
        BY <1>0, AppendBehind DEF Strings
      <4>3. <<"/">> \o v \in Strings
        BY <1>0, ConcatProperties DEF Strings
      <4>4. Joined(q) \o Append(<<"/">> \o v, c) = Append(Joined(q) \o (<<"/">> \o v), c)
        <5>1. PICK g \in Seq(Characters), h \in Seq(Characters) : g = Joined(q) /\ h = <<"/">> \o v
          BY <2>6, <4>3 DEF Strings
        <5>2. g \o Append(h, c) = Append(g \o h, c)
          BY <5>1, AppendBehind
        <5>3. QED  BY <5>1, <5>2
      <4>5. QED  BY <2>3, <2>6, <3>1, <3>4, <4>1, <4>2, <4>4
    <3>6. t = Append(u, c) /\ Len(u) \in Nat /\ Len(t) = Len(u) + 1
      BY <3>5, TextShort
    <3>7. Len(u) \in Nat /\ ~(n <= Len(u))
      BY <2>2, <3>6
    <3>8. Rejoins(u)
      BY <2>1, <3>7
    <3>9. Segments(u) = p1
      BY <3>3, <3>4, <3>8 DEF Rejoins
    <3>10. Segments(t) = Append(q, Append(v, c))
      <4>1. Segments(Append(u, c)) = Append(Front(Segments(u)), Append(Last(Segments(u)), c))
        BY <3>2, SegmentsAppend DEF Strings
      <4>2. QED  BY <3>3, <3>6, <3>9, <4>1
    <3>11. QED  BY <2>3, <2>4, <3>1, <3>10
  <2>10. QED  BY <2>7, <2>8, <2>9
<1>2. ASSUME ~Rejoins(k) PROVE FALSE
  <2>1. Len(k) \in T
    BY <1>2, LenProperties DEF Strings
  <2>2. QED  BY <1>1, <2>1
<1>3. QED  BY <1>2

-----------------------------------------------------------------------------
(* Items, and paths of them.                                               *)

\* A text is read as an index if its number is one, and as a name otherwise, and
\* is printed again as it was unless it has zeros it does not need.
LEMMA TextReads ==
  ASSUME NEW s \in Strings
  PROVE  LET item == ItemFromText(s)
             needless == Len(s) > 1 /\ IsDigits(s) /\ Number10(s) <= MaxIndex /\ s[1] = "0"
         IN /\ item \in Items /\ item.owned /\ ItemText(item) \in Strings
            /\ ~item.isIndex => item.name = s /\ item = ItemOfName(s)
            /\ item.isIndex => NoSlash(ItemText(item))
            /\ ItemText(item) = s <=> ~needless
<1> DEFINE item == ItemFromText(s)
           needless == Len(s) > 1 /\ IsDigits(s) /\ Number10(s) <= MaxIndex /\ s[1] = "0"
<1>1. MaxIndex \in Nat /\ <<>> \in Strings
  BY EmptySeq, PathsAssumption DEF Strings
<1>2. CASE IsDigits(s) /\ Number10(s) <= MaxIndex
  <2>1. item = ItemOfIndex(Number10(s))
    BY <1>2 DEF ItemFromText
  <2>2. PICK n \in 0 .. MaxIndex : n = Number10(s)
    <3>1. Number10(s) \in Nat
      BY <1>2, DigitsReadBack DEF ReadsBack, Strings
    <3>2. QED  BY <1>1, <1>2, <3>1
  <2>3. item.isIndex /\ item.index = n /\ item.owned
    BY <2>1, <2>2 DEF ItemOfIndex
  <2>4. item \in Items
    BY <2>1, <2>2 DEF ItemOfIndex, Items
  <2>5. ItemText(item) = Decimal[n]
    BY <2>3 DEF ItemText
  <2>6. PICK d : d = Decimal[n] /\ IsText(d, n)
    BY DecimalReads
  <2>7. d \in Strings /\ d # <<>> /\ IsDigits(d) /\ (n # 0 => d[1] # "0") /\ (Len(d) > 1 => n # 0)
    BY <2>6 DEF IsText, Strings
  <2>8. NoSlash(d)
    <3>1. \A j \in DOMAIN Digit : Digit[j] # "/"
      BY Digits
    <3>2. QED  BY <2>7, <3>1 DEF NoSlash, IsDigits
  <2>9. d = s <=> ~needless
    <3>1. s # <<>> /\ Len(s) \in Nat \ {0}
      BY <1>2, EmptySeq DEF IsDigits, Strings
    <3>2. (Len(s) = 1 \/ s[1] # "0") => d = s
      BY <1>2, <2>2, <2>6, DigitsReadBack DEF ReadsBack, Strings
    <3>3. d = s => ~(Len(s) > 1 /\ s[1] = "0")
      BY <2>7
    <3>4. needless <=> Len(s) > 1 /\ s[1] = "0"
      BY <1>2
    <3>5. ~(Len(s) > 1) => Len(s) = 1
      <4>1. PICK k \in Nat \ {0} : k = Len(s)
        BY <3>1
      <4>2. ~(k > 1) => k = 1
        OBVIOUS
      <4>3. QED  BY <4>1, <4>2
    <3> HIDE DEF needless
    <3>6. QED  BY <3>2, <3>3, <3>4, <3>5, Zenon
  <2> HIDE DEF item, needless
  <2>10. QED  BY <2>3, <2>4, <2>5, <2>6, <2>7, <2>8, <2>9 DEF item, needless
<1>3. CASE ~(IsDigits(s) /\ Number10(s) <= MaxIndex)
  <2>1. item = ItemOfName(s)
    BY <1>3 DEF ItemFromText
  <2>2. ~item.isIndex /\ item.name = s /\ item.owned
    BY <2>1 DEF ItemOfName
  <2>3. item \in Items
    BY <2>1 DEF ItemOfName, Items, Strings
  <2>4. ItemText(item) = s
    BY <2>2 DEF ItemText
  <2>5. ~needless
    BY <1>3
  <2> HIDE DEF item, needless
  <2>6. QED  BY <2>1, <2>2, <2>3, <2>4, <2>5 DEF item, needless
<1>4. QED  BY <1>2, <1>3

\* An index is printed without a slash, and is read again.
LEMMA ItemReads ==
  ASSUME NEW item \in Items
  PROVE  /\ ItemText(item) \in Strings
         /\ item.isIndex => NoSlash(ItemText(item)) /\ ItemFromText(ItemText(item)) = item
         /\ ~item.isIndex => ItemText(item) = item.name
<1>1. CASE item \in [isIndex : {TRUE}, index : 0 .. MaxIndex, name : {<<>>}, owned : {TRUE}]
  <2>1. item.isIndex /\ item.index \in 0 .. MaxIndex /\ item = ItemOfIndex(item.index)
    BY <1>1 DEF ItemOfIndex
  <2>2. PICK n \in 0 .. MaxIndex : n = item.index
    BY <2>1
  <2>3. PICK d : d = Decimal[n] /\ IsText(d, n)
    BY DecimalReads
  <2>4. d \in Strings /\ IsDigits(d) /\ Number10(d) = n
    BY <2>3 DEF IsText, Strings
  <2>5. ItemText(item) = d
    BY <2>1, <2>2, <2>3 DEF ItemText
  <2>6. NoSlash(d)
    <3>1. \A j \in DOMAIN Digit : Digit[j] # "/"
      BY Digits
    <3>2. QED  BY <2>4, <3>1 DEF NoSlash, IsDigits
  <2>7. ItemFromText(d) = ItemOfIndex(n)
    <3>1. Number10(d) <= MaxIndex
      BY <2>4, PathsAssumption
    <3>2. QED  BY <2>4, <3>1 DEF ItemFromText
  <2>8. QED  BY <2>1, <2>2, <2>4, <2>5, <2>6, <2>7
<1>2. CASE item \in [isIndex : {FALSE}, index : {0}, name : Seq(Characters), owned : BOOLEAN]
  <2>1. ~item.isIndex /\ item.name \in Strings
    BY <1>2 DEF Strings
  <2>2. ItemText(item) = item.name
    BY <2>1 DEF ItemText
  <2>3. QED  BY <2>1, <2>2
<1>3. QED  BY <1>1, <1>2 DEF Items

\* A name that owns its text is what is made of the text.
LEMMA NameReads ==
  ASSUME NEW item \in Items, ~item.isIndex
  PROVE  item.name \in Strings /\ (item.owned => item = ItemOfName(item.name))
<1>1. item \in [isIndex : {FALSE}, index : {0}, name : Seq(Characters), owned : BOOLEAN]
  BY DEF Items
<1>2. QED  BY <1>1 DEF Strings, ItemOfName

\* The text of a path joins the texts of its items.
Texts(path) == [i \in DOMAIN path |-> ItemText(path[i])]

\* They are texts, as many as there are items, and no path but the empty one has none.
LEMMA PathTextIs ==
  ASSUME NEW path \in Seq(Items), path # <<>>
  PROVE  /\ Texts(path) \in Seq(Strings) /\ Texts(path) # <<>> /\ DOMAIN Texts(path) = DOMAIN path
         /\ \A i \in DOMAIN path : Texts(path)[i] = ItemText(path[i])
         /\ PathText(path) = Joined(Texts(path))
<1> DEFINE t == Texts(path)
<1>1. Len(path) \in Nat \ {0} /\ DOMAIN path = 1 .. Len(path)
  BY EmptySeq, LenProperties
<1>2. \A i \in 1 .. Len(path) : ItemText(path[i]) \in Strings
  BY ElementOfSeq, ItemReads
<1>3. t = [i \in 1 .. Len(path) |-> ItemText(path[i])]
  BY <1>1 DEF Texts
<1>4. t \in Seq(Strings) /\ Len(t) = Len(path)
  <2> HIDE DEF t
  <2>1. QED  BY <1>1, <1>2, <1>3
<1>5. DOMAIN t = DOMAIN path /\ \A i \in DOMAIN path : t[i] = ItemText(path[i])
  BY DEF Texts
<1>6. [i \in DOMAIN path |-> <<"/">> \o ItemText(path[i])] = [i \in DOMAIN t |-> <<"/">> \o t[i]]
  <2> HIDE DEF t
  <2>1. QED  BY <1>5
<1>7. PathText(path) = FlattenSeq([i \in DOMAIN path |-> <<"/">> \o ItemText(path[i])])
  BY DEF PathText
<1>8. t # <<>>
  <2> HIDE DEF t
  <2>1. QED  BY <1>1, <1>4, EmptySeq
<1> HIDE DEF t
<1>9. PathText(path) = Joined(t)
  BY <1>6, <1>7 DEF Joined
<1>10. QED  BY <1>4, <1>5, <1>8, <1>9 DEF t

\* What is read from a text that starts with a slash.
LEMMA PathReads ==
  ASSUME NEW u \in Strings
  PROVE  LET s == <<"/">> \o u
             parts == Segments(u)
         IN /\ IsPathText(s) /\ Tail(s) = u /\ IsParts(parts) /\ Joined(parts) = s
            /\ PathFromText(s) = [i \in DOMAIN parts |-> ItemFromText(parts[i])]
            /\ PathFromText(s) \in Seq(Items) /\ PathFromText(s) # <<>>
<1> DEFINE s == <<"/">> \o u
           parts == Segments(u)
           path == [i \in DOMAIN parts |-> ItemFromText(parts[i])]
<1>1. s # <<>> /\ Head(s) = "/" /\ Tail(s) = u
  BY OffFirst, PathsAssumption DEF Strings
<1>2. IsParts(parts) /\ Joined(parts) = s
  BY SegmentsAre DEF Splits
<1>3. PathFromText(s) = path
  BY <1>1 DEF PathFromText
<1>4. path \in Seq(Items) /\ path # <<>>
  <2> HIDE DEF parts
  <2>1. parts \in Seq(Strings) /\ Len(parts) \in Nat \ {0} /\ DOMAIN parts = 1 .. Len(parts)
    BY <1>2, EmptySeq, LenProperties DEF IsParts
  <2>2. \A i \in 1 .. Len(parts) : ItemFromText(parts[i]) \in Items
    BY <2>1, ElementOfSeq, TextReads
  <2>3. path = [i \in 1 .. Len(parts) |-> ItemFromText(parts[i])]
    BY <2>1
  <2> HIDE DEF path
  <2>4. path \in Seq(Items) /\ Len(path) = Len(parts)
    BY <2>1, <2>2, <2>3
  <2>5. QED  BY <2>1, <2>4, EmptySeq
<1>5. IsPathText(s)
  BY <1>1 DEF IsPathText
<1> HIDE DEF path
<1>6. QED  BY <1>1, <1>2, <1>3, <1>4, <1>5 DEF path

\* A path is read back from its text if every item is, and has no slash; what is
\* read owns all its names.
LEMMA PrintedIsRead ==
  ASSUME NEW p \in Seq(Items)
  PROVE  /\ PathsEqual(PathFromText(PathText(p)), p) <=> IsPlain(p)
         /\ ValuePathsEqual(PathFromText(PathText(p)), p) <=> IsPlain(p) /\ OwnsNames(p)
<1>1. CASE p = <<>>
  <2>1. PathText(p) = <<"/">> /\ ~IsPlain(p)
    BY <1>1 DEF PathText, IsPlain
  <2>2. PICK e \in Strings : e = <<>>
    BY EmptySeq DEF Strings
  <2>3. <<"/">> \o e = <<"/">>
    <3>1. <<"/">> \in Seq(Characters)
      BY PathsAssumption
    <3>2. QED  BY <2>2, <3>1, ConcatEmptySeq
  <2>4. /\ PathFromText(<<"/">> \o e) \in Seq(Items)
        /\ PathFromText(<<"/">> \o e) # <<>>
    BY PathReads
  <2>5. PICK read \in Seq(Items) : read = PathFromText(PathText(p)) /\ read # <<>>
    BY <2>1, <2>3, <2>4
  <2>6. ~PathsEqual(read, p) /\ ~ValuePathsEqual(read, p)
    <3>1. DOMAIN read = 1 .. Len(read) /\ DOMAIN p = {} /\ Len(read) \in Nat \ {0}
      BY <1>1, <2>5, EmptySeq, LenProperties
    <3>2. QED  BY <1>1, <2>5, <3>1 DEF PathsEqual, ValuePathsEqual
  <2>7. QED  BY <2>1, <2>5, <2>6
<1>2. CASE p # <<>>
  <2>1. PICK t \in Seq(Strings) : /\ t # <<>> /\ DOMAIN t = DOMAIN p /\ PathText(p) = Joined(t)
                                  /\ \A i \in DOMAIN p : t[i] = ItemText(p[i])
    BY <1>2, PathTextIs
  <2>2. PICK u \in Strings : Joined(t) = <<"/">> \o u
    BY <2>1, JoinedIs
  <2>3. PICK parts : parts = Segments(u) /\ IsParts(parts)
    BY PathReads
  <2>4. PICK read : read = PathFromText(PathText(p)) /\ read = [i \in DOMAIN parts |-> ItemFromText(parts[i])]
    BY <2>1, <2>2, <2>3, PathReads
  <2>5. \A i \in DOMAIN p : p[i] \in Items
    BY ElementOfSeq, LenProperties
  <2>6. p = [i \in DOMAIN p |-> p[i]]
    BY LenProperties
  <2>7. ASSUME IsPlain(p) PROVE PathsEqual(read, p) /\ (OwnsNames(p) => read = p)
    <3>1. ASSUME NEW i \in DOMAIN p
          PROVE  /\ NoSlash(t[i]) /\ ItemsEqual(ItemFromText(t[i]), p[i])
                 /\ p[i].owned => ItemFromText(t[i]) = p[i]
      <4>1. PICK item \in Items : item = p[i]
        BY <2>5
      <4>2. CASE item.isIndex
        BY <2>1, <4>1, <4>2, ItemReads DEF ItemsEqual
      <4>3. CASE ~item.isIndex
        <5>1. t[i] = item.name /\ item.name \in Strings
          BY <2>1, <4>1, <4>3, ItemReads
        <5>2. ItemFromText(item.name) = ItemOfName(item.name) /\ Len(Segments(item.name)) = 1
          BY <2>7, <4>1, <4>3 DEF IsPlain
        <5>3. NoSlash(item.name)
          BY <5>1, <5>2, SegmentsAre DEF Splits
        <5>4. item.owned => ItemOfName(item.name) = item
          BY <4>3, NameReads
        <5>5. ItemsEqual(ItemOfName(item.name), item)
          BY <4>3 DEF ItemsEqual, ItemOfName
        <5>6. QED  BY <4>1, <5>1, <5>2, <5>3, <5>4, <5>5
      <4>4. QED  BY <4>2, <4>3
    <3>2. IsParts(t)
      BY <2>1, <3>1 DEF IsParts
    <3>3. parts = t
      BY <2>2, <2>3, <3>2, JoinedSplits DEF Rejoins
    <3>4. DOMAIN read = DOMAIN p /\ read = [i \in DOMAIN p |-> ItemFromText(t[i])]
      BY <2>1, <2>4, <3>3
    <3>5. PathsEqual(read, p)
      BY <3>1, <3>4 DEF PathsEqual
    <3>6. OwnsNames(p) => read = p
      BY <2>6, <3>1, <3>4 DEF OwnsNames
    <3>7. QED  BY <3>5, <3>6
  <2>8. ASSUME PathsEqual(read, p) PROVE IsPlain(p)
    <3>1. DOMAIN parts = DOMAIN p /\ \A i \in DOMAIN p : ItemsEqual(ItemFromText(parts[i]), p[i])
      BY <2>4, <2>8 DEF PathsEqual
    <3>2. \A i \in DOMAIN p : parts[i] \in Strings /\ NoSlash(parts[i])
      BY <2>3, <3>1, ElementOfSeq, LenProperties DEF IsParts
    <3>3. ASSUME NEW i \in DOMAIN p, ~p[i].isIndex
          PROVE  /\ ItemFromText(p[i].name) = ItemOfName(p[i].name)
                 /\ Len(Segments(p[i].name)) = 1
      <4>1. PICK s \in Strings : s = parts[i]
        BY <3>2
      <4>2. p[i].name = s /\ ItemFromText(s) = ItemOfName(s)
        BY <3>1, <3>3, <4>1, TextReads DEF ItemsEqual
      <4>3. Len(Segments(s)) = 1
        BY <3>2, <4>1, SegmentsAre DEF Splits
      <4>4. QED  BY <4>2, <4>3
    <3>4. QED  BY <1>2, <3>3 DEF IsPlain
  <2>9. ASSUME read = p PROVE PathsEqual(read, p) /\ OwnsNames(p)
    <3>1. \A i \in DOMAIN p : p[i] = ItemFromText(parts[i]) /\ parts[i] \in Strings
      BY <2>3, <2>4, <2>9, ElementOfSeq, LenProperties DEF IsParts
    <3>2. \A i \in DOMAIN p : p[i].owned
      BY <3>1, TextReads
    <3>3. QED  BY <2>9, <3>2 DEF PathsEqual, ItemsEqual, OwnsNames
  <2>10. QED  BY <2>4, <2>7, <2>8, <2>9 DEF ValuePathsEqual
<1>3. QED  BY <1>1, <1>2

\* A text that was read is printed as it was if every item is.
LEMMA ReadIsPrinted ==
  ASSUME NEW s \in Strings, IsPathText(s)
  PROVE  /\ PathFromText(s) \in Seq(Items)
         /\ PathText(PathFromText(s)) = s <=>
              \A part \in Range(Segments(Tail(s))) :
                Len(part) > 1 /\ IsDigits(part) /\ Number10(part) <= MaxIndex => part[1] # "0"
<1> DEFINE Needless(part) == Len(part) > 1 /\ IsDigits(part) /\ Number10(part) <= MaxIndex /\ part[1] = "0"
<1>1. PICK u \in Strings : u = Tail(s) /\ s = <<"/">> \o u
  BY AtFirst DEF Strings, IsPathText
<1>2. PICK parts : parts = Segments(u) /\ IsParts(parts) /\ Joined(parts) = s
  BY <1>1, PathReads
<1>3. PICK read \in Seq(Items) : /\ read = PathFromText(s) /\ read # <<>>
                                 /\ read = [i \in DOMAIN parts |-> ItemFromText(parts[i])]
  BY <1>1, <1>2, PathReads
<1>4. PICK t \in Seq(Strings) : /\ t # <<>> /\ DOMAIN t = DOMAIN read /\ PathText(read) = Joined(t)
                                /\ \A i \in DOMAIN read : t[i] = ItemText(read[i])
  BY <1>3, PathTextIs
<1>5. DOMAIN t = DOMAIN parts /\ \A i \in DOMAIN parts : t[i] = ItemText(ItemFromText(parts[i]))
  BY <1>3, <1>4
<1>6. \A i \in DOMAIN parts : parts[i] \in Strings /\ NoSlash(parts[i])
  BY <1>2, ElementOfSeq, LenProperties DEF IsParts
<1>7. ASSUME NEW i \in DOMAIN parts
      PROVE  NoSlash(t[i]) /\ (t[i] = parts[i] <=> ~Needless(parts[i]))
  <2>1. PICK part \in Strings : part = parts[i] /\ NoSlash(part)
    BY <1>6
  <2>2. PICK item : item = ItemFromText(part) /\ t[i] = ItemText(item)
    BY <1>5, <2>1
  <2>3. /\ ItemText(item) \in Strings /\ item \in Items
        /\ ~item.isIndex => item.name = part
        /\ item.isIndex => NoSlash(ItemText(item))
        /\ ItemText(item) = part <=> ~Needless(part)
    BY <2>2, TextReads
  <2>4. ~item.isIndex => ItemText(item) = part
    BY <2>3, ItemReads
  <2> HIDE DEF Needless
  <2>5. QED  BY <2>1, <2>2, <2>3, <2>4
<1>8. IsParts(t)
  BY <1>4, <1>5, <1>7 DEF IsParts
<1>9. PathText(read) = s <=> t = parts
  <2>1. ASSUME Joined(t) = s PROVE t = parts
    BY <1>1, <1>2, <1>8, <2>1, JoinedSplits DEF Rejoins
  <2>2. QED  BY <1>2, <1>4, <2>1
<1>10. t = parts <=> \A i \in DOMAIN parts : t[i] = parts[i]
  <2>1. t = [i \in DOMAIN t |-> t[i]] /\ parts = [i \in DOMAIN parts |-> parts[i]]
    BY <1>2, <1>4, LenProperties DEF IsParts
  <2>2. QED  BY <1>5, <2>1
<1>11. Range(parts) = {parts[i] : i \in DOMAIN parts}
  BY DEF Range
<1>12. (\A i \in DOMAIN parts : ~Needless(parts[i])) <=> \A part \in Range(parts) : ~Needless(part)
  <2> HIDE DEF Needless
  <2>1. QED  BY <1>11
<1>13. (\A part \in Range(parts) : ~Needless(part)) <=>
         \A part \in Range(parts) :
           Len(part) > 1 /\ IsDigits(part) /\ Number10(part) <= MaxIndex => part[1] # "0"
  OBVIOUS
<1> HIDE DEF Needless
<1>14. PathText(read) = s <=> \A part \in Range(parts) : ~Needless(part)
  BY <1>7, <1>9, <1>10, <1>12
<1>15. QED  BY <1>1, <1>2, <1>3, <1>13, <1>14

\* The path and the text as the actions leave them, whatever is typed.
PathTypes == route \in Seq(Items) /\ text \in Strings

\* Paths are read back from their texts, and texts printed as they were, with
\* the exceptions that PathsSurviveText names and no others, for items and texts
\* of any length over any characters, and any largest index: as Path compares
\* them, and as ValuePath does, which tells apart who owns a name.
THEOREM PathsSurvive == TextSpec => []PathsSurviveText
<1>1. TextInit => PathTypes
  BY EmptySeq DEF TextInit, PathInit, PathTypes, Strings
<1>2. PathTypes /\ [TextNext]_TextVars => PathTypes'
  <2> SUFFICES ASSUME PathTypes, [TextNext]_TextVars PROVE PathTypes'
    OBVIOUS
  <2>1. route \in Seq(Items) /\ text \in Seq(Characters)
    BY DEF PathTypes, Strings
  <2>2. ASSUME NEW item \in Routes, Descend(item) PROVE PathTypes'
    <3>1. item \in Items
      BY PathsAssumption
    <3>2. route' \in Seq(Items) /\ text' = text
      BY <2>1, <2>2, <3>1, OffLast DEF Descend
    <3>3. QED  BY <2>1, <3>2 DEF PathTypes, Strings
  <2>3. ASSUME NEW c \in Letters, Type(c) PROVE PathTypes'
    <3>1. c \in Characters
      BY PathsAssumption
    <3>2. text' \in Seq(Characters) /\ route' = route
      BY <2>1, <2>3, <3>1, OffLast DEF Type
    <3>3. QED  BY <2>1, <3>2 DEF PathTypes, Strings
  <2>4. CASE Ascend
    <3>1. route' \in Seq(Items) /\ text' = text
      BY <2>1, <2>4, AtLast DEF Ascend
    <3>2. QED  BY <2>1, <3>1 DEF PathTypes, Strings
  <2>5. CASE Show
    <3>1. PathText(route) \in Strings
      <4>1. CASE route = <<>>
        BY <4>1, PathsAssumption DEF PathText, Strings
      <4>2. CASE route # <<>>
        BY <2>1, <4>2, PathTextIs, JoinedIs
      <4>3. QED  BY <4>1, <4>2
    <3>2. QED  BY <2>1, <2>5, <3>1 DEF Show, PathTypes
  <2>6. CASE Enter
    <3>1. PathFromText(text) \in Seq(Items)
      BY <2>1, <2>6, ReadIsPrinted DEF Enter, Strings
    <3>2. QED  BY <2>1, <2>6, <3>1 DEF Enter, PathTypes, Strings
  <2>7. CASE UNCHANGED pathVars
    BY <2>1, <2>7 DEF pathVars, PathTypes, Strings
  <2>8. QED  BY <2>2, <2>3, <2>4, <2>5, <2>6, <2>7 DEF TextNext, PathNext, TextVars
<1>3. PathTypes => PathsSurviveText
  BY PrintedIsRead, ReadIsPrinted DEF PathTypes, PathsSurviveText, PrintedPathIsRead, ReadPathIsPrinted
<1>4. QED  BY <1>1, <1>2, <1>3, PTL DEF TextSpec
===============================================================================
