--------------------------- MODULE LinkedListProofs ---------------------------
(***************************************************************************)
(* Proofs about LinkedList and ListWalk for any set of items and lists.    *)
(* First the pointers: the inductive invariant is the type invariant with  *)
(* the mirror property itself, and what makes it inductive is that nothing *)
(* is moved from a ring of its own (~MoveUnlinked).  Then the sequences: a *)
(* walk along the pointers is what Traversal lists, and each call cuts the *)
(* walks, puts an item into one or lets one node take over from another.   *)
(* Last the loop, which stays in its place because no call changes the     *)
(* order of what it does not name.                                         *)
(***************************************************************************)
EXTENDS ListWalk, FiniteSetTheorems, WellFoundedInduction, NaturalsInduction,
        SequenceTheorems, TLAPS

\* A pair of pointer functions that mirror each other on the set A.
Mirror(A, nx, pv) ==
  \A n \in A : /\ nx[n] \in A /\ pv[nx[n]] = n
               /\ pv[n] \in A /\ nx[pv[n]] = n

IInv == TypeOK /\ DoublyLinked

\* Cutting n out of its ring leaves n alone and the others mirrored.
LEMMA UnlinkMirrors ==
  ASSUME IInv, NEW n \in alive
  PROVE  /\ UnlinkedNext(n) \in [Nodes -> Nodes]
         /\ UnlinkedPrev(n) \in [Nodes -> Nodes]
         /\ Mirror(alive, UnlinkedNext(n), UnlinkedPrev(n))
         /\ UnlinkedNext(n)[n] = n /\ UnlinkedPrev(n)[n] = n
  BY DEF IInv, TypeOK, DoublyLinked, Mirror, UnlinkedNext, UnlinkedPrev

\* A new object `to`, in no ring, takes over the place of `from`.
LEMMA TakeMirrors ==
  ASSUME NEW A \in SUBSET Nodes, NEW nx \in [Nodes -> Nodes],
         NEW pv \in [Nodes -> Nodes], Mirror(A, nx, pv),
         NEW from \in A, pv[from] # from, NEW to \in Nodes, to # from,
         to \in A => nx[to] = to /\ pv[to] = to
  PROVE  /\ TakenNext(nx, pv, to, from) \in [Nodes -> Nodes]
         /\ TakenPrev(nx, pv, to, from) \in [Nodes -> Nodes]
         /\ Mirror(A \union {to}, TakenNext(nx, pv, to, from),
                                  TakenPrev(nx, pv, to, from))
  BY DEF Mirror, TakenNext, TakenPrev

\* The pointers after `n` was put between `that` and what was before it.
PutNext(nx, pv, n, that) == [nx EXCEPT ![n] = that, ![pv[that]] = n]
PutPrev(nx, pv, n, that) ==
  [pv EXCEPT ![n] = pv[that], ![PutNext(nx, pv, n, that)[n]] = n]

\* A node that is in no ring joins that of `that`.
LEMMA PutMirrors ==
  ASSUME NEW A \in SUBSET Nodes, NEW nx \in [Nodes -> Nodes],
         NEW pv \in [Nodes -> Nodes], Mirror(A, nx, pv),
         NEW n \in A, NEW that \in A, nx[n] = n, pv[n] = n
  PROVE  /\ PutNext(nx, pv, n, that) \in [Nodes -> Nodes]
         /\ PutPrev(nx, pv, n, that) \in [Nodes -> Nodes]
         /\ Mirror(A, PutNext(nx, pv, n, that), PutPrev(nx, pv, n, that))
<1>1. CASE that = n
  BY <1>1 DEF Mirror, PutNext, PutPrev
<1>2. CASE that # n
  <2>1. pv[that] # n /\ PutNext(nx, pv, n, that)[n] = that
    BY <1>2 DEF Mirror, PutNext
  <2>2. QED  BY <1>2, <2>1 DEF Mirror, PutNext, PutPrev
<1>3. QED  BY <1>1, <1>2

\* The same set of live nodes, without one that is alone.
LEMMA WithoutAlone ==
  ASSUME NEW A, NEW nx, NEW pv, Mirror(A, nx, pv),
         NEW n \in A, nx[n] = n, pv[n] = n
  PROVE  Mirror(A \ {n}, nx, pv)
  BY DEF Mirror

\* Pointers that mirror each other are what the invariant asks for.
LEMMA FromMirror ==
  ASSUME alive' \subseteq Nodes, next' \in [Nodes -> Nodes],
         prev' \in [Nodes -> Nodes], Mirror(alive', next', prev')
  PROVE  IInv'
  BY DEF Mirror, IInv, TypeOK, DoublyLinked

\* Nothing is constructed at first.
LEMMA InitInv == Init => IInv
  BY DEF Init, IInv, TypeOK, DoublyLinked

\* Every call keeps the pointers mirrored.
LEMMA NextInv ==
  ASSUME ~MoveUnlinked, IInv, [Next]_listVars
  PROVE  IInv'
<1>1. CASE UNCHANGED listVars
  BY <1>1 DEF listVars, IInv, TypeOK, DoublyLinked
<1>2. CASE \E n \in Nodes : Construct(n)
  BY <1>2 DEF Construct, IInv, TypeOK, DoublyLinked
<1>3. CASE \E n \in Nodes : Destroy(n)
  <2>1. PICK n \in Nodes : Destroy(n)
    BY <1>3
  <2>2. /\ next' \in [Nodes -> Nodes] /\ prev' \in [Nodes -> Nodes]
        /\ Mirror(alive, next', prev') /\ next'[n] = n /\ prev'[n] = n
    BY <2>1, UnlinkMirrors DEF Destroy
  <2>3. Mirror(alive', next', prev')
    BY <2>1, <2>2, WithoutAlone DEF Destroy
  <2>4. alive' \subseteq Nodes
    BY <2>1 DEF Destroy, IInv, TypeOK
  <2>5. QED  BY <2>2, <2>3, <2>4, FromMirror
<1>4. CASE \E n \in Nodes : Unlink(n)
  <2>1. PICK n \in Nodes : Unlink(n)
    BY <1>4
  <2>2. /\ next' \in [Nodes -> Nodes] /\ prev' \in [Nodes -> Nodes]
        /\ Mirror(alive, next', prev') /\ alive' = alive
    BY <2>1, UnlinkMirrors DEF Unlink
  <2>3. QED  BY <2>2, FromMirror DEF IInv, TypeOK
<1>5. CASE \E n, that \in Nodes : Link(n, that)
  <2>1. PICK n \in Nodes, that \in Nodes : Link(n, that)
    BY <1>5
  <2> DEFINE pv == UnlinkedPrev(n)
             nx == UnlinkedNext(n)
  <2>2. /\ nx \in [Nodes -> Nodes] /\ pv \in [Nodes -> Nodes]
        /\ Mirror(alive, nx, pv) /\ nx[n] = n /\ pv[n] = n
    BY <2>1, UnlinkMirrors DEF Link
  <2>3. /\ next' = PutNext(nx, pv, n, that)
        /\ prev' = PutPrev(nx, pv, n, that)
        /\ alive' = alive /\ n \in alive /\ that \in alive
    BY <2>1 DEF Link, PutNext, PutPrev
  <2> HIDE DEF nx, pv
  <2>4. /\ next' \in [Nodes -> Nodes] /\ prev' \in [Nodes -> Nodes]
        /\ Mirror(alive, next', prev')
    BY <2>2, <2>3, PutMirrors DEF IInv, TypeOK
  <2>5. QED  BY <2>3, <2>4, FromMirror DEF IInv, TypeOK
<1>6. CASE \E n, that \in Nodes : MoveConstruct(n, that)
  <2>1. PICK n \in Nodes, that \in Nodes : MoveConstruct(n, that)
    BY <1>6
  <2>2. Mirror(alive, next, prev)
    BY DEF IInv, DoublyLinked, Mirror
  <2>3. Mirror(alive \union {n}, next', prev')
        /\ next' \in [Nodes -> Nodes] /\ prev' \in [Nodes -> Nodes]
    BY <2>1, <2>2, TakeMirrors DEF MoveConstruct, Movable, IInv, TypeOK
  <2>4. QED
    BY <2>1, <2>3 DEF MoveConstruct, Mirror, IInv, TypeOK, DoublyLinked
<1>7. CASE \E n, that \in Nodes : MoveAssign(n, that)
  <2>1. PICK n \in Nodes, that \in Nodes : MoveAssign(n, that)
    BY <1>7
  <2>2. /\ UnlinkedNext(n) \in [Nodes -> Nodes]
        /\ UnlinkedPrev(n) \in [Nodes -> Nodes]
        /\ Mirror(alive, UnlinkedNext(n), UnlinkedPrev(n))
        /\ UnlinkedNext(n)[n] = n /\ UnlinkedPrev(n)[n] = n
    BY <2>1, UnlinkMirrors DEF MoveAssign
  <2>3. Mirror(alive \union {n}, next', prev')
        /\ next' \in [Nodes -> Nodes] /\ prev' \in [Nodes -> Nodes]
    BY <2>1, <2>2, TakeMirrors DEF MoveAssign, Movable, IInv, TypeOK
  <2>4. alive \union {n} = alive
    BY <2>1 DEF MoveAssign
  <2>5. QED
    BY <2>1, <2>3, <2>4 DEF MoveAssign, Mirror, IInv, TypeOK, DoublyLinked
<1>8. QED
  BY <1>1, <1>2, <1>3, <1>4, <1>5, <1>6, <1>7 DEF Next, Alone, Move

\* They are always mirrored.
LEMMA InvHolds == ASSUME ~MoveUnlinked PROVE Spec => []IInv
<1>1. Init => IInv
  BY InitInv
<1>2. IInv /\ [Next]_listVars => IInv'
  BY NextInv
<1>3. QED  BY <1>1, <1>2, PTL DEF Spec

\* Whatever sequence of constructions, links, moves and ends, the pointers
\* are nodes.
THEOREM Typed == ASSUME ~MoveUnlinked PROVE Spec => []TypeOK
<1>1. IInv => TypeOK
  BY DEF IInv
<1>2. QED  BY <1>1, InvHolds, PTL

\* Provided nothing is moved while in no list, next_ and prev_ mirror each
\* other and never lead to an ended object (linked_list.hpp:22-80).
THEOREM StaysDoublyLinked == ASSUME ~MoveUnlinked PROVE Spec => []DoublyLinked
<1>1. IInv => DoublyLinked
  BY DEF IInv
<1>2. QED  BY <1>1, InvHolds, PTL
-----------------------------------------------------------------------------
(* The operators of ItemLists on a sequence without repetitions.           *)

Distinct(s) == \A i, j \in 1 .. Len(s) : s[i] = s[j] => i = j

\* A sequence without its element k.
LEMMA WithoutOne ==
  ASSUME NEW S, NEW s \in Seq(S), NEW k \in 1 .. Len(s)
  PROVE  LET t == Lists!RemoveAt(s, k)
         IN  /\ t \in Seq(S) /\ Len(t) = Len(s) - 1
             /\ \A i \in 1 .. Len(s) - 1 : t[i] = IF i < k THEN s[i] ELSE s[i + 1]
<1> DEFINE a == SubSeq(s, 1, k - 1)
           b == SubSeq(s, k + 1, Len(s))
<1>1. Len(s) \in Nat /\ k \in Nat /\ 1 <= k /\ k <= Len(s)
  OBVIOUS
<1>2. \A i \in 1 .. Len(s) : s[i] \in S
  OBVIOUS
<1>3. a \in Seq(S) /\ Len(a) = k - 1 /\ \A i \in 1 .. k - 1 : a[i] = s[i]
  BY <1>1, <1>2, SubSeqProperties
<1>4. b \in Seq(S) /\ Len(b) = Len(s) - k /\ \A i \in 1 .. Len(s) - k : b[i] = s[k + i]
  BY <1>1, <1>2, SubSeqProperties
<1>5. Lists!RemoveAt(s, k) = a \o b
  BY DEF Lists!RemoveAt
<1> HIDE DEF a, b
<1> DEFINE t == a \o b
<1>6. t \in Seq(S) /\ Len(t) = Len(s) - 1
  <2>1. t \in Seq(S) /\ Len(t) = Len(a) + Len(b)
    BY <1>3, <1>4, ConcatProperties
  <2> HIDE DEF t
  <2>2. QED  BY <1>1, <1>3, <1>4, <2>1
<1>7. \A i \in 1 .. Len(s) - 1 : t[i] = IF i <= Len(a) THEN a[i] ELSE b[i - Len(a)]
  <2>1. \A i \in 1 .. Len(a) + Len(b) : t[i] = IF i <= Len(a) THEN a[i] ELSE b[i - Len(a)]
    BY <1>3, <1>4, ConcatProperties
  <2> HIDE DEF t
  <2>2. Len(a) + Len(b) = Len(s) - 1
    BY <1>1, <1>3, <1>4
  <2>3. QED  BY <2>1, <2>2
<1> HIDE DEF t
<1>8. ASSUME NEW i \in 1 .. Len(s) - 1
      PROVE  t[i] = IF i < k THEN s[i] ELSE s[i + 1]
  <2>1. CASE i < k
    BY <1>1, <1>3, <1>7, <2>1
  <2>2. CASE ~(i < k)
    <3>1. i - (k - 1) \in 1 .. Len(s) - k /\ k + (i - (k - 1)) = i + 1
      BY <1>1, <2>2
    <3>2. t[i] = b[i - (k - 1)]
      BY <1>1, <1>3, <1>7, <2>2
    <3>3. QED  BY <1>4, <2>2, <3>1, <3>2
  <2>3. QED  BY <2>1, <2>2
<1>9. QED  BY <1>5, <1>6, <1>8 DEF t

\* What RemoveFirst leaves.
LEMMA RemoveIs ==
  ASSUME NEW S, NEW s \in Seq(S), Distinct(s), NEW n
  PROVE  LET t == Lists!RemoveFirst(s, n)
         IN  /\ (\A i \in 1 .. Len(s) : s[i] # n) => t = s
             /\ \A k \in 1 .. Len(s) : s[k] = n =>
                  /\ t \in Seq(S) /\ Len(t) = Len(s) - 1
                  /\ \A i \in 1 .. Len(s) - 1 : t[i] = IF i < k THEN s[i] ELSE s[i + 1]
<1>1. (\A i \in 1 .. Len(s) : s[i] # n) => Lists!RemoveFirst(s, n) = s
  BY DEF Lists!RemoveFirst
<1>2. ASSUME NEW k \in 1 .. Len(s), s[k] = n
      PROVE  Lists!RemoveFirst(s, n) = Lists!RemoveAt(s, k)
  <2>1. {i \in 1 .. Len(s) : s[i] = n} = {k}
    BY <1>2 DEF Distinct
  <2>2. \A S2 : S2 = {k} => Lists!Min(S2) = k
    BY DEF Lists!Min
  <2>3. Lists!SelectInSeq(s, LAMBDA v : v = n) = k
    BY <2>1, <2>2 DEF Lists!SelectInSeq
  <2>4. QED  BY <1>2, <2>3 DEF Lists!RemoveFirst
<1>3. QED  BY <1>1, <1>2, WithoutOne

\* A sequence with n at place k, before what was there.
LEMMA WithOne ==
  ASSUME NEW S, NEW s \in Seq(S), NEW n \in S, NEW k \in 1 .. Len(s) + 1
  PROVE  LET t == Lists!InsertAt(s, k, n)
         IN  /\ t \in Seq(S) /\ Len(t) = Len(s) + 1
             /\ \A i \in 1 .. Len(s) + 1 :
                  t[i] = IF i < k THEN s[i] ELSE IF i = k THEN n ELSE s[i - 1]
<1> DEFINE a == SubSeq(s, 1, k - 1)
           b == SubSeq(s, k, Len(s))
           c == a \o <<n>>
           t == c \o b
<1>1. Len(s) \in Nat /\ k \in Nat /\ 1 <= k /\ k <= Len(s) + 1
  OBVIOUS
<1>2. \A i \in 1 .. Len(s) : s[i] \in S
  OBVIOUS
<1>3. a \in Seq(S) /\ Len(a) = k - 1 /\ \A i \in 1 .. k - 1 : a[i] = s[i]
  BY <1>1, <1>2, SubSeqProperties
<1>4. b \in Seq(S) /\ Len(b) = Len(s) - k + 1 /\ \A i \in 1 .. Len(s) - k + 1 : b[i] = s[k + i - 1]
  BY <1>1, <1>2, SubSeqProperties
<1>5. Lists!InsertAt(s, k, n) = t
  BY DEF Lists!InsertAt
<1>6. <<n>> \in Seq(S) /\ Len(<<n>>) = 1 /\ <<n>>[1] = n
  OBVIOUS
<1> HIDE DEF a, b
<1>7. c \in Seq(S) /\ Len(c) = k /\ \A i \in 1 .. k : c[i] = IF i < k THEN s[i] ELSE n
  <2>1. c \in Seq(S) /\ Len(c) = k
    BY <1>1, <1>3, <1>6, ConcatProperties
  <2>2. \A i \in 1 .. k : c[i] = IF i <= Len(a) THEN a[i] ELSE <<n>>[i - Len(a)]
    BY <1>1, <1>3, <1>6, ConcatProperties
  <2> HIDE DEF c
  <2>3. ASSUME NEW i \in 1 .. k PROVE c[i] = IF i < k THEN s[i] ELSE n
    BY <1>1, <1>3, <1>6, <2>2
  <2>4. QED  BY <2>1, <2>3
<1> HIDE DEF c
<1>8. t \in Seq(S) /\ Len(t) = Len(s) + 1
  <2>1. t \in Seq(S) /\ Len(t) = Len(c) + Len(b)
    BY <1>4, <1>7, ConcatProperties
  <2> HIDE DEF t
  <2>2. QED  BY <1>1, <1>4, <1>7, <2>1
<1>9. \A i \in 1 .. Len(s) + 1 : t[i] = IF i <= Len(c) THEN c[i] ELSE b[i - Len(c)]
  <2>1. \A i \in 1 .. Len(c) + Len(b) : t[i] = IF i <= Len(c) THEN c[i] ELSE b[i - Len(c)]
    BY <1>4, <1>7, ConcatProperties
  <2> HIDE DEF t
  <2>2. Len(c) + Len(b) = Len(s) + 1
    BY <1>1, <1>4, <1>7
  <2>3. QED  BY <2>1, <2>2
<1> HIDE DEF t
<1>10. ASSUME NEW i \in 1 .. Len(s) + 1
       PROVE  t[i] = IF i < k THEN s[i] ELSE IF i = k THEN n ELSE s[i - 1]
  <2>1. CASE i <= k
    BY <1>1, <1>7, <1>9, <2>1
  <2>2. CASE ~(i <= k)
    <3>1. i - k \in 1 .. Len(s) - k + 1 /\ k + (i - k) - 1 = i - 1
      BY <1>1, <2>2
    <3>2. t[i] = b[i - k]
      BY <1>1, <1>7, <1>9, <2>2
    <3>3. QED  BY <1>1, <1>4, <2>2, <3>1, <3>2
  <2>3. QED  BY <2>1, <2>2
<1>11. QED  BY <1>5, <1>8, <1>10

-----------------------------------------------------------------------------
\* A set of numbers has a least one.
LEMMA HasLeast ==
  ASSUME NEW S \in SUBSET Nat, S # {}
  PROVE  \E x \in S : \A y \in S : x <= y
<1> DEFINE R == OpToRel(<, Nat)
<1>1. PICK x \in S : \A y \in S : ~(<<y, x>> \in R)
  BY NatLessThanWellFounded, WFMin
<1>2. ASSUME NEW y \in S PROVE x <= y
  <2>1. x \in Nat /\ y \in Nat /\ (y < x => <<y, x>> \in R)
    BY DEF OpToRel
  <2> HIDE DEF R
  <2>2. QED  BY <1>1, <2>1
<1>3. QED  BY <1>2

(* What a walk along the pointers meets.                                   *)

\* The node after i steps from r through the items s, which end at r.
Stop(r, s, i) == IF i \in 1 .. Len(s) THEN s[i] ELSE r

\* The pointers nx lead from r through the items s and back to r.
IsWalk(A, nx, r, s) ==
  /\ s \in Seq(A \intersect Items) /\ Distinct(s)
  /\ \A i \in 0 .. Len(s) : nx[Stop(r, s, i)] = Stop(r, s, i + 1)

\* There are more nodes than items that a walk meets.
LEMMA WalkIsShort ==
  ASSUME TypeOK, NEW r \in alive \intersect Roots, NEW s, IsWalk(alive, next, r, s)
  PROVE  Cardinality(Nodes) \in Nat /\ Len(s) < Cardinality(Nodes)
<1>1. IsFiniteSet(Nodes) /\ Items \intersect Roots = {}
  BY ListAssumption
<1>2. Cardinality(Nodes) \in Nat
  BY <1>1, FS_CardinalityType
<1>3. s \in Seq(Items) /\ Len(s) \in Nat /\ Distinct(s) /\ \A i \in 1 .. Len(s) : s[i] \in Items
  BY DEF IsWalk
<1> DEFINE f == [i \in 0 .. Len(s) |-> Stop(r, s, i)]
<1>4. f \in [0 .. Len(s) -> Nodes]
  BY <1>3 DEF Stop, Nodes
<1>5. ASSUME NEW i \in 0 .. Len(s), NEW j \in 0 .. Len(s), f[i] = f[j] PROVE i = j
  BY <1>1, <1>3, <1>5 DEF Stop, Distinct
<1>6. f \in Injection(0 .. Len(s), Nodes)
  BY <1>4, <1>5 DEF Injection, IsInjective
<1>7. Cardinality(0 .. Len(s)) <= Cardinality(Nodes)
  <2> HIDE DEF f
  <2>1. QED  BY <1>1, <1>6, FS_Injection
<1>8. Cardinality(0 .. Len(s)) = Len(s) + 1
  <2>1. 0 \in Int /\ Len(s) \in Int /\ ~(0 > Len(s)) /\ Len(s) - 0 + 1 = Len(s) + 1
    BY <1>3
  <2>2. QED  BY <2>1, FS_Interval
<1>9. QED  BY <1>2, <1>3, <1>7, <1>8

\* There is one quotient and one remainder.
LEMMA OneRemainder ==
  ASSUME NEW d \in Nat \ {0}, NEW p \in 0 .. d - 1, NEW m \in Int, NEW e \in 0 .. d - 1,
         NEW n \in Int, d * m + p = d * n + e
  PROVE  p = e
<1>1. d * (m - n) = e - p
  OBVIOUS
<1>2. m - n < 1
  OBVIOUS
<1>3. m - n > -1
  OBVIOUS
<1>4. QED BY <1>1, <1>2, <1>3

\* One step around a ring of d nodes.
LEMMA AroundOne ==
  ASSUME NEW d \in Nat \ {0}, NEW k \in Nat \ {0}
  PROVE  LET p == (k - 1) % d
         IN  p \in 0 .. d - 1 /\ k % d = IF p = d - 1 THEN 0 ELSE p + 1
<1>1. (k - 1) % d \in 0 .. d - 1 /\ (k - 1) \div d \in Int /\ k - 1 = d * ((k - 1) \div d) + ((k - 1) % d)
  OBVIOUS
<1>2. k % d \in 0 .. d - 1 /\ k \div d \in Int /\ k = d * (k \div d) + (k % d)
  OBVIOUS
<1>3. PICK p \in 0 .. d - 1, m \in Int : p = (k - 1) % d /\ k - 1 = d * m + p
  BY <1>1
<1>4. PICK e \in 0 .. d - 1, n \in Int : e = k % d /\ k = d * n + e
  BY <1>2
<1>5. CASE p = d - 1
  <2>1. d * (m + 1) + 0 = d * n + e /\ m + 1 \in Int /\ 0 \in 0 .. d - 1
    BY <1>3, <1>4, <1>5
  <2>2. 0 = e
    BY <2>1, OneRemainder
  <2>3. QED  BY <1>3, <1>4, <1>5, <2>2
<1>6. CASE p # d - 1
  <2>1. d * m + (p + 1) = d * n + e /\ p + 1 \in 0 .. d - 1
    BY <1>3, <1>4, <1>6
  <2>2. p + 1 = e
    BY <2>1, OneRemainder
  <2>3. QED  BY <1>3, <1>4, <1>6, <2>2
<1>7. QED  BY <1>5, <1>6

\* The items that Traversal lists are those that a walk meets.
WalksAreTraversals ==
  \A r \in alive \intersect Roots : \A s : IsWalk(alive, next, r, s) => Traversal(r) = s

\* The nodes of After(r) are the stops of the walk, around and around.
LEMMA AfterIsStop ==
  ASSUME TypeOK, NEW r \in alive \intersect Roots, NEW s, IsWalk(alive, next, r, s)
  PROVE  \A i \in 0 .. Len(s) + 1 : After(r)[i] = Stop(r, s, i)
<1> DEFINE N == Cardinality(Nodes)
           d == Len(s) + 1
           Step(f) == [k \in 0 .. N |-> IF k = 0 THEN r ELSE next[f[k - 1]]]
           g == [k \in 0 .. N |-> Stop(r, s, k % d)]
<1>1. N \in Nat /\ Len(s) < N
  BY WalkIsShort
<1>2. Len(s) \in Nat /\ d \in Nat \ {0}
  BY DEF IsWalk
<1>3. After(r) = CHOOSE f : f = Step(f)
  BY DEF After
<1> HIDE DEF N, d
<1>4. g = Step(g)
  <2>1. ASSUME NEW k \in 0 .. N PROVE g[k] = IF k = 0 THEN r ELSE next[g[k - 1]]
    <3>1. CASE k = 0
      <4>1. 0 % d = 0
        BY <1>2
      <4>2. QED  BY <3>1, <4>1, <1>1 DEF Stop
    <3>2. CASE k # 0
      <4> DEFINE p == (k - 1) % d
      <4>1. k \in Nat \ {0} /\ k - 1 \in 0 .. N
        BY <1>1, <3>2
      <4>2. p \in 0 .. d - 1 /\ k % d = IF p = d - 1 THEN 0 ELSE p + 1
        BY <1>2, <4>1, AroundOne
      <4>3. g[k] = Stop(r, s, k % d) /\ g[k - 1] = Stop(r, s, p)
        BY <4>1
      <4> HIDE DEF p, g
      <4>4. next[Stop(r, s, p)] = Stop(r, s, p + 1)
        BY <1>2, <4>2 DEF IsWalk, d
      <4>5. Stop(r, s, p + 1) = Stop(r, s, k % d)
        BY <1>2, <4>2 DEF Stop, d
      <4>6. QED  BY <3>2, <4>3, <4>4, <4>5
    <3>3. QED  BY <3>1, <3>2
  <2>2. QED  BY <2>1
<1>5. After(r) = Step(After(r))
  <2> HIDE DEF g
  <2>1. QED  BY <1>3, <1>4
<1> DEFINE a == After(r)
<1>6. \A k \in 0 .. N : a[k] = IF k = 0 THEN r ELSE next[a[k - 1]]
  BY <1>5
<1> HIDE DEF a, g
<1> DEFINE T == {i \in 0 .. d : a[i] # Stop(r, s, i)}
<1>7. ASSUME T # {} PROVE FALSE
  <2>1. T \in SUBSET Nat
    BY <1>2
  <2>2. PICK i \in T : \A j \in T : i <= j
    BY <1>7, <2>1, HasLeast
  <2>3. i \in 0 .. d /\ i \in 0 .. N /\ a[i] # Stop(r, s, i)
    BY <1>1, <1>2, <2>2 DEF d
  <2>4. i # 0
    BY <1>1, <1>6, <2>3 DEF Stop
  <2>5. i - 1 \in 0 .. Len(s) /\ i - 1 \in 0 .. d /\ ~(i <= i - 1) /\ (i - 1) + 1 = i
    BY <1>2, <2>3, <2>4 DEF d
  <2>6. a[i - 1] = Stop(r, s, i - 1)
    BY <2>2, <2>5
  <2>7. next[Stop(r, s, i - 1)] = Stop(r, s, i)
    BY <2>5 DEF IsWalk
  <2>8. QED  BY <1>6, <2>3, <2>4, <2>6, <2>7
<1>8. QED  BY <1>7 DEF d, a

\* One walk leads from a list head, and it is what Traversal lists.
LEMMA WalkIsTraversal == IInv => WalksAreTraversals
<1> SUFFICES ASSUME TypeOK, NEW r \in alive \intersect Roots, NEW s, IsWalk(alive, next, r, s)
             PROVE  Traversal(r) = s
  BY DEF WalksAreTraversals, IInv
<1> DEFINE N == Cardinality(Nodes)
           back == {k \in 1 .. N : After(r)[k] = r}
           first == CHOOSE k \in back : \A j \in back : k <= j
           n == IF back = {} THEN N ELSE first - 1
<1>1. N \in Nat /\ Len(s) < N
  BY WalkIsShort
<1>2. s \in Seq(Items) /\ Len(s) \in Nat /\ \A i \in 1 .. Len(s) : s[i] \in Items /\ s[i] # r
  BY ListAssumption DEF IsWalk
<1>3. \A i \in 0 .. Len(s) + 1 : After(r)[i] = Stop(r, s, i)
  BY AfterIsStop
<1>4. Traversal(r) = [k \in 1 .. n |-> After(r)[k]]
  BY DEF Traversal
<1> HIDE DEF N
<1>5. Len(s) + 1 \in back
  BY <1>1, <1>2, <1>3 DEF Stop
<1>6. \A j \in back : Len(s) + 1 <= j
  BY <1>1, <1>2, <1>3 DEF Stop
<1>7. n = Len(s)
  <2>1. \A x \in back : (\A j \in back : x <= j) => x = Len(s) + 1
    BY <1>1, <1>2, <1>5, <1>6
  <2> HIDE DEF back
  <2>2. first = Len(s) + 1
    BY <1>5, <1>6, <2>1
  <2> HIDE DEF first
  <2>3. QED  BY <1>2, <1>5, <2>2
<1> HIDE DEF n
<1>8. \A k \in 1 .. n : After(r)[k] = s[k]
  BY <1>2, <1>3, <1>7 DEF Stop
<1>9. s = [k \in 1 .. n |-> s[k]]
  BY <1>2, <1>7
<1>10. QED  BY <1>4, <1>8, <1>9

-----------------------------------------------------------------------------
(* What each change of the pointers does to a walk.                        *)

\* What is true of the stops of a walk.
Stops(A, nx, r, s) ==
  /\ Len(s) \in Nat /\ s \in Seq(Items)
  /\ \A i \in 1 .. Len(s) : s[i] \in A /\ s[i] \in Items /\ s[i] # r /\ Stop(r, s, i) = s[i]
  /\ \A i \in 0 .. Len(s) + 1 : Stop(r, s, i) \in A
  /\ \A i, j \in 0 .. Len(s) : Stop(r, s, i) = Stop(r, s, j) => i = j
  /\ \A i \in 0 .. Len(s) : nx[Stop(r, s, i)] = Stop(r, s, i + 1)
  /\ Stop(r, s, 0) = r /\ Stop(r, s, Len(s) + 1) = r

\* It is.
LEMMA StopsAre ==
  ASSUME NEW A \in SUBSET Nodes, NEW nx, NEW r \in A \intersect Roots, NEW s, IsWalk(A, nx, r, s)
  PROVE  Stops(A, nx, r, s)
<1>1. Len(s) \in Nat /\ s \in Seq(Items) /\ \A i \in 1 .. Len(s) : s[i] \in A /\ s[i] \in Items
  BY DEF IsWalk
<1>2. \A i \in 1 .. Len(s) : s[i] # r /\ Stop(r, s, i) = s[i]
  BY <1>1, ListAssumption DEF Stop
<1>3. \A i, j \in 0 .. Len(s) : Stop(r, s, i) = Stop(r, s, j) => i = j
  <2> SUFFICES ASSUME NEW i \in 0 .. Len(s), NEW j \in 0 .. Len(s), Stop(r, s, i) = Stop(r, s, j)
               PROVE  i = j
    OBVIOUS
  <2>1. CASE i = 0 \/ j = 0
    BY <1>1, <1>2, <2>1 DEF Stop
  <2>2. CASE i # 0 /\ j # 0
    <3>1. i \in 1 .. Len(s) /\ j \in 1 .. Len(s) /\ s[i] = s[j]
      BY <1>1, <2>2 DEF Stop
    <3>2. QED  BY <3>1 DEF IsWalk, Distinct
  <2>3. QED  BY <2>1, <2>2
<1>4. \A i \in 0 .. Len(s) + 1 : Stop(r, s, i) \in A
  BY <1>1 DEF Stop
<1>5. Stop(r, s, 0) = r /\ Stop(r, s, Len(s) + 1) = r
  BY <1>1 DEF Stop
<1>6. QED  BY <1>1, <1>2, <1>3, <1>4, <1>5 DEF IsWalk, Stops

\* What stands before a node of the walk is the stop before it.
LEMMA StopBefore ==
  ASSUME NEW A \in SUBSET Nodes, NEW nx, NEW pv, Mirror(A, nx, pv),
         NEW r \in A \intersect Roots, NEW s, IsWalk(A, nx, r, s),
         NEW n \in A, NEW i \in 0 .. Len(s)
  PROVE  Stop(r, s, i) = pv[n] <=> Stop(r, s, i + 1) = n
<1>0. Stops(A, nx, r, s)
  BY StopsAre
<1>1. Stop(r, s, i) \in A /\ nx[Stop(r, s, i)] = Stop(r, s, i + 1)
  BY <1>0 DEF Stops
<1>2. QED  BY <1>1 DEF Mirror

\* A node that is alone is met by no walk.
LEMMA AloneIsMissed ==
  ASSUME NEW A \in SUBSET Nodes, NEW nx, NEW r \in A \intersect Roots, NEW s, IsWalk(A, nx, r, s),
         NEW n, nx[n] = n
  PROVE  \A i \in 1 .. Len(s) : s[i] # n
<1>0. Stops(A, nx, r, s)
  BY StopsAre
<1> SUFFICES ASSUME NEW i \in 1 .. Len(s), s[i] = n PROVE FALSE
  OBVIOUS
<1>1. Len(s) \in Nat /\ i \in 0 .. Len(s) /\ Stop(r, s, i) = n /\ n # r /\ Stop(r, s, i + 1) = n
  BY <1>0 DEF Stops
<1>2. CASE i = Len(s)
  BY <1>0, <1>1, <1>2 DEF Stops
<1>3. CASE i # Len(s)
  <2>1. i + 1 \in 0 .. Len(s) /\ i + 1 # i
    BY <1>1, <1>3
  <2>2. QED  BY <1>0, <1>1, <2>1 DEF Stops
<1>4. QED  BY <1>2, <1>3

\* A walk is one of any nodes that hold what it meets, and of any pointers that
\* are the same where it stops.
LEMMA SameWalk ==
  ASSUME NEW A \in SUBSET Nodes, NEW nx, NEW r \in A \intersect Roots, NEW s, IsWalk(A, nx, r, s),
         NEW B, \A i \in 1 .. Len(s) : s[i] \in B,
         NEW ny, \A i \in 0 .. Len(s) : ny[Stop(r, s, i)] = nx[Stop(r, s, i)]
  PROVE  IsWalk(B, ny, r, s)
<1>0. Stops(A, nx, r, s)
  BY StopsAre
<1>1. Len(s) \in Nat /\ s \in Seq(Items) /\ \A i \in 1 .. Len(s) : s[i] \in B \intersect Items
  BY <1>0 DEF Stops
<1>2. s \in Seq(B \intersect Items)
  BY <1>1
<1>3. \A i \in 0 .. Len(s) : ny[Stop(r, s, i)] = Stop(r, s, i + 1)
  BY <1>0 DEF Stops
<1>4. QED  BY <1>2, <1>3 DEF IsWalk

\* A sequence of items whose stops follow the pointers is a walk.
LEMMA WalkOf ==
  ASSUME NEW A, NEW nx, NEW r, NEW s \in Seq(A \intersect Items), Distinct(s),
         \A i \in 0 .. Len(s) : nx[Stop(r, s, i)] = Stop(r, s, i + 1)
  PROVE  IsWalk(A, nx, r, s)
BY DEF IsWalk

\* The pointers after n was cut out.
CutNext(nx, pv, n) == IF pv[n] = n THEN nx ELSE [nx EXCEPT ![pv[n]] = nx[n], ![n] = n]

\* Cutting n out of its ring leaves a walk that does not meet it.
LEMMA CutBeside ==
  ASSUME NEW A \in SUBSET Nodes, NEW nx \in [Nodes -> Nodes],
         NEW pv \in [Nodes -> Nodes], Mirror(A, nx, pv),
         NEW r \in A \intersect Roots, NEW s, IsWalk(A, nx, r, s),
         NEW n \in A, n # r, \A i \in 1 .. Len(s) : s[i] # n
  PROVE  IsWalk(A, CutNext(nx, pv, n), r, s)
<1>0. Stops(A, nx, r, s)
  BY StopsAre
<1>1. ASSUME NEW i \in 0 .. Len(s)
      PROVE  Stop(r, s, i) # n /\ Stop(r, s, i) # pv[n]
  <2>1. Stop(r, s, i) # n /\ Stop(r, s, i + 1) # n
    BY DEF Stop
  <2>2. QED  BY <2>1, StopBefore
<1>2. ASSUME NEW i \in 0 .. Len(s) PROVE CutNext(nx, pv, n)[Stop(r, s, i)] = nx[Stop(r, s, i)]
  <2>1. Stop(r, s, i) \in Nodes
    BY <1>0 DEF Stops
  <2>2. QED  BY <1>1, <2>1 DEF CutNext
<1>3. \A i \in 1 .. Len(s) : s[i] \in A
  BY <1>0 DEF Stops
<1>4. QED  BY <1>2, <1>3, SameWalk

\* Cutting n out of its ring takes it out of the walk that meets it.
LEMMA CutWalk ==
  ASSUME NEW A \in SUBSET Nodes, NEW nx \in [Nodes -> Nodes],
         NEW pv \in [Nodes -> Nodes], Mirror(A, nx, pv),
         NEW r \in A \intersect Roots, NEW s, IsWalk(A, nx, r, s),
         NEW k \in 1 .. Len(s), NEW t \in Seq(Items), Len(t) = Len(s) - 1,
         \A i \in 1 .. Len(s) - 1 : t[i] = IF i < k THEN s[i] ELSE s[i + 1]
  PROVE  IsWalk(A, CutNext(nx, pv, s[k]), r, t)
<1>0. Stops(A, nx, r, s)
  BY StopsAre
<1> DEFINE n == s[k]
           ny == CutNext(nx, pv, n)
           pos(i) == IF i < k THEN i ELSE i + 1
<1>1. /\ Len(s) \in Nat /\ n \in A /\ n # r /\ k \in 0 .. Len(s) /\ Stop(r, s, k) = n
      /\ \A i \in 1 .. Len(s) : s[i] \in A \intersect Items
  BY <1>0 DEF Stops
<1>2. k - 1 \in 0 .. Len(s) /\ (k - 1) + 1 = k /\ pv[n] = Stop(r, s, k - 1)
  <2>1. k - 1 \in 0 .. Len(s) /\ (k - 1) + 1 = k
    BY <1>1
  <2> HIDE DEF n
  <2>2. Stop(r, s, k - 1) = pv[n] <=> Stop(r, s, (k - 1) + 1) = n
    BY <1>1, <2>1, StopBefore
  <2>3. QED  BY <1>1, <2>1, <2>2
<1>3. pv[n] # n /\ pv[n] \in Nodes /\ n \in Nodes
  <2>1. Stop(r, s, k - 1) # Stop(r, s, k)
    BY <1>0, <1>1, <1>2 DEF Stops
  <2>2. QED  BY <1>0, <1>1, <1>2, <2>1 DEF Stops
<1>4. ny = [nx EXCEPT ![pv[n]] = nx[n], ![n] = n]
  BY <1>3 DEF CutNext
<1> HIDE DEF n, ny
<1>5. \A i \in 1 .. Len(t) : t[i] \in A \intersect Items
  BY <1>1
<1>6. t \in Seq(A \intersect Items)
  BY <1>5
<1>7. ASSUME NEW i \in 1 .. Len(t), NEW j \in 1 .. Len(t), t[i] = t[j] PROVE i = j
  <2>1. pos(i) \in 1 .. Len(s) /\ pos(j) \in 1 .. Len(s) /\ t[i] = s[pos(i)] /\ t[j] = s[pos(j)]
    BY <1>1
  <2>2. pos(i) = pos(j)
    BY <1>7, <2>1 DEF IsWalk, Distinct
  <2>3. QED  BY <1>1, <2>2
<1>8. ASSUME NEW i \in 0 .. Len(t) + 1
      PROVE  pos(i) \in 0 .. Len(s) + 1 /\ pos(i) # k /\ Stop(r, t, i) = Stop(r, s, pos(i))
  BY <1>1 DEF Stop
<1>9. ASSUME NEW i \in 0 .. Len(t) PROVE ny[Stop(r, t, i)] = Stop(r, t, i + 1)
  <2>1. i \in 0 .. Len(t) + 1 /\ i + 1 \in 0 .. Len(t) + 1
    BY <1>1
  <2>2. Stop(r, t, i) = Stop(r, s, pos(i)) /\ Stop(r, t, i + 1) = Stop(r, s, pos(i + 1))
    BY <1>8, <2>1
  <2>3. pos(i) \in 0 .. Len(s) /\ pos(i) # k
    BY <1>1
  <2>4. Stop(r, s, pos(i)) # n /\ Stop(r, s, pos(i)) \in Nodes
    BY <1>0, <1>1, <2>3 DEF Stops
  <2>5. CASE i = k - 1
    <3>1. pos(i) = k - 1 /\ pos(i + 1) = k + 1
      BY <1>1, <2>5
    <3>2. nx[n] = Stop(r, s, k + 1)
      BY <1>0, <1>1 DEF Stops
    <3> HIDE DEF pos
    <3>3. QED  BY <1>2, <1>3, <1>4, <2>2, <2>4, <3>1, <3>2
  <2>6. CASE i # k - 1
    <3>1. pos(i) # k - 1 /\ pos(i + 1) = pos(i) + 1
      BY <1>1, <2>6
    <3> HIDE DEF pos
    <3>2. Stop(r, s, pos(i)) # pv[n]
      BY <1>0, <1>2, <2>3, <3>1 DEF Stops
    <3>3. ny[Stop(r, s, pos(i))] = nx[Stop(r, s, pos(i))]
      BY <1>4, <2>4, <3>2
    <3>4. nx[Stop(r, s, pos(i))] = Stop(r, s, pos(i) + 1)
      BY <1>0, <2>3 DEF Stops
    <3>5. QED  BY <2>2, <3>1, <3>3, <3>4
  <2>7. QED  BY <2>5, <2>6
<1>10. Distinct(t)
  BY <1>7 DEF Distinct
<1>11. QED  BY <1>6, <1>9, <1>10, WalkOf DEF ny, n

\* Putting n before a node that a walk does not come to leaves the walk.
LEMMA PutBeside ==
  ASSUME NEW A \in SUBSET Nodes, NEW nx \in [Nodes -> Nodes],
         NEW pv \in [Nodes -> Nodes], Mirror(A, nx, pv),
         NEW r \in A \intersect Roots, NEW s, IsWalk(A, nx, r, s),
         NEW n \in A \intersect Items, nx[n] = n,
         NEW that \in A, that # r, \A i \in 1 .. Len(s) : s[i] # that
  PROVE  IsWalk(A, PutNext(nx, pv, n, that), r, s)
<1>0. Stops(A, nx, r, s)
  BY StopsAre
<1>1. ASSUME NEW i \in 0 .. Len(s)
      PROVE  Stop(r, s, i) # n /\ Stop(r, s, i) # pv[that] /\ Stop(r, s, i) \in Nodes
  <2>1. \A j \in 1 .. Len(s) : s[j] # n
    BY AloneIsMissed
  <2>2. Stop(r, s, i) # n /\ Stop(r, s, i + 1) # that
    BY <2>1, ListAssumption DEF Stop
  <2>3. Stop(r, s, i) # pv[that]
    BY <2>2, StopBefore
  <2>4. QED  BY <1>0, <2>2, <2>3 DEF Stops
<1>2. ASSUME NEW i \in 0 .. Len(s) PROVE PutNext(nx, pv, n, that)[Stop(r, s, i)] = nx[Stop(r, s, i)]
  BY <1>1 DEF PutNext
<1>3. \A i \in 1 .. Len(s) : s[i] \in A
  BY <1>0 DEF Stops
<1>4. QED  BY <1>2, <1>3, SameWalk

\* Putting n before the stop k of a walk puts it there in the walk.
LEMMA PutWalk ==
  ASSUME NEW A \in SUBSET Nodes, NEW nx \in [Nodes -> Nodes],
         NEW pv \in [Nodes -> Nodes], Mirror(A, nx, pv),
         NEW r \in A \intersect Roots, NEW s, IsWalk(A, nx, r, s),
         NEW n \in A \intersect Items, nx[n] = n,
         NEW k \in 1 .. Len(s) + 1, NEW t \in Seq(Items), Len(t) = Len(s) + 1,
         \A i \in 1 .. Len(s) + 1 : t[i] = IF i < k THEN s[i] ELSE IF i = k THEN n ELSE s[i - 1]
  PROVE  IsWalk(A, PutNext(nx, pv, n, Stop(r, s, k)), r, t)
<1>0. Stops(A, nx, r, s)
  BY StopsAre
<1> DEFINE that == Stop(r, s, k)
           ny == PutNext(nx, pv, n, that)
           pos(i) == IF i < k THEN i ELSE i - 1
<1>1. /\ Len(s) \in Nat /\ n \in Nodes /\ n # r /\ that \in A /\ that \in Nodes /\ pv[that] \in Nodes
      /\ \A i \in 1 .. Len(s) : s[i] \in A \intersect Items /\ s[i] # n
  <2>1. \A i \in 1 .. Len(s) : s[i] # n
    BY AloneIsMissed
  <2>2. Len(s) \in Nat /\ k \in 0 .. Len(s) + 1
    BY <1>0 DEF Stops
  <2>3. that \in A
    BY <1>0, <2>2 DEF Stops
  <2>4. n # r
    BY ListAssumption
  <2>5. \A i \in 1 .. Len(s) : s[i] \in A \intersect Items
    BY <1>0 DEF Stops
  <2> HIDE DEF that
  <2>6. QED  BY <2>1, <2>2, <2>3, <2>4, <2>5
<1>2. k - 1 \in 0 .. Len(s) /\ (k - 1) + 1 = k /\ pv[that] = Stop(r, s, k - 1)
  <2>1. k - 1 \in 0 .. Len(s) /\ (k - 1) + 1 = k
    BY <1>1
  <2> HIDE DEF that
  <2>2. \A i \in 0 .. Len(s) : Stop(r, s, i) = pv[that] <=> Stop(r, s, i + 1) = that
    BY <1>1, StopBefore
  <2>3. QED  BY <2>1, <2>2 DEF that
<1>3. ny = [nx EXCEPT ![n] = that, ![pv[that]] = n]
  BY DEF PutNext
<1>4. \A i \in 0 .. Len(s) + 1 : Stop(r, s, i) # n /\ Stop(r, s, i) \in Nodes
  BY <1>0, <1>1 DEF Stop, Stops
<1> HIDE DEF that, ny
<1>5. \A i \in 1 .. Len(t) : t[i] \in A \intersect Items
  BY <1>1
<1>6. t \in Seq(A \intersect Items)
  BY <1>5
<1>7. ASSUME NEW i \in 1 .. Len(t), NEW j \in 1 .. Len(t), t[i] = t[j] PROVE i = j
  <2>1. ASSUME NEW l \in 1 .. Len(t), l # k PROVE pos(l) \in 1 .. Len(s) /\ t[l] = s[pos(l)] /\ t[l] # n
    BY <1>1, <2>1
  <2>2. CASE i = k \/ j = k
    <3>1. t[k] = n
      BY <1>1
    <3>2. QED  BY <1>7, <2>1, <2>2, <3>1
  <2>3. CASE i # k /\ j # k
    <3>1. /\ pos(i) \in 1 .. Len(s) /\ pos(j) \in 1 .. Len(s)
          /\ t[i] = s[pos(i)] /\ t[j] = s[pos(j)]
      BY <2>1, <2>3
    <3>2. pos(i) = pos(j)
      BY <1>7, <3>1 DEF IsWalk, Distinct
    <3>3. QED  BY <1>1, <2>3, <3>2
  <2>4. QED  BY <2>2, <2>3
<1>8. ASSUME NEW i \in 0 .. Len(t) + 1, i # k
      PROVE  pos(i) \in 0 .. Len(s) + 1 /\ Stop(r, t, i) = Stop(r, s, pos(i))
  BY <1>1, <1>8 DEF Stop
<1>9. Stop(r, t, k) = n
  BY <1>1 DEF Stop
<1>10. ASSUME NEW i \in 0 .. Len(t) PROVE ny[Stop(r, t, i)] = Stop(r, t, i + 1)
  <2>1. i \in 0 .. Len(t) + 1 /\ i + 1 \in 0 .. Len(t) + 1
    BY <1>1
  <2>2. CASE i = k - 1
    <3>1. i # k /\ pos(i) = k - 1 /\ i + 1 = k
      BY <1>1, <2>2
    <3>2. Stop(r, t, i) = Stop(r, s, k - 1)
      BY <1>8, <2>1, <3>1
    <3> HIDE DEF pos
    <3>3. QED  BY <1>1, <1>2, <1>3, <1>4, <1>9, <3>1, <3>2
  <2>3. CASE i = k
    <3>1. i + 1 # k /\ pos(i + 1) = k
      BY <1>1, <2>3
    <3>2. Stop(r, t, i + 1) = that
      BY <1>8, <2>1, <3>1 DEF that
    <3> HIDE DEF pos
    <3>3. pv[that] # n
      BY <1>2, <1>4
    <3>4. QED  BY <1>1, <1>3, <1>9, <2>3, <3>2, <3>3
  <2>4. CASE i # k - 1 /\ i # k
    <3>1. /\ pos(i) \in 0 .. Len(s) /\ pos(i) # k - 1 /\ pos(i + 1) = pos(i) + 1
          /\ i # k /\ i + 1 # k
      BY <1>1, <2>4
    <3>2. Stop(r, t, i) = Stop(r, s, pos(i)) /\ Stop(r, t, i + 1) = Stop(r, s, pos(i + 1))
      BY <1>8, <2>1, <3>1
    <3> HIDE DEF pos
    <3>3. Stop(r, s, pos(i)) # pv[that]
      BY <1>0, <1>2, <3>1 DEF Stops
    <3>4. Stop(r, s, pos(i)) # n /\ Stop(r, s, pos(i)) \in Nodes
      BY <1>1, <1>4, <3>1
    <3>5. ny[Stop(r, s, pos(i))] = nx[Stop(r, s, pos(i))]
      BY <1>3, <3>3, <3>4
    <3>6. nx[Stop(r, s, pos(i))] = Stop(r, s, pos(i) + 1)
      BY <1>0, <3>1 DEF Stops
    <3>7. QED  BY <3>1, <3>2, <3>5, <3>6
  <2>5. QED  BY <2>2, <2>3, <2>4
<1>11. Distinct(t)
  BY <1>7 DEF Distinct
<1>12. QED  BY <1>6, <1>10, <1>11, WalkOf DEF ny, that

\* A new node takes over from one that a walk does not come to.
LEMMA TakeBeside ==
  ASSUME NEW A \in SUBSET Nodes, NEW nx \in [Nodes -> Nodes],
         NEW pv \in [Nodes -> Nodes], Mirror(A, nx, pv),
         NEW r \in A \intersect Roots, NEW s, IsWalk(A, nx, r, s),
         NEW to \in Nodes, to # r, to \in A => nx[to] = to,
         NEW from \in A, from # r, \A i \in 1 .. Len(s) : s[i] # from
  PROVE  IsWalk(A \union {to}, TakenNext(nx, pv, to, from), r, s)
<1>0. Stops(A, nx, r, s)
  BY StopsAre
<1>1. ASSUME NEW i \in 0 .. Len(s)
      PROVE  /\ Stop(r, s, i) # to /\ Stop(r, s, i) # from
             /\ Stop(r, s, i) # pv[from] /\ Stop(r, s, i) \in Nodes
  <2>1. \A j \in 1 .. Len(s) : s[j] # to
    BY <1>0, AloneIsMissed DEF Stops
  <2>2. Stop(r, s, i) # to /\ Stop(r, s, i) # from /\ Stop(r, s, i + 1) # from
    BY <2>1 DEF Stop
  <2>3. Stop(r, s, i) # pv[from]
    BY <2>2, StopBefore
  <2>4. QED  BY <1>0, <2>2, <2>3 DEF Stops
<1>2. ASSUME NEW i \in 0 .. Len(s) PROVE TakenNext(nx, pv, to, from)[Stop(r, s, i)] = nx[Stop(r, s, i)]
  BY <1>1 DEF TakenNext
<1>3. \A i \in 1 .. Len(s) : s[i] \in A \union {to}
  BY <1>0 DEF Stops
<1>4. QED  BY <1>2, <1>3, SameWalk

\* A new item takes the place of the item k of a walk.
LEMMA TakeWalk ==
  ASSUME NEW A \in SUBSET Nodes, NEW nx \in [Nodes -> Nodes],
         NEW pv \in [Nodes -> Nodes], Mirror(A, nx, pv),
         NEW r \in A \intersect Roots, NEW s, IsWalk(A, nx, r, s),
         NEW to \in Items, to \in A => nx[to] = to,
         NEW k \in 1 .. Len(s)
  PROVE  IsWalk(A \union {to}, TakenNext(nx, pv, to, s[k]), r, Lists!ReplaceAll(s, s[k], to))
<1>0. Stops(A, nx, r, s)
  BY StopsAre
<1> DEFINE from == s[k]
           ny == TakenNext(nx, pv, to, from)
           t == Lists!ReplaceAll(s, from, to)
<1>1. /\ Len(s) \in Nat /\ from \in A /\ from \in Nodes /\ from # r /\ to \in Nodes /\ to # r
      /\ k \in 0 .. Len(s) /\ Stop(r, s, k) = from /\ s = [i \in 1 .. Len(s) |-> s[i]]
      /\ \A i \in 1 .. Len(s) : s[i] \in A \intersect Items /\ s[i] # to /\ (s[i] = from => i = k)
  <2>1. \A i \in 1 .. Len(s) : s[i] # to
    BY <1>0, AloneIsMissed DEF Stops
  <2>2. \A i \in 1 .. Len(s) : s[i] = from => i = k
    BY DEF IsWalk, Distinct
  <2>3. QED  BY <1>0, <2>1, <2>2, ListAssumption DEF Stops, Nodes
<1>2. k - 1 \in 0 .. Len(s) /\ (k - 1) + 1 = k /\ pv[from] = Stop(r, s, k - 1)
  <2>1. k - 1 \in 0 .. Len(s) /\ (k - 1) + 1 = k
    BY <1>1
  <2> HIDE DEF from
  <2>2. Stop(r, s, k - 1) = pv[from] <=> Stop(r, s, (k - 1) + 1) = from
    BY <1>1, <2>1, StopBefore
  <2>3. QED  BY <1>1, <2>1, <2>2
<1>3. t = [i \in 1 .. Len(s) |-> IF s[i] = from THEN to ELSE s[i]]
  BY DEF Lists!ReplaceAll
<1>4. ny = [nx EXCEPT ![to] = nx[from], ![pv[from]] = to, ![from] = from]
  BY DEF TakenNext
<1> HIDE DEF from, ny, t
<1>5. Len(t) = Len(s) /\ \A i \in 1 .. Len(s) : t[i] = IF i = k THEN to ELSE s[i]
  <2>1. Len(t) = Len(s)
    BY <1>1, <1>3
  <2>2. \A i \in 1 .. Len(s) : t[i] = IF s[i] = from THEN to ELSE s[i]
    BY <1>3
  <2>3. s[k] = from
    BY DEF from
  <2>4. QED  BY <1>1, <2>1, <2>2, <2>3
<1>6. t \in Seq((A \union {to}) \intersect Items)
  <2>1. \A i \in 1 .. Len(s) : t[i] \in (A \union {to}) \intersect Items
    BY <1>1, <1>5
  <2>2. t = [i \in 1 .. Len(s) |-> t[i]]
    BY <1>3
  <2>3. QED  BY <1>1, <2>1, <2>2
<1>7. Distinct(t)
  BY <1>1, <1>5 DEF Distinct, IsWalk
<1>8. \A i \in 0 .. Len(s) + 1 : Stop(r, t, i) = IF i = k THEN to ELSE Stop(r, s, i)
  BY <1>1, <1>5 DEF Stop
<1>9. ASSUME NEW i \in 0 .. Len(t) PROVE ny[Stop(r, t, i)] = Stop(r, t, i + 1)
  <2>1. i \in 0 .. Len(s) /\ i \in 0 .. Len(s) + 1 /\ i + 1 \in 0 .. Len(s) + 1
    BY <1>1, <1>5
  <2>2. Stop(r, s, i) \in Nodes /\ Stop(r, s, i) # to
    BY <1>0, <1>1, <2>1 DEF Stop, Stops
  <2>3. nx[Stop(r, s, i)] = Stop(r, s, i + 1)
    BY <1>0, <2>1 DEF Stops
  <2>4. Stop(r, s, k - 1) # to /\ Stop(r, s, k - 1) # from /\ Stop(r, s, k - 1) \in Nodes
    BY <1>0, <1>1, <1>2 DEF Stop, Stops
  <2>5. CASE i = k - 1
    <3>1. Stop(r, t, i) = pv[from] /\ Stop(r, t, i + 1) = to
      BY <1>1, <1>2, <1>8, <2>1, <2>5
    <3>2. QED  BY <1>1, <1>2, <1>4, <2>4, <3>1
  <2>6. CASE i = k
    <3>1. Stop(r, t, i) = to /\ Stop(r, t, i + 1) = Stop(r, s, i + 1) /\ Stop(r, s, i) = from
      BY <1>1, <1>8, <2>1, <2>6
    <3>2. QED  BY <1>1, <1>2, <1>4, <2>3, <2>4, <3>1
  <2>7. CASE i # k - 1 /\ i # k
    <3>1. Stop(r, t, i) = Stop(r, s, i) /\ Stop(r, t, i + 1) = Stop(r, s, i + 1)
      BY <1>1, <1>8, <2>1, <2>7
    <3>2. Stop(r, s, i) # pv[from] /\ Stop(r, s, i) # from
      BY <1>0, <1>1, <1>2, <2>1, <2>7 DEF Stops
    <3>3. QED  BY <1>4, <2>2, <2>3, <3>1, <3>2
  <2>8. QED  BY <2>5, <2>6, <2>7
<1>10. QED  BY <1>6, <1>7, <1>9, WalkOf DEF ny, t, from

\* A new list head takes over the walk of another, which has none then.
LEMMA TakeRing ==
  ASSUME NEW A \in SUBSET Nodes, NEW nx \in [Nodes -> Nodes],
         NEW pv \in [Nodes -> Nodes], Mirror(A, nx, pv),
         NEW from \in A \intersect Roots, NEW s, IsWalk(A, nx, from, s), pv[from] # from,
         NEW to \in Roots, to # from, to \in A => nx[to] = to
  PROVE  /\ IsWalk(A \union {to}, TakenNext(nx, pv, to, from), to, s)
         /\ IsWalk(A \union {to}, TakenNext(nx, pv, to, from), from, <<>>)
<1>0. Stops(A, nx, from, s)
  BY StopsAre
<1> DEFINE ny == TakenNext(nx, pv, to, from)
<1>1. /\ Len(s) \in Nat /\ from \in Nodes /\ to \in Nodes /\ pv[from] \in A
      /\ \A i \in 1 .. Len(s) : s[i] \in A \intersect Items /\ s[i] \in Nodes /\ s[i] # to /\ s[i] # from
  BY <1>0, ListAssumption DEF Stops, Nodes, Mirror
<1>2. ny = [nx EXCEPT ![to] = nx[from], ![pv[from]] = to, ![from] = from]
  BY DEF TakenNext
<1> HIDE DEF ny
<1>3. pv[from] = Stop(from, s, Len(s))
  <2>1. Len(s) \in 0 .. Len(s)
    BY <1>1
  <2>2. Stop(from, s, Len(s)) = pv[from] <=> Stop(from, s, Len(s) + 1) = from
    BY <2>1, StopBefore
  <2>3. QED  BY <1>0, <2>2 DEF Stops
<1>4. Len(s) # 0 /\ pv[from] = s[Len(s)]
  BY <1>1, <1>3 DEF Stop
<1>5. s \in Seq((A \union {to}) \intersect Items) /\ Distinct(s)
  BY DEF IsWalk
<1>6. ASSUME NEW i \in 0 .. Len(s) PROVE ny[Stop(to, s, i)] = Stop(to, s, i + 1)
  <2>1. nx[Stop(from, s, i)] = Stop(from, s, i + 1)
    BY <1>0 DEF Stops
  <2>2. CASE i = 0
    BY <1>1, <1>2, <1>4, <2>1, <2>2 DEF Stop
  <2>3. CASE i = Len(s)
    BY <1>1, <1>2, <1>4, <2>3 DEF Stop
  <2>4. CASE i # 0 /\ i # Len(s)
    <3>1. i \in 1 .. Len(s) /\ i + 1 \in 1 .. Len(s) /\ Len(s) \in 1 .. Len(s)
      BY <1>1, <1>4, <2>4
    <3>2. s[i] # s[Len(s)]
      BY <1>5, <2>4, <3>1 DEF Distinct
    <3>3. QED  BY <1>1, <1>2, <1>4, <2>1, <3>1, <3>2 DEF Stop
  <2>5. QED  BY <2>2, <2>3, <2>4
<1>7. IsWalk(A \union {to}, ny, to, s)
  BY <1>5, <1>6, WalkOf
<1>8. IsWalk(A \union {to}, ny, from, <<>>)
  <2>1. ny[from] = from
    BY <1>1, <1>2
  <2>2. QED  BY <2>1 DEF IsWalk, Distinct, Stop
<1>9. QED  BY <1>7, <1>8 DEF ny

-----------------------------------------------------------------------------
(* Each call and the sequences of ItemLists.                               *)

\* From every list head a walk leads through the items of Traversal.
WalksExist == \A r \in alive \intersect Roots : IsWalk(alive, next, r, Traversal(r))

\* The inductive invariant.
ListInv == IInv /\ WalksExist

\* Walks after a step are what Traversal lists after it.
LEMMA ListsBecome ==
  ASSUME IInv', NEW l, \A r \in alive' \intersect Roots : IsWalk(alive', next', r, l[r]),
         \A r \in Roots : r \notin alive' => l[r] = <<>>
  PROVE  WalksExist' /\ \A r \in Roots : Traversal(r)' = l[r]
<1>1. WalksAreTraversals'
  BY WalkIsTraversal, PTL
<1>2. ASSUME NEW r \in Roots PROVE Traversal(r)' = l[r]
  <2>1. CASE r \in alive'
    BY <1>1, <2>1 DEF WalksAreTraversals
  <2>2. CASE r \notin alive'
    <3>1. Traversal(r)' = <<>>
      BY <2>2 DEF Traversal
    <3>2. QED  BY <2>2, <3>1
  <2>3. QED  BY <2>1, <2>2
<1>3. QED  BY <1>2 DEF WalksExist

\* What is in the list of a head that has ended, or never was.
LEMMA NoHeadNoList ==
  ASSUME NEW r, r \notin alive
  PROVE  /\ Traversal(r) = <<>>
         /\ \A n : Lists!RemoveFirst(<<>>, n) = <<>>
         /\ \A m, n : Lists!ReplaceAll(<<>>, m, n) = <<>>
BY DEF Traversal, Lists!RemoveFirst, Lists!ReplaceAll

\* After unlink() of n the other list heads lead through what they did, without n.
LEMMA UnlinkWalks ==
  ASSUME ListInv, NEW n \in alive, NEW r \in alive \intersect Roots, r # n
  PROVE  IsWalk(alive, UnlinkedNext(n), r, Lists!RemoveFirst(Traversal(r), n))
<1> DEFINE s == Traversal(r)
           t == Lists!RemoveFirst(s, n)
<1>1. /\ alive \in SUBSET Nodes /\ next \in [Nodes -> Nodes] /\ prev \in [Nodes -> Nodes]
      /\ Mirror(alive, next, prev) /\ IsWalk(alive, next, r, s)
  BY DEF ListInv, IInv, TypeOK, DoublyLinked, Mirror, WalksExist
<1>2. UnlinkedNext(n) = CutNext(next, prev, n)
  BY DEF UnlinkedNext, CutNext
<1> HIDE DEF s
<1>3. s \in Seq(Items) /\ Distinct(s)
  BY <1>1, StopsAre DEF Stops, IsWalk
<1>4. CASE \A i \in 1 .. Len(s) : s[i] # n
  <2>1. t = s
    BY <1>3, <1>4, RemoveIs
  <2>2. QED  BY <1>1, <1>2, <1>4, <2>1, CutBeside DEF s
<1>5. CASE \E k \in 1 .. Len(s) : s[k] = n
  <2>1. PICK k \in 1 .. Len(s) : s[k] = n
    BY <1>5
  <2>2. /\ t \in Seq(Items) /\ Len(t) = Len(s) - 1
        /\ \A i \in 1 .. Len(s) - 1 : t[i] = IF i < k THEN s[i] ELSE s[i + 1]
    BY <1>3, <2>1, RemoveIs
  <2> HIDE DEF t
  <2>3. IsWalk(alive, CutNext(next, prev, s[k]), r, t)
    BY <1>1, <2>2, CutWalk
  <2>4. QED  BY <1>2, <2>1, <2>3 DEF s, t
<1>6. QED  BY <1>4, <1>5

\* Walks of pointers without n, and after n was put before `that`.
LEMMA PutWalks ==
  ASSUME NEW A \in SUBSET Nodes, NEW nx \in [Nodes -> Nodes],
         NEW pv \in [Nodes -> Nodes], Mirror(A, nx, pv),
         NEW r \in A \intersect Roots, NEW s, IsWalk(A, nx, r, s),
         NEW n \in A \intersect Items, nx[n] = n, NEW that \in A
  PROVE  LET ny == PutNext(nx, pv, n, that)
             place == {k \in DOMAIN s : s[k] = that}
         IN  /\ that = r => IsWalk(A, ny, r, Append(s, n))
             /\ that \in Roots /\ that # r => IsWalk(A, ny, r, s)
             /\ that \in Items /\ place = {} => IsWalk(A, ny, r, s)
             /\ that \in Items /\ place # {} =>
                  IsWalk(A, ny, r, Lists!InsertAt(s, CHOOSE k \in place : TRUE, n))
<1> DEFINE ny == PutNext(nx, pv, n, that)
           place == {k \in DOMAIN s : s[k] = that}
<1>0. Stops(A, nx, r, s)
  BY StopsAre
<1>1. /\ Len(s) \in Nat /\ s \in Seq(Items) /\ DOMAIN s = 1 .. Len(s)
      /\ \A i \in 1 .. Len(s) : s[i] \in Items
  BY <1>0 DEF Stops
<1> HIDE DEF ny, place
<1>2. ASSUME that = r PROVE IsWalk(A, ny, r, Append(s, n))
  <2> DEFINE t == Append(s, n)
             k == Len(s) + 1
  <2>1. /\ t \in Seq(Items) /\ Len(t) = Len(s) + 1 /\ t[Len(s) + 1] = n
        /\ \A i \in 1 .. Len(s) : t[i] = s[i]
    BY <1>1, AppendProperties
  <2>2. k \in 1 .. Len(s) + 1 /\ Stop(r, s, k) = that
    BY <1>0, <1>1, <1>2 DEF Stops
  <2> HIDE DEF t
  <2>3. \A i \in 1 .. Len(s) + 1 : t[i] = IF i < k THEN s[i] ELSE IF i = k THEN n ELSE s[i - 1]
    BY <1>1, <2>1
  <2> HIDE DEF k
  <2>4. IsWalk(A, PutNext(nx, pv, n, Stop(r, s, k)), r, t)
    BY <2>1, <2>2, <2>3, PutWalk
  <2>5. QED  BY <2>2, <2>4 DEF ny, t
<1>3. ASSUME that # r, that \in Roots \/ place = {} PROVE IsWalk(A, ny, r, s)
  <2>1. \A i \in 1 .. Len(s) : s[i] # that
    BY <1>1, <1>3, ListAssumption DEF place
  <2>2. QED  BY <1>3, <2>1, PutBeside DEF ny
<1>4. ASSUME that \in Items, place # {}
      PROVE  IsWalk(A, ny, r, Lists!InsertAt(s, CHOOSE k \in place : TRUE, n))
  <2>1. PICK k \in 1 .. Len(s) : s[k] = that /\ k = CHOOSE j \in place : TRUE
    BY <1>1, <1>4 DEF place
  <2> DEFINE t == Lists!InsertAt(s, k, n)
  <2>2. k \in 1 .. Len(s) + 1 /\ Stop(r, s, k) = that
    BY <1>1, <2>1 DEF Stop
  <2>3. n \in Items /\ s \in Seq(Items)
    BY <1>1
  <2>4. /\ t \in Seq(Items) /\ Len(t) = Len(s) + 1
        /\ \A i \in 1 .. Len(s) + 1 :
             t[i] = IF i < k THEN s[i] ELSE IF i = k THEN n ELSE s[i - 1]
    BY <2>2, <2>3, WithOne
  <2> HIDE DEF t
  <2>5. IsWalk(A, PutNext(nx, pv, n, Stop(r, s, k)), r, t)
    BY <2>2, <2>4, PutWalk
  <2>6. QED  BY <2>1, <2>2, <2>5 DEF ny, t
<1>5. that \in Items => that # r
  BY ListAssumption
<1>6. QED  BY <1>2, <1>3, <1>4, <1>5 DEF ny, place

\* What is no live item is in no list.
LEMMA NothingToRemove ==
  ASSUME ListInv, NEW n, n \notin alive \intersect Items, NEW r \in Roots
  PROVE  Lists!RemoveFirst(Traversal(r), n) = Traversal(r)
<1>1. CASE r \in alive
  <2>1. IsWalk(alive, next, r, Traversal(r)) /\ alive \in SUBSET Nodes
    BY <1>1 DEF ListInv, WalksExist, IInv, TypeOK
  <2> DEFINE s == Traversal(r)
  <2> HIDE DEF s
  <2>2. Stops(alive, next, r, s)
    BY <1>1, <2>1, StopsAre DEF s
  <2>3. s \in Seq(Items) /\ Distinct(s) /\ \A i \in 1 .. Len(s) : s[i] # n
    BY <2>1, <2>2 DEF Stops, IsWalk, s
  <2>4. QED  BY <2>3, RemoveIs DEF s
<1>2. CASE r \notin alive
  BY <1>2, NoHeadNoList
<1>3. QED  BY <1>1, <1>2

\* What the invariant says of the pointers.
LEMMA PointersAre ==
  ASSUME ListInv
  PROVE  /\ alive \in SUBSET Nodes /\ next \in [Nodes -> Nodes] /\ prev \in [Nodes -> Nodes]
         /\ Mirror(alive, next, prev)
BY DEF ListInv, IInv, TypeOK, DoublyLinked, Mirror

\* A node that begins is in no list, or a list without items.
LEMMA ConstructAgrees ==
  ASSUME ListInv, IInv', NEW n \in Nodes, Construct(n)
  PROVE  WalksExist' /\ \A r \in Roots : Traversal(r)' = Traversal(r)
<1> DEFINE l == [r \in Roots |-> Traversal(r)]
<1>1. \A r \in Roots : l[r] = Traversal(r)
  OBVIOUS
<1>2. /\ alive \in SUBSET Nodes /\ next \in [Nodes -> Nodes]
      /\ n \notin alive /\ alive' = alive \union {n} /\ next' = [next EXCEPT ![n] = n]
  BY PointersAre DEF Construct
<1> HIDE DEF l
<1>3. ASSUME NEW r \in alive' \intersect Roots PROVE IsWalk(alive', next', r, l[r])
  <2>1. CASE r = n
    <3>1. l[r] = <<>>
      BY <1>1, <1>2, <2>1, NoHeadNoList
    <3>2. next'[n] = n
      BY <1>2
    <3>3. QED  BY <2>1, <3>1, <3>2 DEF IsWalk, Distinct, Stop
  <2>2. CASE r # n
    <3>1. r \in alive \intersect Roots
      BY <1>2, <2>2
    <3>2. IsWalk(alive, next, r, l[r])
      BY <1>1, <3>1 DEF ListInv, WalksExist
    <3>3. Stops(alive, next, r, l[r])
      BY <1>2, <3>1, <3>2, StopsAre
    <3>4. \A i \in 1 .. Len(l[r]) : l[r][i] \in alive'
      BY <1>2, <3>3 DEF Stops
    <3>5. ASSUME NEW i \in 0 .. Len(l[r]) PROVE next'[Stop(r, l[r], i)] = next[Stop(r, l[r], i)]
      <4>1. Stop(r, l[r], i) \in alive
        BY <3>3 DEF Stops
      <4>2. QED  BY <1>2, <4>1
    <3>6. QED  BY <1>2, <3>1, <3>2, <3>4, <3>5, SameWalk
  <2>3. QED  BY <2>1, <2>2
<1>4. ASSUME NEW r \in Roots, r \notin alive' PROVE l[r] = <<>>
  BY <1>1, <1>2, <1>4, NoHeadNoList
<1>5. WalksExist' /\ \A r \in Roots : Traversal(r)' = l[r]
  BY <1>3, <1>4, ListsBecome
<1>6. QED  BY <1>1, <1>5

\* unlink() takes the node out of its list.
LEMMA UnlinkAgrees ==
  ASSUME ListInv, IInv', NEW n \in Nodes, Unlink(n)
  PROVE  WalksExist' /\ Lists!Leave(n)
<1> DEFINE l == [r \in Roots |-> Lists!RemoveFirst(Traversal(r), n)]
<1>1. \A r \in Roots : l[r] = Lists!RemoveFirst(Traversal(r), n)
  OBVIOUS
<1>2. n \in alive /\ n \in Items /\ n \notin Roots /\ alive' = alive /\ next' = UnlinkedNext(n)
  BY ListAssumption DEF Unlink
<1> HIDE DEF l
<1>3. ASSUME NEW r \in alive' \intersect Roots PROVE IsWalk(alive', next', r, l[r])
  BY <1>1, <1>2, UnlinkWalks
<1>4. ASSUME NEW r \in Roots, r \notin alive' PROVE l[r] = <<>>
  BY <1>1, <1>2, <1>4, NoHeadNoList
<1>5. WalksExist' /\ \A r \in Roots : Traversal(r)' = l[r]
  BY <1>3, <1>4, ListsBecome
<1>6. QED  BY <1>1, <1>5 DEF Lists!Leave

\* The destructor of an item takes it out of its list; that of a list head
\* leaves its items in no list.
LEMMA DestroyAgrees ==
  ASSUME ListInv, IInv', NEW n \in Nodes, Destroy(n)
  PROVE  WalksExist' /\ IF n \in Roots THEN Lists!Drop(n) ELSE Lists!Leave(n)
<1> DEFINE l == [r \in Roots |-> IF r = n THEN <<>> ELSE Lists!RemoveFirst(Traversal(r), n)]
<1>1. \A r \in Roots : l[r] = IF r = n THEN <<>> ELSE Lists!RemoveFirst(Traversal(r), n)
  OBVIOUS
<1>2. n \in alive /\ alive' = alive \ {n} /\ next' = UnlinkedNext(n) /\ next'[n] = n
  BY UnlinkMirrors DEF Destroy, ListInv
<1>3. alive \in SUBSET Nodes
  BY PointersAre
<1> HIDE DEF l
<1>4. ASSUME NEW r \in alive' \intersect Roots PROVE IsWalk(alive', next', r, l[r])
  <2>1. r \in alive \intersect Roots /\ r # n
    BY <1>2
  <2>2. IsWalk(alive, next', r, l[r])
    BY <1>1, <1>2, <2>1, UnlinkWalks
  <2>3. \A i \in 1 .. Len(l[r]) : l[r][i] # n
    BY <1>2, <1>3, <2>1, <2>2, AloneIsMissed
  <2>4. Stops(alive, next', r, l[r])
    BY <1>3, <2>1, <2>2, StopsAre
  <2>5. \A i \in 1 .. Len(l[r]) : l[r][i] \in alive'
    BY <1>2, <2>3, <2>4 DEF Stops
  <2>6. QED  BY <1>3, <2>1, <2>2, <2>5, SameWalk
<1>5. ASSUME NEW r \in Roots, r \notin alive' PROVE l[r] = <<>>
  BY <1>1, <1>2, <1>5, NoHeadNoList
<1>6. WalksExist' /\ \A r \in Roots : Traversal(r)' = l[r]
  BY <1>4, <1>5, ListsBecome
<1>7. CASE n \in Roots
  <2>1. ASSUME NEW r \in Roots PROVE Traversal(r)' = IF r = n THEN <<>> ELSE Traversal(r)
    <3>1. Lists!RemoveFirst(Traversal(r), n) = Traversal(r)
      BY <1>7, ListAssumption, NothingToRemove
    <3>2. QED  BY <1>1, <1>6, <3>1
  <2>2. QED  BY <1>6, <1>7, <2>1 DEF Lists!Drop
<1>8. CASE n \notin Roots
  BY <1>1, <1>6, <1>8 DEF Lists!Leave
<1>9. QED  BY <1>7, <1>8

\* link_to() appends to a list, or inserts before an item.
LEMMA LinkAgrees ==
  ASSUME ListInv, IInv', NEW n \in Nodes, NEW that \in Nodes, Link(n, that)
  PROVE  /\ WalksExist'
         /\ that \in Roots => Lists!AppendTo(n, that)
         /\ that = n => Lists!Leave(n)
         /\ that \notin Roots /\ that # n => that \in Items /\ Lists!InsertBefore(n, that)
<1> DEFINE nx == UnlinkedNext(n)
           pv == UnlinkedPrev(n)
           s(r) == Lists!RemoveFirst(Traversal(r), n)
           place(r) == {k \in DOMAIN s(r) : s(r)[k] = that}
<1>1. /\ n \in alive /\ n \in Items /\ n \notin Roots /\ that \in alive /\ alive' = alive
      /\ next' = PutNext(nx, pv, n, that)
  BY ListAssumption DEF Link, PutNext
<1>2. /\ nx \in [Nodes -> Nodes] /\ pv \in [Nodes -> Nodes] /\ Mirror(alive, nx, pv)
      /\ nx[n] = n /\ pv[n] = n
  BY <1>1, UnlinkMirrors DEF ListInv
<1>3. alive \in SUBSET Nodes
  BY PointersAre
<1>4. ASSUME NEW r \in Roots, r \in alive PROVE IsWalk(alive, nx, r, s(r))
  BY <1>1, <1>4, UnlinkWalks
<1>5. ASSUME NEW r \in Roots, r \notin alive PROVE s(r) = <<>>
  BY <1>5, NoHeadNoList
<1> HIDE DEF nx, pv, s
<1>6. ASSUME NEW r \in Roots, r \in alive
      PROVE  /\ that = r => IsWalk(alive', next', r, Append(s(r), n))
             /\ that \in Roots /\ that # r => IsWalk(alive', next', r, s(r))
             /\ that \in Items /\ place(r) = {} => IsWalk(alive', next', r, s(r))
             /\ that \in Items /\ place(r) # {} =>
                  IsWalk(alive', next', r, Lists!InsertAt(s(r), CHOOSE k \in place(r) : TRUE, n))
  BY <1>1, <1>2, <1>3, <1>4, <1>6, PutWalks
<1> HIDE DEF place
<1>7. CASE that \in Roots
  <2> DEFINE l == [r \in Roots |-> IF r = that THEN Append(s(r), n) ELSE s(r)]
  <2>1. \A r \in Roots : l[r] = IF r = that THEN Append(s(r), n) ELSE s(r)
    OBVIOUS
  <2> HIDE DEF l
  <2>2. ASSUME NEW r \in alive' \intersect Roots PROVE IsWalk(alive', next', r, l[r])
    BY <1>1, <1>6, <1>7, <2>1
  <2>3. ASSUME NEW r \in Roots, r \notin alive' PROVE l[r] = <<>>
    BY <1>1, <1>5, <2>1, <2>3
  <2>4. WalksExist' /\ \A r \in Roots : Traversal(r)' = l[r]
    BY <2>2, <2>3, ListsBecome
  <2>5. Lists!AppendTo(n, that)
    BY <2>1, <2>4 DEF Lists!AppendTo, s
  <2>6. QED  BY <1>1, <1>7, <2>4, <2>5
<1>8. CASE that = n
  <2> DEFINE l == [r \in Roots |-> s(r)]
  <2>1. \A r \in Roots : l[r] = s(r)
    OBVIOUS
  <2> HIDE DEF l
  <2>2. next' = nx
    BY <1>1, <1>2, <1>8 DEF PutNext
  <2>3. ASSUME NEW r \in alive' \intersect Roots PROVE IsWalk(alive', next', r, l[r])
    BY <1>1, <1>4, <2>1, <2>2
  <2>4. ASSUME NEW r \in Roots, r \notin alive' PROVE l[r] = <<>>
    BY <1>1, <1>5, <2>1, <2>4
  <2>5. WalksExist' /\ \A r \in Roots : Traversal(r)' = l[r]
    BY <2>3, <2>4, ListsBecome
  <2>6. Lists!Leave(n)
    BY <2>1, <2>5 DEF Lists!Leave, s
  <2>7. QED  BY <1>1, <1>8, <2>5, <2>6
<1>9. CASE that \notin Roots /\ that # n
  <2> DEFINE l == [r \in Roots |->
                     IF place(r) = {} THEN s(r)
                     ELSE Lists!InsertAt(s(r), CHOOSE k \in place(r) : TRUE, n)]
  <2>1. \A r \in Roots : l[r] = IF place(r) = {} THEN s(r)
                                ELSE Lists!InsertAt(s(r), CHOOSE k \in place(r) : TRUE, n)
    OBVIOUS
  <2>2. that \in Items
    BY <1>9 DEF Nodes
  <2> HIDE DEF l
  <2>3. ASSUME NEW r \in alive' \intersect Roots PROVE IsWalk(alive', next', r, l[r])
    <3>1. r \in Roots /\ r \in alive
      BY <1>1
    <3>2. CASE place(r) = {}
      <4>1. l[r] = s(r)
        BY <2>1, <3>2
      <4>2. QED  BY <1>6, <2>2, <3>1, <3>2, <4>1
    <3>3. CASE place(r) # {}
      <4>1. l[r] = Lists!InsertAt(s(r), CHOOSE k \in place(r) : TRUE, n)
        BY <2>1, <3>3
      <4>2. QED  BY <1>6, <2>2, <3>1, <3>3, <4>1
    <3>4. QED  BY <3>2, <3>3
  <2>4. ASSUME NEW r \in Roots, r \notin alive' PROVE l[r] = <<>>
    <3>1. s(r) = <<>>
      BY <1>1, <1>5, <2>4
    <3>2. place(r) = {}
      BY <3>1 DEF place
    <3>3. QED  BY <2>1, <3>1, <3>2
  <2>5. WalksExist' /\ \A r \in Roots : Traversal(r)' = l[r]
    BY <2>3, <2>4, ListsBecome
  <2>6. Lists!InsertBefore(n, that)
    BY <1>9, <2>5 DEF Lists!InsertBefore, l, place, s
  <2>7. QED  BY <1>9, <2>2, <2>5, <2>6
<1>10. QED  BY <1>1, <1>7, <1>8, <1>9

\* After a new item has taken over from an old one, the walks have it in its place.
LEMMA TakeWalks ==
  ASSUME NEW A \in SUBSET Nodes, NEW nx \in [Nodes -> Nodes],
         NEW pv \in [Nodes -> Nodes], Mirror(A, nx, pv),
         NEW r \in A \intersect Roots, NEW s, IsWalk(A, nx, r, s),
         NEW to \in Items, to \in A => nx[to] = to, NEW from \in A \intersect Items
  PROVE  IsWalk(A \union {to}, TakenNext(nx, pv, to, from), r, Lists!ReplaceAll(s, from, to))
<1>1. CASE \E k \in 1 .. Len(s) : s[k] = from
  <2>1. PICK k \in 1 .. Len(s) : s[k] = from
    BY <1>1
  <2>2. IsWalk(A \union {to}, TakenNext(nx, pv, to, s[k]), r, Lists!ReplaceAll(s, s[k], to))
    BY TakeWalk
  <2>3. QED  BY <2>1, <2>2
<1>2. CASE \A k \in 1 .. Len(s) : s[k] # from
  <2>1. Stops(A, nx, r, s)
    BY StopsAre
  <2>2. s = [i \in 1 .. Len(s) |-> s[i]]
    BY <2>1 DEF Stops
  <2>3. Lists!ReplaceAll(s, from, to) = s
    BY <1>2, <2>2 DEF Lists!ReplaceAll
  <2>4. to \in Nodes /\ to # r /\ from # r
    BY ListAssumption DEF Nodes
  <2>5. QED  BY <1>2, <2>3, <2>4, TakeBeside
<1>3. QED  BY <1>1, <1>2

\* Both moves let n, which is in no list by then, take over from `that`.
LEMMA MoveIsTake ==
  ASSUME ~MoveUnlinked, ListInv, NEW n \in Nodes, NEW that \in Nodes, Move(n, that)
  PROVE  /\ that \in alive /\ n # that /\ SameKind(n, that) /\ alive' = alive \union {n}
         /\ \E nx \in [Nodes -> Nodes], pv \in [Nodes -> Nodes] :
              /\ Mirror(alive, nx, pv) /\ pv[that] # that /\ (n \in alive => nx[n] = n)
              /\ next' = TakenNext(nx, pv, n, that)
              /\ \A r \in alive \intersect Roots : r # n =>
                   IsWalk(alive, nx, r, Lists!RemoveFirst(Traversal(r), n))
<1>1. CASE MoveConstruct(n, that)
  <2>1. /\ that \in alive /\ n \notin alive /\ SameKind(n, that) /\ alive' = alive \union {n}
        /\ prev[that] # that /\ next' = TakenNext(next, prev, n, that)
    BY <1>1 DEF MoveConstruct, Movable
  <2>2. ASSUME NEW r \in alive \intersect Roots
        PROVE  IsWalk(alive, next, r, Lists!RemoveFirst(Traversal(r), n))
    BY <2>1, NothingToRemove DEF ListInv, WalksExist
  <2>3. QED  BY <2>1, <2>2, PointersAre
<1>2. CASE MoveAssign(n, that)
  <2>1. /\ that \in alive /\ n \in alive /\ n # that /\ SameKind(n, that) /\ alive' = alive \union {n}
        /\ UnlinkedPrev(n)[that] # that
        /\ next' = TakenNext(UnlinkedNext(n), UnlinkedPrev(n), n, that)
    BY <1>2 DEF MoveAssign, Movable
  <2>2. \A r \in alive \intersect Roots : r # n =>
          IsWalk(alive, UnlinkedNext(n), r, Lists!RemoveFirst(Traversal(r), n))
    BY <2>1, UnlinkWalks
  <2>3. /\ UnlinkedNext(n) \in [Nodes -> Nodes] /\ UnlinkedPrev(n) \in [Nodes -> Nodes]
        /\ Mirror(alive, UnlinkedNext(n), UnlinkedPrev(n)) /\ UnlinkedNext(n)[n] = n
    BY <2>1, UnlinkMirrors DEF ListInv
  <2>4. QED  BY <2>1, <2>2, <2>3
<1>3. QED  BY <1>1, <1>2 DEF Move

\* A moved item stands where the old one stood; a moved list has the items of
\* the old one, which has none.
LEMMA MoveAgrees ==
  ASSUME ~MoveUnlinked, ListInv, IInv', NEW n \in Nodes, NEW that \in Nodes, Move(n, that)
  PROVE  /\ WalksExist'
         /\ n \in Roots => that \in Roots /\ Lists!TakeOver(n, that)
         /\ n \notin Roots => n \in Items /\ that \in Items /\ Lists!TakePlace(n, that)
<1>1. /\ that \in alive /\ n # that /\ alive' = alive \union {n}
      /\ (n \in Items <=> that \in Items) /\ (n \in Roots <=> that \in Roots)
  BY MoveIsTake, ListAssumption DEF SameKind, Nodes
<1>2. PICK nx \in [Nodes -> Nodes], pv \in [Nodes -> Nodes] :
        /\ Mirror(alive, nx, pv) /\ pv[that] # that /\ (n \in alive => nx[n] = n)
        /\ next' = TakenNext(nx, pv, n, that)
        /\ \A r \in alive \intersect Roots : r # n =>
             IsWalk(alive, nx, r, Lists!RemoveFirst(Traversal(r), n))
  BY MoveIsTake
<1>3. alive \in SUBSET Nodes
  BY PointersAre
<1>4. CASE n \in Roots
  <2> DEFINE l == [r \in Roots |-> IF r = n THEN Traversal(that) ELSE IF r = that THEN <<>> ELSE Traversal(r)]
  <2>1. \A r \in Roots : l[r] = IF r = n THEN Traversal(that) ELSE IF r = that THEN <<>> ELSE Traversal(r)
    OBVIOUS
  <2> HIDE DEF l
  <2>2. ASSUME NEW r \in alive \intersect Roots, r # n PROVE IsWalk(alive, nx, r, Traversal(r))
    <3>1. Lists!RemoveFirst(Traversal(r), n) = Traversal(r)
      BY <1>4, ListAssumption, NothingToRemove
    <3>2. QED  BY <1>2, <2>2, <3>1
  <2>3. that \in alive \intersect Roots /\ n \in Roots /\ n \in Nodes
    BY <1>1, <1>4
  <2>4. IsWalk(alive, nx, that, Traversal(that))
    BY <1>1, <2>2, <2>3
  <2>5. IsWalk(alive', next', n, Traversal(that)) /\ IsWalk(alive', next', that, <<>>)
    BY <1>1, <1>2, <1>3, <2>3, <2>4, TakeRing
  <2>6. ASSUME NEW r \in alive' \intersect Roots, r # n, r # that
        PROVE  IsWalk(alive', next', r, Traversal(r))
    <3>1. r \in alive \intersect Roots
      BY <1>1, <2>6
    <3>2. IsWalk(alive, nx, r, Traversal(r))
      BY <2>2, <2>6, <3>1
    <3> DEFINE s == Traversal(r)
    <3> HIDE DEF s
    <3>3. Stops(alive, nx, r, s)
      BY <1>3, <3>1, <3>2, StopsAre DEF s
    <3>4. \A i \in 1 .. Len(s) : s[i] # that
      BY <2>3, <3>3, ListAssumption DEF Stops
    <3>5. IsWalk(alive \union {n}, TakenNext(nx, pv, n, that), r, s)
      BY <1>1, <1>2, <1>3, <2>6, <3>1, <3>2, <3>4, TakeBeside DEF s
    <3>6. QED  BY <1>1, <1>2, <3>5 DEF s
  <2>7. ASSUME NEW r \in alive' \intersect Roots PROVE IsWalk(alive', next', r, l[r])
    <3>1. CASE r = n
      BY <2>1, <2>5, <3>1
    <3>2. CASE r # n /\ r = that
      BY <2>1, <2>5, <3>2
    <3>3. CASE r # n /\ r # that
      BY <2>1, <2>6, <3>3
    <3>4. QED  BY <3>1, <3>2, <3>3
  <2>8. ASSUME NEW r \in Roots, r \notin alive' PROVE l[r] = <<>>
    BY <1>1, <2>1, <2>8, NoHeadNoList
  <2>9. WalksExist' /\ \A r \in Roots : Traversal(r)' = l[r]
    BY <2>7, <2>8, ListsBecome
  <2>10. Lists!TakeOver(n, that)
    BY <1>1, <2>1, <2>3, <2>9 DEF Lists!TakeOver
  <2>11. QED  BY <1>4, <2>3, <2>9, <2>10
<1>5. CASE n \notin Roots
  <2> DEFINE l == [r \in Roots |-> Lists!ReplaceAll(Lists!RemoveFirst(Traversal(r), n), that, n)]
  <2>1. \A r \in Roots : l[r] = Lists!ReplaceAll(Lists!RemoveFirst(Traversal(r), n), that, n)
    OBVIOUS
  <2> HIDE DEF l
  <2>2. n \in Items /\ that \in alive \intersect Items
    BY <1>1, <1>5 DEF Nodes
  <2>3. ASSUME NEW r \in alive' \intersect Roots PROVE IsWalk(alive', next', r, l[r])
    <3>1. r \in alive \intersect Roots /\ r # n
      BY <1>1, <1>5
    <3>2. IsWalk(alive, nx, r, Lists!RemoveFirst(Traversal(r), n))
      BY <1>2, <3>1
    <3>3. IsWalk(alive \union {n}, TakenNext(nx, pv, n, that), r, l[r])
      BY <1>2, <1>3, <2>1, <2>2, <3>1, <3>2, TakeWalks
    <3>4. QED  BY <1>1, <1>2, <3>3
  <2>4. ASSUME NEW r \in Roots, r \notin alive' PROVE l[r] = <<>>
    BY <1>1, <2>1, <2>4, NoHeadNoList
  <2>5. WalksExist' /\ \A r \in Roots : Traversal(r)' = l[r]
    BY <2>3, <2>4, ListsBecome
  <2>6. Lists!TakePlace(n, that)
    BY <1>1, <2>1, <2>5 DEF Lists!TakePlace
  <2>7. QED  BY <1>5, <2>2, <2>5, <2>6
<1>6. QED  BY <1>4, <1>5

-----------------------------------------------------------------------------
\* Every call is the operation of its name on the sequences.
CallAgrees(n, that) ==
  /\ Link(n, that) => CASE that \in Roots -> Lists!AppendTo(n, that)
                        [] that = n -> Lists!Leave(n)
                        [] OTHER -> Lists!InsertBefore(n, that)
  /\ Unlink(n) => Lists!Leave(n)
  /\ Destroy(n) => IF n \in Roots THEN Lists!Drop(n) ELSE Lists!Leave(n)
  /\ Move(n, that) => IF n \in Roots THEN Lists!TakeOver(n, that)
                                     ELSE Lists!TakePlace(n, that)

\* It is, if the lists were walks before it.
LEMMA CallsAgree ==
  ASSUME ~MoveUnlinked, ListInv, IInv', NEW n \in Nodes, NEW that \in Nodes
  PROVE  CallAgrees(n, that)
<1>1. ASSUME Link(n, that)
      PROVE  CASE that \in Roots -> Lists!AppendTo(n, that)
               [] that = n -> Lists!Leave(n)
               [] OTHER -> Lists!InsertBefore(n, that)
  <2>1. n \notin Roots
    BY <1>1, ListAssumption DEF Link
  <2>2. QED  BY <1>1, <2>1, LinkAgrees
<1>2. Unlink(n) => Lists!Leave(n)
  BY UnlinkAgrees
<1>3. Destroy(n) => IF n \in Roots THEN Lists!Drop(n) ELSE Lists!Leave(n)
  BY DestroyAgrees
<1>4. Move(n, that) => IF n \in Roots THEN Lists!TakeOver(n, that) ELSE Lists!TakePlace(n, that)
  BY MoveAgrees
<1>5. QED  BY <1>1, <1>2, <1>3, <1>4 DEF CallAgrees

\* The invariant holds, and every step is one of ItemLists or leaves its lists.
LEMMA ListStep ==
  ASSUME ~MoveUnlinked, ListInv, [Next]_listVars
  PROVE  ListInv' /\ [Lists!Next]_[r \in Roots |-> Traversal(r)]
<1>0. IInv'
  BY NextInv DEF ListInv
<1>1. CASE UNCHANGED listVars
  <2>1. alive' = alive /\ next' = next
    BY <1>1 DEF listVars
  <2>2. ASSUME NEW r \in Roots PROVE Traversal(r)' = Traversal(r)
    BY <2>1 DEF Traversal, After
  <2>3. WalksExist'
    BY <2>1, <2>2 DEF ListInv, WalksExist
  <2>4. QED  BY <1>0, <2>2, <2>3 DEF ListInv
<1>2. ASSUME NEW n \in Nodes, Construct(n)
      PROVE  ListInv' /\ [Lists!Next]_[r \in Roots |-> Traversal(r)]
  <2>1. WalksExist' /\ \A r \in Roots : Traversal(r)' = Traversal(r)
    BY <1>0, <1>2, ConstructAgrees
  <2>2. QED  BY <1>0, <2>1 DEF ListInv
<1>3. ASSUME NEW n \in Nodes, Destroy(n) PROVE WalksExist' /\ Lists!Next
  <2>1. WalksExist' /\ IF n \in Roots THEN Lists!Drop(n) ELSE Lists!Leave(n)
    BY <1>0, <1>3, DestroyAgrees
  <2>2. QED  BY <2>1 DEF Lists!Next, Nodes
<1>4. ASSUME NEW n \in Nodes, Unlink(n) PROVE WalksExist' /\ Lists!Next
  <2>1. WalksExist' /\ Lists!Leave(n) /\ n \in Items
    BY <1>0, <1>4, UnlinkAgrees DEF Unlink
  <2>2. QED  BY <2>1 DEF Lists!Next
<1>5. ASSUME NEW n \in Nodes, NEW that \in Nodes, Link(n, that) PROVE WalksExist' /\ Lists!Next
  <2>1. /\ WalksExist' /\ n \in Items
        /\ that \in Roots => Lists!AppendTo(n, that)
        /\ that = n => Lists!Leave(n)
        /\ that \notin Roots /\ that # n => that \in Items /\ Lists!InsertBefore(n, that)
    BY <1>0, <1>5, LinkAgrees DEF Link
  <2>2. QED  BY <2>1 DEF Lists!Next
<1>6. ASSUME NEW n \in Nodes, NEW that \in Nodes, Move(n, that) PROVE WalksExist' /\ Lists!Next
  <2>1. /\ WalksExist'
        /\ n \in Roots => that \in Roots /\ Lists!TakeOver(n, that)
        /\ n \notin Roots => n \in Items /\ that \in Items /\ Lists!TakePlace(n, that)
    BY <1>0, <1>6, MoveAgrees
  <2>2. QED  BY <2>1 DEF Lists!Next
<1>7. QED  BY <1>0, <1>1, <1>2, <1>3, <1>4, <1>5, <1>6 DEF Next, Alone, ListInv

\* Before anything is constructed every list is empty.
LEMMA ListInit == Init => ListInv /\ Lists!Init
<1> SUFFICES ASSUME Init PROVE ListInv /\ Lists!Init
  OBVIOUS
<1>1. alive = {}
  BY DEF Init
<1>2. \A r \in Roots : Traversal(r) = <<>>
  BY <1>1, NoHeadNoList
<1>3. QED  BY <1>1, <1>2, InitInv DEF ListInv, WalksExist, Lists!Init

\* Whatever sequence of calls, the pointers are lists: each call does to the
\* sequences of items what its name says, and leaves the order of all others
\* (linked_list.hpp:22-230), provided nothing is moved while in no list.
THEOREM ListsImplemented == ASSUME ~MoveUnlinked PROVE Spec => ImplementsLists
<1>1. ListInv /\ [Next]_listVars => ListInv'
  BY ListStep
<1>2. ListInv /\ [Next]_listVars => [Lists!Next]_[r \in Roots |-> Traversal(r)]
  BY ListStep
<1>3. ListInv /\ ListInv' /\ [Next]_listVars => [\A n, that \in Nodes : CallAgrees(n, that)]_listVars
  BY CallsAgree DEF ListInv
<1>4. Spec => Lists!Spec
  BY ListInit, <1>1, <1>2, PTL DEF Spec, Lists!Spec
<1>5. Spec => [][\A n, that \in Nodes : CallAgrees(n, that)]_listVars
  BY ListInit, <1>1, <1>3, PTL DEF Spec
<1>6. Spec => EachCallAgrees
  BY <1>5 DEF EachCallAgrees, CallAgrees
<1>7. QED  BY <1>4, <1>6, PTL DEF ImplementsLists

-----------------------------------------------------------------------------
(* A loop over a list that changes.                                        *)

\* What is in s and not in S is in t, in the same order.
KeepsOrder(s, t, S) ==
  \A i, j \in 1 .. Len(s) : i <= j /\ s[i] \notin S /\ s[j] \notin S =>
    \E k, l \in 1 .. Len(t) : k <= l /\ t[k] = s[i] /\ t[l] = s[j]

\* What does not change keeps its order.
LEMMA SameKeepsOrder == \A s, S : KeepsOrder(s, s, S)
BY DEF KeepsOrder

\* Two changes that keep the order do so together.
LEMMA KeepsOrderTwice ==
  ASSUME NEW s, NEW t, NEW u, NEW S, KeepsOrder(s, t, S), KeepsOrder(t, u, S)
  PROVE  KeepsOrder(s, u, S)
<1> SUFFICES ASSUME NEW i \in 1 .. Len(s), NEW j \in 1 .. Len(s), i <= j, s[i] \notin S, s[j] \notin S
             PROVE  \E k, l \in 1 .. Len(u) : k <= l /\ u[k] = s[i] /\ u[l] = s[j]
  BY DEF KeepsOrder
<1>1. PICK m \in 1 .. Len(t), n \in 1 .. Len(t) : m <= n /\ t[m] = s[i] /\ t[n] = s[j]
  BY DEF KeepsOrder
<1>2. t[m] \notin S /\ t[n] \notin S
  BY <1>1
<1>3. \E k, l \in 1 .. Len(u) : k <= l /\ u[k] = t[m] /\ u[l] = t[n]
  BY <1>1, <1>2 DEF KeepsOrder
<1>4. QED  BY <1>1, <1>3

\* Removing n leaves the order of the others.
LEMMA RemovalKeepsOrder ==
  ASSUME NEW s \in Seq(Items), Distinct(s), NEW n
  PROVE  KeepsOrder(s, Lists!RemoveFirst(s, n), {n})
<1> DEFINE t == Lists!RemoveFirst(s, n)
<1>1. CASE \A i \in 1 .. Len(s) : s[i] # n
  BY <1>1, RemoveIs, SameKeepsOrder
<1>2. CASE \E k \in 1 .. Len(s) : s[k] = n
  <2>1. PICK k \in 1 .. Len(s) : s[k] = n
    BY <1>2
  <2>2. /\ t \in Seq(Items) /\ Len(t) = Len(s) - 1
        /\ \A i \in 1 .. Len(s) - 1 : t[i] = IF i < k THEN s[i] ELSE s[i + 1]
    BY <2>1, RemoveIs
  <2> HIDE DEF t
  <2> DEFINE to(i) == IF i < k THEN i ELSE i - 1
  <2>3. ASSUME NEW i \in 1 .. Len(s), s[i] # n PROVE to(i) \in 1 .. Len(t) /\ t[to(i)] = s[i]
    <3>1. i # k
      BY <2>1, <2>3
    <3>2. QED  BY <2>2, <3>1
  <2>4. ASSUME NEW i \in 1 .. Len(s), NEW j \in 1 .. Len(s), i <= j PROVE to(i) <= to(j)
    BY <2>4
  <2> HIDE DEF to
  <2>5. QED  BY <2>3, <2>4 DEF KeepsOrder, t
<1>3. QED  BY <1>1, <1>2

\* So does appending.
LEMMA AppendKeepsOrder ==
  ASSUME NEW s \in Seq(Items), NEW n \in Items, NEW S
  PROVE  KeepsOrder(s, Append(s, n), S)
<1> DEFINE t == Append(s, n)
<1>1. Len(s) \in Nat /\ Len(t) = Len(s) + 1 /\ \A i \in 1 .. Len(s) : t[i] = s[i]
  BY AppendProperties
<1> HIDE DEF t
<1>2. \A i \in 1 .. Len(s) : i \in 1 .. Len(t) /\ t[i] = s[i]
  BY <1>1
<1>3. QED  BY <1>2 DEF KeepsOrder, t

\* So does inserting.
LEMMA InsertionKeepsOrder ==
  ASSUME NEW s \in Seq(Items), NEW n \in Items, NEW m \in 1 .. Len(s) + 1, NEW S
  PROVE  KeepsOrder(s, Lists!InsertAt(s, m, n), S)
<1> DEFINE t == Lists!InsertAt(s, m, n)
           to(i) == IF i < m THEN i ELSE i + 1
<1>1. /\ Len(s) \in Nat /\ Len(t) = Len(s) + 1
      /\ \A i \in 1 .. Len(s) + 1 : t[i] = IF i < m THEN s[i] ELSE IF i = m THEN n ELSE s[i - 1]
  BY WithOne
<1> HIDE DEF t
<1>2. ASSUME NEW i \in 1 .. Len(s) PROVE to(i) \in 1 .. Len(t) /\ t[to(i)] = s[i]
  BY <1>1
<1>3. ASSUME NEW i \in 1 .. Len(s), NEW j \in 1 .. Len(s), i <= j PROVE to(i) <= to(j)
  BY <1>3
<1> HIDE DEF to
<1>4. QED  BY <1>2, <1>3 DEF KeepsOrder, t

\* So does replacing what S names.
LEMMA ReplacementKeepsOrder ==
  ASSUME NEW s \in Seq(Items), NEW n, NEW that, NEW S, that \in S
  PROVE  KeepsOrder(s, Lists!ReplaceAll(s, that, n), S)
<1> DEFINE t == Lists!ReplaceAll(s, that, n)
<1>1. Len(s) \in Nat /\ t = [i \in 1 .. Len(s) |-> IF s[i] = that THEN n ELSE s[i]]
  BY DEF Lists!ReplaceAll
<1> HIDE DEF t
<1>2. Len(t) = Len(s) /\ \A i \in 1 .. Len(s) : t[i] = IF s[i] = that THEN n ELSE s[i]
  BY <1>1
<1>3. QED  BY <1>2 DEF KeepsOrder, t

\* What keeps the order of more keeps that of less.
LEMMA MoreMayGo ==
  ASSUME NEW s, NEW t, NEW S, NEW T, KeepsOrder(s, t, S), S \subseteq T
  PROVE  KeepsOrder(s, t, T)
BY DEF KeepsOrder

\* No call changes the order of the items that it does not name in a list that
\* it does not name.
LEMMA CallsKeepOrder ==
  ASSUME ~MoveUnlinked, ListInv, IInv', NEW r \in alive \intersect Roots, NEW n \in Nodes, r # n
  PROVE  /\ Alone(n) => r \in alive' /\ KeepsOrder(Traversal(r), Traversal(r)', {n})
         /\ \A that \in Nodes :
              /\ Link(n, that) => r \in alive' /\ KeepsOrder(Traversal(r), Traversal(r)', {n})
              /\ Move(n, that) /\ r # that =>
                   r \in alive' /\ KeepsOrder(Traversal(r), Traversal(r)', {n, that})
<1> DEFINE s == Traversal(r)
           u == Lists!RemoveFirst(s, n)
<1>1. s \in Seq(Items) /\ Distinct(s)
  <2>1. IsWalk(alive, next, r, s) /\ alive \in SUBSET Nodes
    BY PointersAre DEF ListInv, WalksExist
  <2> HIDE DEF s
  <2>2. QED  BY <2>1, StopsAre DEF Stops, IsWalk
<1>2. u \in Seq(Items) /\ KeepsOrder(s, u, {n})
  <2> HIDE DEF s
  <2>1. KeepsOrder(s, u, {n})
    BY <1>1, RemovalKeepsOrder
  <2>2. u \in Seq(Items)
    BY <1>1, RemoveIs
  <2>3. QED  BY <2>1, <2>2
<1>3. ASSUME Lists!Leave(n) PROVE KeepsOrder(s, s', {n})
  <2>1. Traversal(r)' = u
    BY <1>3 DEF Lists!Leave
  <2>2. QED  BY <1>2, <2>1
<1>4. ASSUME Construct(n) PROVE r \in alive' /\ KeepsOrder(s, s', {n})
  <2>1. r \in alive' /\ Traversal(r)' = Traversal(r)
    BY <1>4, ConstructAgrees DEF Construct
  <2>2. QED  BY <2>1, SameKeepsOrder
<1>5. ASSUME Destroy(n) PROVE r \in alive' /\ KeepsOrder(s, s', {n})
  <2>1. r \in alive' /\ IF n \in Roots THEN Lists!Drop(n) ELSE Lists!Leave(n)
    BY <1>5, DestroyAgrees DEF Destroy
  <2>2. CASE n \in Roots
    <3>1. Traversal(r)' = Traversal(r)
      BY <2>1, <2>2 DEF Lists!Drop
    <3>2. QED  BY <2>1, <3>1, SameKeepsOrder
  <2>3. CASE n \notin Roots
    BY <1>3, <2>1, <2>3
  <2>4. QED  BY <2>2, <2>3
<1>6. ASSUME Unlink(n) PROVE r \in alive' /\ KeepsOrder(s, s', {n})
  BY <1>3, <1>6, UnlinkAgrees DEF Unlink
<1>7. ASSUME NEW that \in Nodes, Link(n, that) PROVE r \in alive' /\ KeepsOrder(s, s', {n})
  <2>1. /\ r \in alive' /\ n \in Items
        /\ that \in Roots => Lists!AppendTo(n, that)
        /\ that = n => Lists!Leave(n)
        /\ that \notin Roots /\ that # n => that \in Items /\ Lists!InsertBefore(n, that)
    BY <1>7, LinkAgrees DEF Link
  <2>2. CASE that \in Roots
    <3>1. Traversal(r)' = IF r = that THEN Append(u, n) ELSE u
      BY <2>1, <2>2 DEF Lists!AppendTo
    <3> HIDE DEF u
    <3>2. KeepsOrder(u, Append(u, n), {n})
      BY <1>2, <2>1, AppendKeepsOrder
    <3> HIDE DEF s
    <3>3. KeepsOrder(s, Append(u, n), {n})
      BY <1>2, <3>2, KeepsOrderTwice
    <3>4. QED  BY <1>2, <2>1, <3>1, <3>3 DEF s
  <2>3. CASE that = n
    BY <1>3, <2>1, <2>3
  <2>4. CASE that \notin Roots /\ that # n
    <3> DEFINE place == {k \in DOMAIN u : u[k] = that}
    <3>1. Traversal(r)' = IF place = {} THEN u ELSE Lists!InsertAt(u, CHOOSE k \in place : TRUE, n)
      BY <2>1, <2>4 DEF Lists!InsertBefore
    <3> HIDE DEF u
    <3>2. CASE place = {}
      BY <1>2, <2>1, <3>1, <3>2
    <3>3. CASE place # {}
      <4>1. PICK m \in place : m = CHOOSE k \in place : TRUE
        BY <3>3
      <4>2. m \in 1 .. Len(u) + 1
        BY <1>2, <4>1
      <4>3. Traversal(r)' = Lists!InsertAt(u, m, n)
        BY <3>1, <3>3, <4>1
      <4>4. KeepsOrder(u, Lists!InsertAt(u, m, n), {n})
        BY <1>2, <2>1, <4>2, InsertionKeepsOrder
      <4> HIDE DEF s
      <4>5. KeepsOrder(s, Lists!InsertAt(u, m, n), {n})
        BY <1>2, <4>4, KeepsOrderTwice
      <4>6. QED  BY <2>1, <4>3, <4>5 DEF s
    <3>4. QED  BY <3>2, <3>3
  <2>5. QED  BY <2>2, <2>3, <2>4
<1>8. ASSUME NEW that \in Nodes, Move(n, that), r # that
      PROVE  r \in alive' /\ KeepsOrder(s, s', {n, that})
  <2>1. /\ n \in Roots => Lists!TakeOver(n, that)
        /\ n \notin Roots => Lists!TakePlace(n, that)
        /\ r \in alive'
    BY <1>8, MoveAgrees, MoveIsTake
  <2>2. CASE n \in Roots
    <3>1. Traversal(r)' = Traversal(r)
      BY <1>8, <2>1, <2>2 DEF Lists!TakeOver
    <3>2. QED  BY <2>1, <3>1, SameKeepsOrder
  <2>3. CASE n \notin Roots
    <3> DEFINE t == Lists!ReplaceAll(u, that, n)
    <3>1. Traversal(r)' = t
      BY <2>1, <2>3 DEF Lists!TakePlace
    <3> HIDE DEF s
    <3>2. KeepsOrder(s, u, {n, that})
      BY <1>2, MoreMayGo
    <3> HIDE DEF u
    <3>3. KeepsOrder(u, t, {n, that})
      BY <1>2, ReplacementKeepsOrder
    <3> HIDE DEF t
    <3>4. KeepsOrder(s, t, {n, that})
      BY <3>2, <3>3, KeepsOrderTwice
    <3>5. QED  BY <2>1, <3>1, <3>4 DEF s
  <2>4. QED  BY <2>2, <2>3
<1>9. QED  BY <1>4, <1>5, <1>6, <1>7, <1>8 DEF Alone

\* The loop is at a stop of its list, and what stayed and has not been seen
\* comes there or later.
OnPlace(r) ==
  /\ r \in alive
  /\ \E i \in 1 .. Len(Traversal(r)) + 1 :
       /\ at = Stop(r, Traversal(r), i)
       /\ \A x \in stay \ seen : \E j \in i .. Len(Traversal(r)) : Traversal(r)[j] = x

\* The inductive invariant.
LoopInv == ListInv /\ WalkTypeOK /\ \A r \in Roots : list = r => OnPlace(r)

\* What the invariant of the lists says of one of them.
LEMMA TraversalIs ==
  ASSUME ListInv, NEW r \in alive \intersect Roots
  PROVE  /\ Stops(alive, next, r, Traversal(r)) /\ Distinct(Traversal(r))
         /\ ItemsOf(r) = {Traversal(r)[k] : k \in 1 .. Len(Traversal(r))}
<1> DEFINE s == Traversal(r)
<1>1. IsWalk(alive, next, r, s) /\ alive \in SUBSET Nodes
  BY PointersAre DEF ListInv, WalksExist
<1>2. ItemsOf(r) = {s[k] : k \in DOMAIN s}
  BY DEF ItemsOf
<1> HIDE DEF s
<1>3. Stops(alive, next, r, s) /\ Distinct(s)
  BY <1>1, StopsAre DEF IsWalk
<1>4. DOMAIN s = 1 .. Len(s)
  BY <1>3 DEF Stops
<1>5. QED  BY <1>2, <1>3, <1>4 DEF s

\* The same of all lists.
TraversalsFit ==
  \A r \in alive \intersect Roots : Stops(alive, next, r, Traversal(r)) /\ Distinct(Traversal(r))

\* It follows from the invariant.
LEMMA TraversalsAre == ListInv => TraversalsFit
BY TraversalIs DEF TraversalsFit

\* A change of the lists that names the nodes S leaves the loop in its place.
LEMMA ChangeKeepsPlace ==
  ASSUME LoopInv, ListInv', NEW S, Body(S), NEW r \in Roots, list = r,
         r \in alive', KeepsOrder(Traversal(r), Traversal(r)', S)
  PROVE  OnPlace(r)'
<1> DEFINE s == Traversal(r)
           t == Traversal(r)'
<1>1. /\ at \notin S /\ at' = at /\ list' = list /\ seen' = seen /\ stay' = stay \ S
  BY ListAssumption, WalkAssumption DEF Body, Walking, Nodes
<1>2. r \in alive
  BY DEF LoopInv, OnPlace
<1>3. Stops(alive, next, r, s)
  BY <1>2, TraversalIs DEF LoopInv
<1>4. Stops(alive', next', r, t) /\ Distinct(t)
  <2>1. TraversalsFit'
    BY TraversalsAre, PTL
  <2>2. QED  BY <2>1 DEF TraversalsFit
<1>5. PICK i \in 1 .. Len(s) + 1 :
        at = Stop(r, s, i) /\ \A x \in stay \ seen : \E j \in i .. Len(s) : s[j] = x
  BY DEF LoopInv, OnPlace
<1>6. OnPlace(r)' <=>
        \E k \in 1 .. Len(t) + 1 :
          at' = Stop(r, t, k) /\ \A x \in stay' \ seen' : \E j \in k .. Len(t) : t[j] = x
  BY DEF OnPlace
<1>7. \A j, k \in 1 .. Len(s) : j <= k /\ s[j] \notin S /\ s[k] \notin S =>
          \E l, m \in 1 .. Len(t) : l <= m /\ t[l] = s[j] /\ t[m] = s[k]
  BY DEF KeepsOrder
<1> HIDE DEF s, t
<1>8. CASE i = Len(s) + 1
  <2>1. stay' \ seen' = {}
    BY <1>1, <1>3, <1>5, <1>8 DEF Stops
  <2>2. Len(t) + 1 \in 1 .. Len(t) + 1 /\ at' = Stop(r, t, Len(t) + 1)
    BY <1>1, <1>3, <1>4, <1>5, <1>8 DEF Stops
  <2>3. QED  BY <1>6, <2>1, <2>2
<1>9. CASE i # Len(s) + 1
  <2>1. i \in 1 .. Len(s) /\ at = s[i] /\ i <= i
    BY <1>3, <1>5, <1>9 DEF Stops
  <2>2. PICK k \in 1 .. Len(t) : t[k] = at
    BY <1>1, <1>7, <2>1
  <2>3. ASSUME NEW x \in stay' \ seen' PROVE \E j \in k .. Len(t) : t[j] = x
    <3>1. PICK j \in i .. Len(s) : s[j] = x
      BY <1>1, <1>5, <2>3
    <3>2. j \in 1 .. Len(s) /\ i <= j /\ s[j] \notin S /\ s[i] \notin S
      BY <1>1, <2>1, <2>3, <3>1
    <3>3. PICK m \in 1 .. Len(t), l \in 1 .. Len(t) : m <= l /\ t[m] = s[i] /\ t[l] = x
      <4>1. \E m, l \in 1 .. Len(t) : m <= l /\ t[m] = s[i] /\ t[l] = s[j]
        BY <1>7, <2>1, <3>2
      <4>2. QED  BY <3>1, <4>1
    <3>4. m = k
      BY <1>4, <2>1, <2>2, <3>3 DEF Distinct
    <3>5. QED  BY <3>3, <3>4
  <2>4. k \in 1 .. Len(t) + 1 /\ at' = Stop(r, t, k)
    <3>1. Len(t) \in Nat /\ \A m \in 1 .. Len(t) : Stop(r, t, m) = t[m]
      BY <1>4 DEF Stops
    <3>2. Stop(r, t, k) = t[k]
      BY <2>2, <3>1
    <3>3. QED  BY <1>1, <2>2, <3>1, <3>2
  <2>5. QED  BY <1>6, <2>3, <2>4
<1>10. QED  BY <1>8, <1>9

\* Every step of the loop, its body or the program keeps the invariant.
LEMMA LoopStep ==
  ASSUME ~MoveUnlinked, LoopInv, [WalkNext]_walkVars
  PROVE  LoopInv'
<1>1. [Next]_listVars
  BY DEF WalkNext, StartWalk, Advance, EndWalk, Change, Relink, Next, Alone, Move, walkVars, listVars
<1>2. ListInv /\ ListInv' /\ IInv'
  BY <1>1, ListStep DEF LoopInv, ListInv
<1>3. ASSUME NEW r \in Roots, StartWalk(r) PROVE LoopInv'
  <2>1. /\ r \in alive /\ list' = r /\ at' = next[r] /\ seen' = {} /\ stay' = ItemsOf(r)
        /\ UNCHANGED <<alive, next>>
    BY <1>3 DEF StartWalk, listVars
  <2>2. Traversal(r)' = Traversal(r)
    BY <2>1 DEF Traversal, After
  <2> DEFINE s == Traversal(r)
  <2> HIDE DEF s
  <2>3. Stops(alive, next, r, s) /\ stay' = {s[k] : k \in 1 .. Len(s)}
    BY <1>2, <2>1, TraversalIs DEF s
  <2>4. at' = Stop(r, s, 1) /\ 1 \in 1 .. Len(s) + 1 /\ at' \in alive
    BY <2>1, <2>3 DEF Stops
  <2>5. WalkTypeOK'
    BY <1>2, <2>1, <2>3, <2>4, PointersAre DEF WalkTypeOK, Stops
  <2>6. OnPlace(r)'
    BY <2>1, <2>2, <2>3, <2>4 DEF OnPlace, s
  <2>7. QED  BY <1>2, <2>1, <2>5, <2>6 DEF LoopInv
<1>4. ASSUME Advance PROVE LoopInv'
  <2>1. /\ list \in Roots /\ at # list /\ seen' = seen \union {at} /\ at' = next[at]
        /\ UNCHANGED <<alive, next, list, stay>>
    BY <1>4 DEF Advance, Walking, LoopInv, WalkTypeOK
  <2>2. PICK r \in Roots : list = r
    BY <2>1
  <2>3. Traversal(r)' = Traversal(r)
    BY <2>1 DEF Traversal, After
  <2> DEFINE s == Traversal(r)
  <2>4. PICK i \in 1 .. Len(s) + 1 :
          at = Stop(r, s, i) /\ \A x \in stay \ seen : \E j \in i .. Len(s) : s[j] = x
    BY <2>2 DEF LoopInv, OnPlace
  <2>5. r \in alive
    BY <2>2 DEF LoopInv, OnPlace
  <2> HIDE DEF s
  <2>6. Stops(alive, next, r, s)
    BY <1>2, <2>5, TraversalIs DEF s
  <2>7. i \in 1 .. Len(s) /\ i \in 0 .. Len(s) /\ at = s[i] /\ at \in Items
    BY <2>1, <2>2, <2>4, <2>6 DEF Stops
  <2>8. at' = Stop(r, s, i + 1) /\ i + 1 \in 1 .. Len(s) + 1 /\ at' \in alive
    BY <2>1, <2>4, <2>6, <2>7 DEF Stops
  <2>9. ASSUME NEW x \in stay' \ seen' PROVE \E j \in i + 1 .. Len(s) : s[j] = x
    <3>1. PICK j \in i .. Len(s) : s[j] = x
      BY <2>1, <2>4, <2>9
    <3>2. j # i
      BY <2>1, <2>7, <2>9, <3>1
    <3>3. QED  BY <2>7, <3>1, <3>2
  <2>10. OnPlace(r)'
    BY <2>1, <2>3, <2>5, <2>8, <2>9 DEF OnPlace, s
  <2>11. WalkTypeOK'
    BY <1>2, <2>1, <2>7, <2>8, PointersAre DEF WalkTypeOK, LoopInv
  <2>12. QED  BY <1>2, <2>1, <2>2, <2>10, <2>11 DEF LoopInv
<1>5. ASSUME EndWalk PROVE LoopInv'
  <2>1. list' = NoNode /\ at' = NoNode /\ seen' = {} /\ stay' = {}
    BY <1>5 DEF EndWalk
  <2>2. NoNode \notin Roots
    BY WalkAssumption DEF Nodes
  <2>3. QED  BY <1>2, <2>1, <2>2 DEF LoopInv, WalkTypeOK
<1>6. ASSUME Change PROVE LoopInv'
  <2>1. PICK S :
          /\ Body(S)
          /\ \A r \in alive \intersect Roots : r \notin S =>
               r \in alive' /\ KeepsOrder(Traversal(r), Traversal(r)', S)
    <3>1. CASE \E n \in Nodes : Alone(n) /\ Body({n})
      BY <1>2, <3>1, CallsKeepOrder
    <3>2. CASE \E n, that \in Nodes : Link(n, that) /\ Body({n})
      BY <1>2, <3>2, CallsKeepOrder
    <3>3. CASE \E n, that \in Nodes : Move(n, that) /\ Body({n, that})
      BY <1>2, <3>3, CallsKeepOrder
    <3>4. QED  BY <1>6, <3>1, <3>2, <3>3 DEF Change, Relink
  <2>2. WalkTypeOK'
    BY <2>1 DEF WalkTypeOK, LoopInv, Body
  <2>3. ASSUME NEW r \in Roots, list' = r PROVE OnPlace(r)'
    <3>1. list = r
      BY <2>1, <2>3 DEF Body
    <3>2. r \notin S /\ r \in alive
      BY <2>1, <3>1, WalkAssumption DEF Body, Walking, Nodes, LoopInv, OnPlace
    <3>3. r \in alive' /\ KeepsOrder(Traversal(r), Traversal(r)', S)
      BY <2>1, <3>2
    <3>4. QED  BY <1>2, <2>1, <3>1, <3>3, ChangeKeepsPlace
  <2>4. QED  BY <1>2, <2>2, <2>3 DEF LoopInv
<1>7. ASSUME UNCHANGED walkVars PROVE LoopInv'
  <2>1. UNCHANGED <<alive, next, list, at, seen, stay>>
    BY <1>7 DEF walkVars
  <2>2. ASSUME NEW r \in Roots, list' = r PROVE OnPlace(r)'
    <3>1. Traversal(r)' = Traversal(r)
      BY <2>1 DEF Traversal, After
    <3>2. OnPlace(r)
      BY <2>1, <2>2 DEF LoopInv
    <3>3. QED  BY <2>1, <3>1, <3>2 DEF OnPlace
  <2>3. QED  BY <1>2, <2>1, <2>2 DEF LoopInv, WalkTypeOK
<1>8. QED  BY <1>3, <1>4, <1>5, <1>6, <1>7 DEF WalkNext

\* Whatever the body of a loop does to other nodes, the loop stays in its list
\* and comes to every item that stayed there (iterators of linked_list.hpp).
THEOREM LoopsFindAll == ASSUME ~MoveUnlinked PROVE WalkSpec => []LoopFindsAll
<1>1. WalkInit => LoopInv
  <2>1. WalkInit => ListInv
    BY ListInit DEF WalkInit
  <2>2. NoNode \notin Roots
    BY WalkAssumption DEF Nodes
  <2>3. QED  BY <2>1, <2>2 DEF WalkInit, LoopInv, WalkTypeOK
<1>2. LoopInv /\ [WalkNext]_walkVars => LoopInv'
  BY LoopStep
<1>3. LoopInv => LoopFindsAll
  <2> SUFFICES ASSUME LoopInv PROVE LoopFindsAll
    OBVIOUS
  <2>1. TypeOK /\ WalkTypeOK
    BY DEF LoopInv, ListInv, IInv
  <2>2. ASSUME NEW r \in Roots, list = r
        PROVE  (at = r \/ at \in ItemsOf(r)) /\ (at = r => stay \subseteq seen)
    <3> DEFINE s == Traversal(r)
    <3>1. /\ r \in alive
          /\ \E i \in 1 .. Len(s) + 1 :
               at = Stop(r, s, i) /\ \A x \in stay \ seen : \E j \in i .. Len(s) : s[j] = x
      BY <2>2 DEF LoopInv, OnPlace
    <3>2. PICK i \in 1 .. Len(s) + 1 :
            at = Stop(r, s, i) /\ \A x \in stay \ seen : \E j \in i .. Len(s) : s[j] = x
      BY <3>1
    <3> HIDE DEF s
    <3>3. Stops(alive, next, r, s) /\ ItemsOf(r) = {s[k] : k \in 1 .. Len(s)}
      BY <3>1, TraversalIs DEF LoopInv, s
    <3>4. CASE i = Len(s) + 1
      BY <3>2, <3>3, <3>4 DEF Stops
    <3>5. CASE i # Len(s) + 1
      <4>1. i \in 1 .. Len(s) /\ at = s[i] /\ at # r
        BY <3>2, <3>3, <3>5 DEF Stops
      <4>2. QED  BY <3>3, <4>1
    <3>6. QED  BY <3>4, <3>5
  <2>3. QED  BY <2>1, <2>2 DEF LoopFindsAll, OnList, NoneMissed, Walking, WalkTypeOK
<1>4. QED  BY <1>1, <1>2, <1>3, PTL DEF WalkSpec
=============================================================================
