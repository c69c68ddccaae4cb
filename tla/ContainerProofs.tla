---------------------------- MODULE ContainerProofs ----------------------------
(* ByteBuf, CappedVec, FixedLengthString, IndexRange and ScratchDir are    *)
(* right for every size, width, type of element and number of objects.     *)
EXTENDS ByteBuffer, FixedArrays, RangeWalk, ScratchDirs, TLAPS

-----------------------------------------------------------------------------
(* Sequences.                                                              *)

\* A function on 1 .. n into S is a sequence of n elements of S.
LEMMA FunctionIsSeq ==
  ASSUME NEW S, NEW n \in Nat, NEW f \in [1 .. n -> S]
  PROVE  /\ f \in Seq(S) /\ Len(f) = n
OBVIOUS

\* Two sequences of one length with the same elements are equal.
LEMMA SeqEqual ==
  ASSUME NEW S, NEW s \in Seq(S), NEW t \in Seq(S), Len(s) = Len(t),
         \A i \in 1 .. Len(s) : s[i] = t[i]
  PROVE  s = t
OBVIOUS

LEMMA SubSeqIs ==
  ASSUME NEW S, NEW s \in Seq(S), NEW m \in 1 .. Len(s) + 1, NEW n \in m - 1 .. Len(s)
  PROVE  /\ SubSeq(s, m, n) \in Seq(S) /\ Len(SubSeq(s, m, n)) = n - m + 1
         /\ \A i \in 1 .. n - m + 1 : SubSeq(s, m, n)[i] = s[m + i - 1]
OBVIOUS

LEMMA ConcatIs ==
  ASSUME NEW S, NEW s \in Seq(S), NEW t \in Seq(S)
  PROVE  /\ s \o t \in Seq(S) /\ Len(s \o t) = Len(s) + Len(t)
         /\ \A i \in 1 .. Len(s) : (s \o t)[i] = s[i]
         /\ \A i \in 1 .. Len(s) + Len(t) : i > Len(s) => (s \o t)[i] = t[i - Len(s)]
OBVIOUS

LEMMA AppendIs ==
  ASSUME NEW S, NEW s \in Seq(S), NEW e \in S
  PROVE  /\ Append(s, e) \in Seq(S) /\ Len(Append(s, e)) = Len(s) + 1
         /\ \A i \in 1 .. Len(s) : Append(s, e)[i] = s[i]
         /\ Append(s, e)[Len(s) + 1] = e
OBVIOUS

LEMMA ExceptIs ==
  ASSUME NEW S, NEW s \in Seq(S), NEW i \in 1 .. Len(s), NEW e \in S
  PROVE  /\ [s EXCEPT ![i] = e] \in Seq(S) /\ Len([s EXCEPT ![i] = e]) = Len(s)
         /\ \A j \in 1 .. Len(s) : [s EXCEPT ![i] = e][j] = IF j = i THEN e ELSE s[j]
<1> DEFINE n == Len(s)
           f == [s EXCEPT ![i] = e]
<1>1. n \in Nat /\ s \in [1 .. n -> S]
  OBVIOUS
<1> HIDE DEF n
<1>2. f \in [1 .. n -> S] /\ \A j \in 1 .. n : f[j] = IF j = i THEN e ELSE s[j]
  BY <1>1 DEF n
<1> HIDE DEF f
<1>3. f \in Seq(S) /\ Len(f) = n
  BY <1>1, <1>2, FunctionIsSeq
<1>4. QED  BY <1>2, <1>3 DEF f, n

-----------------------------------------------------------------------------
(* CappedVec.                                                              *)

Elem == Items \union {NoItem}

VecInv ==
  /\ slots \in [Places -> Elem]
  /\ count \in 0 .. Limit
  /\ NothingKept

LEMMA VecInitInv == VecInit => VecInv
BY LimitAssumption DEF VecInit, VecInv, Elem, Places, NothingKept

LEMMA VecNextInv == VecInv /\ [VecNext]_vecVars => VecInv'
<1> USE LimitAssumption DEF VecInv, Elem, Places, NothingKept
<1> SUFFICES ASSUME VecInv, [VecNext]_vecVars  PROVE VecInv'
  OBVIOUS
<1>1. ASSUME NEW v \in Items, Push(v)  PROVE VecInv'
  BY <1>1 DEF Push
<1>2. CASE Pop
  BY <1>2 DEF Pop
<1>3. ASSUME NEW n \in 0 .. Limit + 1, NEW v \in Elem, Resize(n, v)  PROVE VecInv'
  BY <1>3 DEF Resize
<1>4. CASE ClearVec
  <2>1. Resize(0, NoItem) /\ 0 \in 0 .. Limit + 1 /\ NoItem \in Elem
    BY <1>4 DEF ClearVec
  <2>2. QED  BY <2>1, <1>3
<1>5. ASSUME NEW i \in Places, NEW v \in Items, WriteAt(i, v)  PROVE VecInv'
  BY <1>5 DEF WriteAt
<1>6. CASE UNCHANGED vecVars
  BY <1>6 DEF vecVars
<1>7. QED  BY <1>1, <1>2, <1>3, <1>4, <1>5, <1>6 DEF VecNext

LEMMA ElementsAre ==
  ASSUME VecInv
  PROVE  /\ Elements \in Seq(Elem) /\ Len(Elements) = count
         /\ \A i \in 1 .. count : Elements[i] = slots[i - 1]
<1>1. count \in Nat /\ Elements \in [1 .. count -> Elem]
  BY LimitAssumption DEF VecInv, Elements, Places
<1>2. QED  BY <1>1, FunctionIsSeq DEF Elements

LEMMA ElementsAreNext ==
  ASSUME VecInv'
  PROVE  /\ Elements' \in Seq(Elem) /\ Len(Elements') = count'
         /\ \A i \in 1 .. count' : Elements'[i] = slots'[i - 1]
<1>1. count' \in Nat /\ Elements' \in [1 .. count' -> Elem]
  BY LimitAssumption DEF VecInv, Elements, Places
<1>2. QED  BY <1>1, FunctionIsSeq DEF Elements

LEMMA PushAppends ==
  ASSUME VecInv, VecInv', NEW v \in Items, Push(v)
  PROVE  Elements' = Append(Elements, v)
<1> DEFINE t == Append(Elements, v)
<1>1. v \in Elem /\ count \in Nat
  BY LimitAssumption DEF Elem, VecInv
<1>2. t \in Seq(Elem) /\ Len(t) = count + 1
      /\ (\A i \in 1 .. count : t[i] = slots[i - 1]) /\ t[count + 1] = v
  BY <1>1, ElementsAre, AppendIs
<1> HIDE DEF t
<1>3. /\ count' = count + 1
      /\ \A i \in 1 .. count : slots'[i - 1] = slots[i - 1]
      /\ slots'[count] = v
  BY LimitAssumption DEF Push, VecInv, Places
<1>4. \A i \in 1 .. count + 1 : Elements'[i] = t[i]
  <2> TAKE i \in 1 .. count + 1
  <2>1. Elements'[i] = slots'[i - 1]
    BY <1>3, ElementsAreNext
  <2>2. CASE i \in 1 .. count
    BY <2>1, <2>2, <1>2, <1>3
  <2>3. CASE i = count + 1
    BY <2>1, <2>3, <1>1, <1>2, <1>3
  <2>4. QED  BY <1>1, <2>2, <2>3
<1>5. Elements' = t
  BY <1>2, <1>3, <1>4, ElementsAreNext, SeqEqual
<1>6. QED  BY <1>5 DEF t

LEMMA PopDrops ==
  ASSUME VecInv, VecInv', Pop
  PROVE  Elements' = SubSeq(Elements, 1, Len(Elements) - 1)
<1> DEFINE t == SubSeq(Elements, 1, Len(Elements) - 1)
<1>1. /\ count \in 1 .. Limit /\ count' = count - 1
      /\ \A i \in 1 .. count - 1 : slots'[i - 1] = slots[i - 1]
  BY LimitAssumption DEF Pop, VecInv, Places
<1>2. t \in Seq(Elem) /\ Len(t) = count - 1
      /\ \A i \in 1 .. count - 1 : t[i] = slots[i - 1]
  <2> DEFINE s == Elements
  <2>1. s \in Seq(Elem) /\ Len(s) = count /\ \A i \in 1 .. count : s[i] = slots[i - 1]
    BY ElementsAre
  <2> HIDE DEF s
  <2>2. 1 \in 1 .. Len(s) + 1 /\ count - 1 \in 1 - 1 .. Len(s) /\ (count - 1) - 1 + 1 = count - 1
    BY <1>1, <2>1
  <2>3. /\ SubSeq(s, 1, count - 1) \in Seq(Elem) /\ Len(SubSeq(s, 1, count - 1)) = count - 1
        /\ \A i \in 1 .. count - 1 : SubSeq(s, 1, count - 1)[i] = s[1 + i - 1]
    BY <2>1, <2>2, SubSeqIs
  <2>4. \A i \in 1 .. count - 1 : s[1 + i - 1] = slots[i - 1]
    BY <1>1, <2>1
  <2>5. QED  BY <2>1, <2>3, <2>4 DEF s
<1> HIDE DEF t
<1>3. Elements' = t
  BY <1>1, <1>2, ElementsAreNext, SeqEqual
<1>4. QED  BY <1>3 DEF t

LEMMA ResizeFills ==
  ASSUME VecInv, VecInv', NEW n \in 0 .. Limit + 1, NEW v \in Items, Resize(n, v)
  PROVE  Elements' = [i \in 1 .. n |-> IF i <= Len(Elements) THEN Elements[i] ELSE v]
<1> DEFINE t == [i \in 1 .. n |-> IF i <= Len(Elements) THEN Elements[i] ELSE v]
<1>1. n \in 0 .. Limit /\ count' = n /\ count \in Nat /\ v \in Elem /\ n \in Nat
  BY LimitAssumption DEF Resize, VecInv, Elem
<1>2. \A i \in 1 .. n : /\ t[i] \in Elem
                        /\ t[i] = IF i <= count THEN slots[i - 1] ELSE v
  BY <1>1, ElementsAre, LimitAssumption DEF VecInv, Places
<1>3. t \in Seq(Elem) /\ Len(t) = n
  BY <1>1, <1>2, FunctionIsSeq
<1> HIDE DEF t
<1>4. \A i \in 1 .. n : slots'[i - 1] = IF i <= count THEN slots[i - 1] ELSE v
  <2> TAKE i \in 1 .. n
  <2>1. /\ i - 1 \in Places /\ i - 1 \notin n .. count - 1
        /\ i - 1 \in count .. n - 1 <=> ~(i <= count)
    BY <1>1, LimitAssumption DEF Places
  <2>2. QED  BY <2>1 DEF Resize
<1>5. Elements' = t
  BY <1>1, <1>2, <1>3, <1>4, ElementsAreNext, SeqEqual
<1>6. QED  BY <1>5 DEF t

LEMMA ClearEmpties ==
  ASSUME VecInv, VecInv', ClearVec
  PROVE  Elements' = <<>>
<1>1. count' = 0
  BY DEF ClearVec, Resize
<1>2. QED  BY <1>1, ElementsAreNext

\* CappedVec is a sequence of at most N elements, call by call, and what
\* leaves it is gone, for every N and every type of element.
THEOREM VectorIsSequence == VecInit /\ [][VecNext]_vecVars => VectorAgrees
<1>1. VecInv /\ VecInv' => NothingKept'
  BY DEF VecInv
<1> DEFINE A ==
      /\ NothingKept'
      /\ \A v \in Items : Push(v) => Elements' = Append(Elements, v)
      /\ Pop => Elements' = SubSeq(Elements, 1, Len(Elements) - 1)
      /\ \A n \in 0 .. Limit + 1, v \in Items :
           Resize(n, v) => Elements' = [i \in 1 .. n |-> IF i <= Len(Elements) THEN Elements[i] ELSE v]
      /\ ClearVec => Elements' = <<>>
<1>2. VecInv /\ VecInv' => A
  BY <1>1, PushAppends, PopDrops, ResizeFills, ClearEmpties
<1>3. VecInv /\ VecInv' /\ [VecNext]_vecVars => [A]_vecVars
  BY <1>2
<1>4. VectorAgrees <=> [][A]_vecVars
  BY DEF VectorAgrees
<1> HIDE DEF A
<1>5. VecInit /\ [][VecNext]_vecVars => [][A]_vecVars
  BY VecInitInv, VecNextInv, <1>3, PTL
<1>6. QED  BY <1>4, <1>5

-----------------------------------------------------------------------------
(* FixedLengthString.                                                      *)

FixedInv ==
  /\ fixed \in [1 .. 2 -> [data : Arrays, size : Nat]]
  /\ lasting \in [1 .. 2 -> Seq(Chars)]
  /\ \A k \in 1 .. 2 : ViewOf(fixed[k]) = lasting[k]

LEMMA TextsAreSeqs == Texts \subseteq Seq(Chars)
BY CapacityAssumption DEF Texts

LEMMA FixedInitInv == FixedInit => FixedInv
<1> SUFFICES ASSUME FixedInit  PROVE FixedInv
  OBVIOUS
<1> DEFINE a == CHOOSE x \in Arrays : TRUE
<1>1. a \in [1 .. Capacity -> Chars]
  <2>1. [i \in 1 .. Capacity |-> CHOOSE c \in Chars : TRUE] \in Arrays
    BY CharsAssumption DEF Arrays
  <2>2. QED  BY <2>1 DEF Arrays
<1> HIDE DEF a
<1>2. a \in Seq(Chars) /\ Len(a) = Capacity /\ Capacity \in Nat
  BY <1>1, CapacityAssumption, FunctionIsSeq
<1>3. SubSeq(a, 1, 0) = <<>>
  BY <1>2
<1>4. fixed = [k \in 1 .. 2 |-> [data |-> a, size |-> 0]] /\ lasting = [k \in 1 .. 2 |-> <<>>]
  BY DEF FixedInit, a
<1>5. QED  BY <1>1, <1>3, <1>4 DEF FixedInv, ViewOf, Arrays

LEMMA FixedNextInv == FixedInv /\ [FixedNext]_fixedVars => FixedInv'
<1> SUFFICES ASSUME FixedInv, [FixedNext]_fixedVars  PROVE FixedInv'
  OBVIOUS
<1>1. ASSUME NEW k \in 1 .. 2, NEW t \in Texts, GiveText(k, t)  PROVE FixedInv'
  <2>1. t \in Seq(Chars) /\ Len(t) \in Nat
    BY TextsAreSeqs
  <2>2. PICK a \in Arrays :
          /\ SubSeq(a, 1, Len(t)) = t
          /\ fixed' = [fixed EXCEPT ![k] = [data |-> a, size |-> Len(t)]]
    BY <1>1 DEF GiveText
  <2>3. lasting' = [lasting EXCEPT ![k] = t]
    BY <1>1 DEF GiveText
  <2>4. QED  BY <2>1, <2>2, <2>3 DEF FixedInv, ViewOf
<1>2. ASSUME NEW k \in 1 .. 2, NEW l \in 1 .. 2, CopyText(k, l)  PROVE FixedInv'
  BY <1>2 DEF CopyText, FixedInv, ViewOf
<1>3. CASE UNCHANGED fixedVars
  BY <1>3 DEF fixedVars, FixedInv, ViewOf
<1>4. QED  BY <1>1, <1>2, <1>3 DEF FixedNext

\* Two fixed strings are equal exactly when the texts last given to them
\* are, for every capacity: what lies behind a text never counts.
THEOREM OnlyTextsCount == FixedInit /\ [][FixedNext]_fixedVars => []TextsCompareAlone
<1>1. FixedInv => TextsCompareAlone
  BY DEF FixedInv, TextsCompareAlone, SameText
<1>2. QED  BY <1>1, FixedInitInv, FixedNextInv, PTL

-----------------------------------------------------------------------------
(* ByteBuf.                                                                *)

\* memcpy puts d at its place and leaves the rest.
LEMMA CopiedIs ==
  ASSUME NEW s \in Seq(Bytes), NEW at \in Nat, NEW d \in Seq(Bytes)
  PROVE  /\ Copied(s, at, d) \in Seq(Bytes) /\ Len(Copied(s, at, d)) = Len(s)
         /\ \A i \in 1 .. Len(s) :
              Copied(s, at, d)[i] = IF i - at \in 1 .. Len(d) THEN d[i - at] ELSE s[i]
<1> DEFINE n == Len(s)
           m == Len(d)
           f == [i \in 1 .. n |-> IF i - at \in 1 .. m THEN d[i - at] ELSE s[i]]
<1>1. /\ n \in Nat /\ m \in Nat /\ DOMAIN s = 1 .. n /\ DOMAIN d = 1 .. m
      /\ \A i \in 1 .. n : s[i] \in Bytes
      /\ \A i \in 1 .. m : d[i] \in Bytes
  OBVIOUS
<1>2. Copied(s, at, d) = f
  BY <1>1 DEF Copied
<1> HIDE DEF n, m
<1>3. f \in [1 .. n -> Bytes]
  BY <1>1
<1>4. f \in Seq(Bytes) /\ Len(f) = n
  BY <1>1, <1>3, FunctionIsSeq
<1>5. QED  BY <1>2, <1>4 DEF n, m

\* ensure_size keeps what there is, and is large enough.
LEMMA GrownIs ==
  ASSUME store \in Seq(Bytes), NEW n \in Nat
  PROVE  /\ Grown(n) \in Seq(Bytes)
         /\ Len(Grown(n)) = IF Len(store) < n THEN n ELSE Len(store)
         /\ \A i \in 1 .. Len(store) : Grown(n)[i] = store[i]
<1> DEFINE l == Len(store)
           m == IF l < n THEN n ELSE l
<1>1. l \in Nat /\ m \in Nat /\ l <= m /\ DOMAIN store = 1 .. l
      /\ \A i \in 1 .. l : store[i] \in Bytes
  OBVIOUS
<1>2. Grown(n) = [i \in 1 .. m |-> IF i \in 1 .. l THEN store[i] ELSE 0]
  BY <1>1 DEF Grown
<1> HIDE DEF l, m
<1>3. Grown(n) \in [1 .. m -> Bytes] /\ \A i \in 1 .. l : Grown(n)[i] = store[i]
  BY <1>1, <1>2, BytesAssumption
<1>4. Grown(n) \in Seq(Bytes) /\ Len(Grown(n)) = m
  BY <1>1, <1>3, FunctionIsSeq
<1>5. QED  BY <1>3, <1>4 DEF l, m

LEMMA SliceIs ==
  ASSUME NEW s \in Seq(Bytes), NEW a \in Nat, NEW b \in Nat, a <= b, b <= Len(s)
  PROVE  /\ SubSeq(s, a + 1, b) \in Seq(Bytes) /\ Len(SubSeq(s, a + 1, b)) = b - a
         /\ \A i \in 1 .. b - a : SubSeq(s, a + 1, b)[i] = s[a + i]
<1>1. /\ a + 1 \in 1 .. Len(s) + 1 /\ b \in (a + 1) - 1 .. Len(s)
      /\ b - (a + 1) + 1 = b - a
      /\ \A i \in 1 .. b - a : (a + 1) + i - 1 = a + i
  OBVIOUS
<1>2. QED  BY <1>1, SubSeqIs

LEMMA ViewIs ==
  ASSUME ViewInStore, ~moved
  PROVE  /\ View \in Seq(Bytes) /\ Len(View) = last - first
         /\ \A i \in 1 .. last - first : View[i] = store[first + i]
BY SliceIs, Zenon DEF ViewInStore, View

LEMMA ViewIsNext ==
  ASSUME ViewInStore', ~moved'
  PROVE  /\ View' \in Seq(Bytes) /\ Len(View') = last' - first'
         /\ \A i \in 1 .. last' - first' : View'[i] = store'[first' + i]
BY SliceIs, Zenon DEF ViewInStore, View

LEMMA InStore ==
  ASSUME store' \in Seq(Bytes), Len(store') <= MaxStore, moved' = FALSE,
         first' \in Nat, last' \in Nat, first' <= last', last' <= Len(store')
  PROVE  ViewInStore' /\ ~moved'
<1>1. moved' \in BOOLEAN /\ ~moved'
  BY Zenon
<1>2. last' <= MaxStore
  <2>1. Len(store') \in Nat /\ MaxStore \in Nat
    BY BytesAssumption
  <2>2. QED  BY <2>1
<1>3. QED  BY <1>1, <1>2 DEF ViewInStore

\* To name the new view, compare it byte by byte.
LEMMA ViewBecomes ==
  ASSUME ViewInStore', ~moved', NEW t \in Seq(Bytes), Len(t) = last' - first',
         \A i \in 1 .. Len(t) : t[i] = store'[first' + i]
  PROVE  View' = t
BY ViewIsNext, SeqEqual

LEMMA LoadFills ==
  ASSUME ViewInStore, NEW d \in Seq(Bytes), NEW o \in 0 .. MaxStore, Load(d, o)
  PROVE  ViewInStore' /\ View' = d
<1> DEFINE g == Grown(o + Len(d))
<1>1. /\ store \in Seq(Bytes) /\ Len(store) <= MaxStore
      /\ o \in Nat /\ Len(d) \in Nat /\ o + Len(d) \in Nat /\ o + Len(d) <= MaxStore
  BY BytesAssumption DEF ViewInStore, Load
<1>2. g \in Seq(Bytes) /\ Len(g) = IF Len(store) < o + Len(d) THEN o + Len(d) ELSE Len(store)
  BY <1>1, GrownIs
<1>3. store' = Copied(g, o, d) /\ first' = o /\ last' = o + Len(d) /\ moved' = FALSE
  BY DEF Load
<1> HIDE DEF g
<1>4. /\ store' \in Seq(Bytes) /\ Len(store') = Len(g)
      /\ \A i \in 1 .. Len(g) : store'[i] = IF i - o \in 1 .. Len(d) THEN d[i - o] ELSE g[i]
  <2>1. /\ Copied(g, o, d) \in Seq(Bytes) /\ Len(Copied(g, o, d)) = Len(g)
        /\ \A i \in 1 .. Len(g) :
             Copied(g, o, d)[i] = IF i - o \in 1 .. Len(d) THEN d[i - o] ELSE g[i]
    BY <1>1, <1>2, CopiedIs
  <2>2. QED  BY <1>3, <2>1
<1>5. Len(g) \in Nat /\ o + Len(d) <= Len(g) /\ Len(g) <= MaxStore
  BY <1>1, <1>2
<1>6. ViewInStore'
  <2>1. first' \in Nat /\ last' \in Nat /\ first' <= last' /\ last' <= Len(store')
    BY <1>1, <1>3, <1>4, <1>5
  <2>2. Len(store') <= MaxStore
    BY <1>4, <1>5
  <2>3. QED  BY <1>3, <1>4, <2>1, <2>2, InStore
<1>7. \A i \in 1 .. Len(d) : d[i] = store'[o + i]
  <2> TAKE i \in 1 .. Len(d)
  <2>1. o + i \in 1 .. Len(g) /\ (o + i) - o = i
    BY <1>1, <1>5
  <2>2. QED  BY <1>4, <2>1
<1>8. ~moved' /\ Len(d) = last' - first'
  BY <1>1, <1>3
<1>9. QED  BY <1>3, <1>6, <1>7, <1>8, ViewBecomes

LEMMA AllocMakes ==
  ASSUME ViewInStore, NEW n \in 0 .. MaxStore, Alloc(n)
  PROVE  ViewInStore' /\ View' \in [1 .. n -> Bytes]
<1>1. store \in Seq(Bytes) /\ Len(store) <= MaxStore /\ n \in Nat /\ n <= MaxStore
  BY BytesAssumption DEF ViewInStore
<1>2. /\ store' = Grown(n) /\ first' = 0 /\ last' = n /\ moved' = FALSE
  BY DEF Alloc
<1>3. store' \in Seq(Bytes) /\ Len(store') = IF Len(store) < n THEN n ELSE Len(store)
  BY <1>1, <1>2, GrownIs
<1>4. Len(store') \in Nat /\ n <= Len(store') /\ Len(store') <= MaxStore
  BY <1>1, <1>3
<1>5. ViewInStore' /\ ~moved'
  <2>1. first' \in Nat /\ last' \in Nat /\ first' <= last' /\ last' <= Len(store')
    BY <1>1, <1>2, <1>4
  <2>2. QED  BY <1>2, <1>3, <1>4, <2>1, InStore
<1>6. View' \in Seq(Bytes) /\ Len(View') = n
  BY <1>1, <1>2, <1>5, ViewIsNext
<1>7. QED  BY <1>5, <1>6

LEMMA PrependPrefixes ==
  ASSUME ViewInStore, NEW d \in Seq(Bytes), Prepend(d)
  PROVE  ViewInStore' /\ View' = d \o View
<1>1. /\ store \in Seq(Bytes) /\ Len(store) <= MaxStore /\ MaxStore \in Nat /\ ~moved
      /\ first \in Nat /\ last \in Nat /\ first <= last /\ last <= Len(store)
      /\ Len(d) \in Nat /\ Len(d) <= first
  BY BytesAssumption DEF ViewInStore, Prepend
<1>2. /\ store' = Copied(store, first - Len(d), d)
      /\ first' = first - Len(d) /\ last' = last /\ moved' = FALSE
  BY <1>1 DEF Prepend
<1>3. first - Len(d) \in Nat
  BY <1>1
<1>4. /\ store' \in Seq(Bytes) /\ Len(store') = Len(store)
      /\ \A i \in 1 .. Len(store) :
           store'[i] = IF i - (first - Len(d)) \in 1 .. Len(d) THEN d[i - (first - Len(d))] ELSE store[i]
  <2>1. /\ Copied(store, first - Len(d), d) \in Seq(Bytes) /\ Len(Copied(store, first - Len(d), d)) = Len(store)
        /\ \A i \in 1 .. Len(store) :
             Copied(store, first - Len(d), d)[i] = IF i - (first - Len(d)) \in 1 .. Len(d) THEN d[i - (first - Len(d))] ELSE store[i]
    BY <1>1, <1>3, CopiedIs
  <2>2. QED  BY <1>2, <2>1
<1>5. ViewInStore' /\ ~moved'
  <2>1. first' \in Nat /\ first' <= last' /\ last' \in Nat /\ last' <= Len(store')
    BY <1>1, <1>2, <1>3, <1>4
  <2>2. QED  BY <1>1, <1>2, <1>4, <2>1, InStore
<1> DEFINE v == View
           t == d \o v
<1>6. v \in Seq(Bytes) /\ Len(v) = last - first /\ \A i \in 1 .. last - first : v[i] = store[first + i]
  BY <1>1, ViewIs
<1> HIDE DEF v
<1>7. /\ t \in Seq(Bytes) /\ Len(t) = Len(d) + Len(v)
      /\ \A i \in 1 .. Len(d) : t[i] = d[i]
      /\ \A i \in 1 .. Len(d) + Len(v) : i > Len(d) => t[i] = v[i - Len(d)]
  BY <1>6, ConcatIs
<1> HIDE DEF t
<1>8. Len(t) = last' - first'
  BY <1>1, <1>2, <1>6, <1>7
<1>9. \A i \in 1 .. Len(t) : t[i] = store'[first' + i]
  <2> TAKE i \in 1 .. Len(t)
  <2>1. /\ first' + i \in 1 .. Len(store) /\ (first' + i) - (first - Len(d)) = i
        /\ i \in Int
    BY <1>1, <1>2, <1>8
  <2>2. store'[first' + i] = IF i \in 1 .. Len(d) THEN d[i] ELSE store[first' + i]
    BY <1>4, <2>1
  <2>3. CASE i \in 1 .. Len(d)
    BY <1>7, <2>2, <2>3
  <2>4. CASE i \notin 1 .. Len(d)
    <3>1. /\ i > Len(d) /\ i \in 1 .. Len(d) + Len(v)
          /\ i - Len(d) \in 1 .. last - first /\ first' + i = first + (i - Len(d))
      BY <1>1, <1>2, <1>6, <1>7, <2>1, <2>4
    <3>2. QED  BY <1>6, <1>7, <2>2, <2>4, <3>1
  <2>5. QED  BY <2>3, <2>4
<1>10. View' = t
  BY <1>2, <1>5, <1>7, <1>8, <1>9, ViewBecomes
<1>11. QED  BY <1>5, <1>10 DEF t, v

LEMMA AppendSuffixes ==
  ASSUME ViewInStore, NEW d \in Seq(Bytes), AppendTo(d)
  PROVE  ViewInStore' /\ View' = View \o d
<1> DEFINE n == last + Len(d)
           g == Grown(n)
<1>1. /\ store \in Seq(Bytes) /\ Len(store) <= MaxStore /\ MaxStore \in Nat /\ ~moved
      /\ first \in Nat /\ last \in Nat /\ first <= last /\ last <= Len(store)
      /\ Len(d) \in Nat /\ n \in Nat /\ n <= MaxStore
  BY BytesAssumption DEF ViewInStore, AppendTo
<1>2. /\ store' = Copied(g, last, d)
      /\ first' = first /\ last' = n /\ moved' = FALSE
  BY <1>1 DEF AppendTo
<1> HIDE DEF n
<1>3. /\ g \in Seq(Bytes) /\ Len(g) \in Nat /\ Len(g) = IF Len(store) < n THEN n ELSE Len(store)
      /\ \A i \in 1 .. Len(store) : g[i] = store[i]
  <2>1. /\ g \in Seq(Bytes) /\ Len(g) = IF Len(store) < n THEN n ELSE Len(store)
        /\ \A i \in 1 .. Len(store) : g[i] = store[i]
    BY <1>1, GrownIs
  <2>2. Len(g) \in Nat
    BY <1>1, <2>1
  <2>3. QED  BY <2>1, <2>2
<1> HIDE DEF g
<1>4. /\ store' \in Seq(Bytes) /\ Len(store') = Len(g)
      /\ \A i \in 1 .. Len(g) : store'[i] = IF i - last \in 1 .. Len(d) THEN d[i - last] ELSE g[i]
  <2>1. /\ Copied(g, last, d) \in Seq(Bytes) /\ Len(Copied(g, last, d)) = Len(g)
        /\ \A i \in 1 .. Len(g) :
             Copied(g, last, d)[i] = IF i - last \in 1 .. Len(d) THEN d[i - last] ELSE g[i]
    BY <1>1, <1>3, CopiedIs
  <2>2. QED  BY <1>2, <2>1
<1>5. ViewInStore' /\ ~moved'
  <2>1. first' \in Nat /\ last' \in Nat /\ first' <= last' /\ last' <= Len(store')
        /\ Len(store') <= MaxStore
    BY <1>1, <1>2, <1>3, <1>4 DEF n
  <2>2. QED  BY <1>2, <1>4, <2>1, InStore
<1> DEFINE v == View
           t == v \o d
<1>6. v \in Seq(Bytes) /\ Len(v) = last - first /\ \A i \in 1 .. last - first : v[i] = store[first + i]
  BY <1>1, ViewIs
<1> HIDE DEF v
<1>7. /\ t \in Seq(Bytes) /\ Len(t) = Len(v) + Len(d)
      /\ \A i \in 1 .. Len(v) : t[i] = v[i]
      /\ \A i \in 1 .. Len(v) + Len(d) : i > Len(v) => t[i] = d[i - Len(v)]
  BY <1>6, ConcatIs
<1> HIDE DEF t
<1>8. Len(t) = last' - first'
  BY <1>1, <1>2, <1>6, <1>7 DEF n
<1>9. \A i \in 1 .. Len(t) : t[i] = store'[first' + i]
  <2> TAKE i \in 1 .. Len(t)
  <2>1. i \in Int /\ first + i \in 1 .. Len(g)
    BY <1>1, <1>2, <1>3, <1>8 DEF n
  <2>2. store'[first' + i] =
          IF (first + i) - last \in 1 .. Len(d) THEN d[(first + i) - last] ELSE g[first + i]
    BY <1>2, <1>4, <2>1
  <2>3. CASE i \in 1 .. Len(v)
    <3>1. /\ i \in 1 .. last - first /\ (first + i) - last \notin 1 .. Len(d)
          /\ first + i \in 1 .. Len(store)
      BY <1>1, <1>6, <2>3
    <3>2. QED  BY <1>3, <1>6, <1>7, <2>2, <2>3, <3>1
  <2>4. CASE i \notin 1 .. Len(v)
    <3>1. /\ i > Len(v) /\ i \in 1 .. Len(v) + Len(d)
          /\ (first + i) - last \in 1 .. Len(d) /\ (first + i) - last = i - Len(v)
      BY <1>1, <1>6, <1>7, <2>1, <2>4
    <3>2. QED  BY <1>7, <2>2, <3>1
  <2>5. QED  BY <2>3, <2>4
<1>10. View' = t
  BY <1>5, <1>7, <1>8, <1>9, ViewBecomes
<1>11. QED  BY <1>5, <1>10 DEF t, v

LEMMA DiscardDrops ==
  ASSUME ViewInStore, NEW n \in 0 .. MaxStore, DiscardPrefix(n)
  PROVE  /\ ViewInStore' /\ n <= Len(View) /\ first' = first + n
         /\ View' = SubSeq(View, n + 1, Len(View))
<1>1. /\ store \in Seq(Bytes) /\ Len(store) <= MaxStore /\ MaxStore \in Nat /\ ~moved
      /\ first \in Nat /\ last \in Nat /\ first <= last /\ last <= Len(store)
      /\ n \in Nat /\ n <= last - first
  BY BytesAssumption DEF ViewInStore, DiscardPrefix
<1>2. store' = store /\ first' = first + n /\ last' = last /\ moved' = moved
  BY DEF DiscardPrefix
<1>3. ViewInStore' /\ ~moved'
  <2>1. store' \in Seq(Bytes) /\ Len(store') <= MaxStore
        /\ first' \in Nat /\ last' \in Nat /\ first' <= last' /\ last' <= Len(store')
    BY <1>1, <1>2
  <2>2. moved' = FALSE
    BY <1>1, <1>2, Zenon DEF ViewInStore
  <2>3. QED  BY <2>1, <2>2, InStore
<1> DEFINE v == View
           t == SubSeq(v, n + 1, Len(v))
<1>4. v \in Seq(Bytes) /\ Len(v) = last - first /\ \A i \in 1 .. last - first : v[i] = store[first + i]
  BY <1>1, ViewIs
<1> HIDE DEF v
<1>5. /\ t \in Seq(Bytes) /\ Len(t) = Len(v) - n
      /\ \A i \in 1 .. Len(v) - n : t[i] = v[n + i]
  <2>1. Len(v) \in Nat /\ n <= Len(v)
    BY <1>1, <1>4
  <2>2. QED  BY <1>1, <1>4, <2>1, SliceIs
<1> HIDE DEF t
<1>6. Len(t) = last' - first'
  BY <1>1, <1>2, <1>4, <1>5
<1>7. \A i \in 1 .. Len(t) : t[i] = store'[first' + i]
  <2> TAKE i \in 1 .. Len(t)
  <2>1. n + i \in 1 .. last - first /\ first' + i = first + (n + i) /\ i \in 1 .. Len(v) - n
    BY <1>1, <1>2, <1>4, <1>5
  <2>2. QED  BY <1>2, <1>4, <1>5, <2>1
<1>8. View' = t
  BY <1>3, <1>5, <1>6, <1>7, ViewBecomes
<1>9. n <= Len(v)
  BY <1>1, <1>4
<1>10. QED  BY <1>2, <1>3, <1>8, <1>9 DEF t, v

LEMMA ShrinkCompacts ==
  ASSUME ViewInStore, Shrink
  PROVE  ViewInStore' /\ View' = View
<1> DEFINE v == View
<1>1. /\ store \in Seq(Bytes) /\ Len(store) <= MaxStore /\ MaxStore \in Nat /\ ~moved
      /\ first \in Nat /\ last \in Nat /\ first <= last /\ last <= Len(store)
  BY BytesAssumption DEF ViewInStore, Shrink
<1>2. store' = Copied(store, 0, v) /\ first' = 0 /\ last' = last - first /\ moved' = moved
  BY DEF Shrink
<1>3. v \in Seq(Bytes) /\ Len(v) = last - first
  BY <1>1, ViewIs
<1> HIDE DEF v
<1>4. /\ store' \in Seq(Bytes) /\ Len(store') = Len(store)
      /\ \A i \in 1 .. Len(store) : store'[i] = IF i - 0 \in 1 .. Len(v) THEN v[i - 0] ELSE store[i]
  <2>1. /\ Copied(store, 0, v) \in Seq(Bytes) /\ Len(Copied(store, 0, v)) = Len(store)
        /\ \A i \in 1 .. Len(store) :
             Copied(store, 0, v)[i] = IF i - 0 \in 1 .. Len(v) THEN v[i - 0] ELSE store[i]
    BY <1>1, <1>3, CopiedIs
  <2>2. QED  BY <1>2, <2>1
<1>5. ViewInStore' /\ ~moved'
  <2>1. Len(store') <= MaxStore /\ first' \in Nat /\ last' \in Nat
        /\ first' <= last' /\ last' <= Len(store')
    BY <1>1, <1>2, <1>4
  <2>2. moved' = FALSE
    BY <1>1, <1>2, Zenon DEF ViewInStore
  <2>3. QED  BY <1>4, <2>1, <2>2, InStore
<1>6. \A i \in 1 .. Len(v) : v[i] = store'[first' + i]
  <2> TAKE i \in 1 .. Len(v)
  <2>1. i \in 1 .. Len(store) /\ i - 0 = i /\ first' + i = i
    BY <1>1, <1>2, <1>3
  <2>2. QED  BY <1>4, <2>1
<1>7. Len(v) = last' - first'
  BY <1>1, <1>2, <1>3
<1>8. View' = v
  BY <1>3, <1>5, <1>6, <1>7, ViewBecomes
<1>9. QED  BY <1>5, <1>8 DEF v

LEMMA OverwritePokes ==
  ASSUME ViewInStore, NEW i \in 0 .. MaxStore - 1, NEW b \in Bytes, Overwrite(i, b)
  PROVE  ViewInStore' /\ i + 1 \in DOMAIN View /\ View' = [View EXCEPT ![i + 1] = b]
<1>1. /\ store \in Seq(Bytes) /\ Len(store) <= MaxStore /\ MaxStore \in Nat /\ ~moved
      /\ first \in Nat /\ last \in Nat /\ first <= last /\ last <= Len(store)
      /\ i \in Nat /\ i < last - first /\ first + i + 1 \in 1 .. Len(store)
  BY BytesAssumption DEF ViewInStore, Overwrite
<1>2. /\ store' = [store EXCEPT ![first + i + 1] = b]
      /\ first' = first /\ last' = last /\ moved' = moved
  BY DEF Overwrite
<1>3. /\ store' \in Seq(Bytes) /\ Len(store') = Len(store)
      /\ \A j \in 1 .. Len(store) : store'[j] = IF j = first + i + 1 THEN b ELSE store[j]
  BY <1>1, <1>2, ExceptIs
<1>4. ViewInStore' /\ ~moved'
  <2>1. Len(store') <= MaxStore /\ first' \in Nat /\ last' \in Nat
        /\ first' <= last' /\ last' <= Len(store')
    BY <1>1, <1>2, <1>3
  <2>2. moved' = FALSE
    BY <1>1, <1>2, Zenon DEF ViewInStore
  <2>3. QED  BY <1>3, <2>1, <2>2, InStore
<1> DEFINE v == View
           t == [v EXCEPT ![i + 1] = b]
<1>5. v \in Seq(Bytes) /\ Len(v) = last - first /\ \A j \in 1 .. last - first : v[j] = store[first + j]
  BY <1>1, ViewIs
<1> HIDE DEF v
<1>6. i + 1 \in 1 .. Len(v) /\ DOMAIN v = 1 .. Len(v)
  BY <1>1, <1>5
<1>7. /\ t \in Seq(Bytes) /\ Len(t) = Len(v)
      /\ \A j \in 1 .. Len(v) : t[j] = IF j = i + 1 THEN b ELSE v[j]
  BY <1>5, <1>6, ExceptIs
<1> HIDE DEF t
<1>8. \A j \in 1 .. Len(t) : t[j] = store'[first' + j]
  <2> TAKE j \in 1 .. Len(t)
  <2>0. j \in 1 .. last - first /\ j \in 1 .. Len(v)
    BY <1>5, <1>7
  <2>1. /\ first + j \in 1 .. Len(store)
        /\ first + j = first + i + 1 <=> j = i + 1
    BY <1>1, <2>0
  <2>2. QED  BY <1>2, <1>3, <1>5, <1>7, <2>0, <2>1
<1>9. Len(t) = last' - first'
  BY <1>1, <1>2, <1>5, <1>7
<1>10. View' = t
  BY <1>4, <1>7, <1>8, <1>9, ViewBecomes
<1>11. QED  BY <1>4, <1>6, <1>10 DEF t, v

LEMMA MoveKeepsOffsets ==
  ASSUME ViewInStore, MoveOut
  PROVE  ViewInStore'
<1>1. store' = <<>> /\ moved' = TRUE /\ first' = first /\ last' = last
  BY DEF MoveOut
<1>2. store' \in Seq(Bytes) /\ Len(store') <= MaxStore
  BY <1>1, BytesAssumption
<1>3. QED  BY <1>1, <1>2, Zenon DEF ViewInStore

LEMMA BufInitInv == BufInit => ViewInStore
<1> SUFFICES ASSUME BufInit  PROVE ViewInStore
  OBVIOUS
<1>1. store \in Seq(Bytes) /\ Len(store) = 0 /\ Len(store) <= MaxStore /\ 0 <= MaxStore
  BY BytesAssumption DEF BufInit
<1>2. first = 0 /\ last = 0 /\ moved = FALSE /\ 0 \in Nat /\ 0 <= 0
  BY DEF BufInit
<1>3. QED  BY <1>1, <1>2, Zenon DEF ViewInStore

LEMMA BufNextInv == ViewInStore /\ [BufNext]_bufVars => ViewInStore'
<1> SUFFICES ASSUME ViewInStore, [BufNext]_bufVars  PROVE ViewInStore'
  OBVIOUS
<1>1. Chunks \subseteq Seq(Bytes) /\ <<>> \in Seq(Bytes)
  BY BytesAssumption
<1>2. ASSUME NEW d \in Chunks \union {<<>>}, NEW o \in 0 .. MaxStore, Load(d, o)
      PROVE  ViewInStore'
  BY <1>1, <1>2, LoadFills
<1>3. ASSUME NEW n \in 0 .. MaxStore, Alloc(n) \/ DiscardPrefix(n)
      PROVE  ViewInStore'
  BY <1>3, AllocMakes, DiscardDrops
<1>4. ASSUME NEW d \in Chunks, Prepend(d) \/ AppendTo(d)
      PROVE  ViewInStore'
  BY <1>1, <1>4, PrependPrefixes, AppendSuffixes
<1>5. CASE Shrink
  BY <1>5, ShrinkCompacts
<1>6. ASSUME NEW i \in 0 .. MaxStore - 1, NEW b \in Bytes, Overwrite(i, b)
      PROVE  ViewInStore'
  BY <1>6, OverwritePokes
<1>7. CASE MoveOut
  BY <1>7, MoveKeepsOffsets
<1>8. CASE UNCHANGED bufVars
  BY <1>8, Zenon DEF bufVars, ViewInStore
<1>9. QED  BY <1>2, <1>3, <1>4, <1>5, <1>6, <1>7, <1>8 DEF BufNext

Text == IF moved THEN <<>> ELSE View
Room == IF moved THEN 0 ELSE first

LEMMA TextNow ==
  ASSUME ~moved
  PROVE  Text = View /\ Room = first
BY DEF Text, Room

LEMMA TextThen ==
  ASSUME ~moved'
  PROVE  Text' = View' /\ Room' = first'
BY DEF Text, Room

BytesCalls ==
  /\ ViewInStore'
  /\ \A d \in Chunks :
       /\ \A o \in 0 .. MaxStore : Load(d, o) => Str!Fill(d, o)
       /\ Prepend(d) => Str!Prefix(d)
       /\ AppendTo(d) => Str!Suffix(d)
  /\ \A n \in 0 .. MaxStore :
       /\ Alloc(n) => Str!Allocated(n)
       /\ DiscardPrefix(n) => Str!Drop(n)
  /\ Shrink => Str!Compact
  /\ \A i \in 0 .. MaxStore - 1, b \in Bytes : Overwrite(i, b) => Str!Poke(i + 1, b)

LEMMA CallsAgree == ViewInStore /\ ViewInStore' => BytesCalls
<1> SUFFICES ASSUME ViewInStore, ViewInStore'  PROVE BytesCalls
  OBVIOUS
<1>1. ASSUME NEW d \in Chunks, NEW o \in 0 .. MaxStore, Load(d, o)
      PROVE  Str!Fill(d, o)
  <2>1. View' = d /\ ~moved' /\ first' = o
    BY <1>1, LoadFills, BytesAssumption DEF Load
  <2>2. QED  BY <2>1, TextThen DEF Str!Fill, Text, Room
<1>2. ASSUME NEW d \in Chunks, Prepend(d)
      PROVE  Str!Prefix(d)
  <2>1. View' = d \o View /\ ~moved /\ moved' = moved /\ Len(d) <= first /\ first' = first - Len(d)
    <3>1. View' = d \o View
      BY <1>2, PrependPrefixes, BytesAssumption
    <3>2. d \in Seq(Bytes) /\ first \in Nat
      BY BytesAssumption DEF ViewInStore
    <3>3. ~moved /\ moved' = moved /\ first >= Len(d) /\ first' = first - Len(d)
      BY <1>2 DEF Prepend
    <3>4. Len(d) <= first
      BY <3>2, <3>3
    <3>5. QED  BY <3>1, <3>3, <3>4
  <2>2. QED  BY <2>1, TextNow, TextThen, Zenon DEF Str!Prefix, Text, Room
<1>3. ASSUME NEW d \in Chunks, AppendTo(d)
      PROVE  Str!Suffix(d)
  <2>1. View' = View \o d /\ ~moved /\ moved' = moved /\ first' = first
    BY <1>3, AppendSuffixes, BytesAssumption DEF AppendTo
  <2>2. QED  BY <2>1, TextNow, TextThen, Zenon DEF Str!Suffix, Text, Room
<1>4. ASSUME NEW n \in 0 .. MaxStore, Alloc(n)
      PROVE  Str!Allocated(n)
  <2>1. View' \in [1 .. n -> Bytes] /\ ~moved' /\ first' = 0
    BY <1>4, AllocMakes DEF Alloc
  <2>2. QED  BY <2>1, TextThen, Zenon DEF Str!Allocated, Text, Room
<1>5. ASSUME NEW n \in 0 .. MaxStore, DiscardPrefix(n)
      PROVE  Str!Drop(n)
  <2>1. /\ n <= Len(View) /\ first' = first + n
        /\ View' = SubSeq(View, n + 1, Len(View))
    BY <1>5, DiscardDrops
  <2>2. ~moved /\ moved' = moved
    BY <1>5 DEF DiscardPrefix
  <2>3. QED  BY <2>1, <2>2, TextNow, TextThen, Zenon DEF Str!Drop, Text, Room
<1>6. ASSUME Shrink
      PROVE  Str!Compact
  <2>1. View' = View /\ ~moved /\ moved' = moved /\ first' = 0
    BY <1>6, ShrinkCompacts DEF Shrink
  <2>2. QED  BY <2>1, TextNow, TextThen, Zenon DEF Str!Compact, Text, Room
<1>7. ASSUME NEW i \in 0 .. MaxStore - 1, NEW b \in Bytes, Overwrite(i, b)
      PROVE  Str!Poke(i + 1, b)
  <2>1. i + 1 \in DOMAIN View /\ View' = [View EXCEPT ![i + 1] = b]
    BY <1>7, OverwritePokes
  <2>2. ~moved /\ moved' = moved /\ first' = first
    BY <1>7 DEF Overwrite
  <2>3. QED  BY <2>1, <2>2, TextNow, TextThen, Zenon DEF Str!Poke, Text, Room
<1>8. QED  BY <1>1, <1>2, <1>3, <1>4, <1>5, <1>6, <1>7 DEF BytesCalls

\* ByteBuf is a string of bytes with room before it, call by call, and its
\* offsets stay in the vector, for every byte, chunk and size.
THEOREM BufferIsString == BufSpec => BytesAgree
<1>1. ViewInStore /\ ViewInStore' /\ [BufNext]_bufVars => [BytesCalls]_bufVars
  BY CallsAgree
<1>2. BytesAgree <=> [][BytesCalls]_bufVars
  BY DEF BytesAgree, BytesCalls
<1>3. BufSpec => [][BytesCalls]_bufVars
  BY BufInitInv, BufNextInv, <1>1, PTL DEF BufSpec
<1>4. QED  BY <1>2, <1>3

-----------------------------------------------------------------------------
(* IndexRange.                                                             *)

RangeInv ==
  /\ range \in [b : IndexValues, e : IndexValues]
  /\ pos \in range.b .. range.e
  /\ walked = range.b .. pos - 1
  /\ sized # Unsized => sized \in IndexValues /\ range.e = range.b + sized

LEMMA WeakenedSmall ==
  ASSUME NEW x \in IndexValues
  PROVE  Weakened(x) = x
BY IndexAssumption DEF IndexValues, Weakened

LEMMA RangeInitInv == RangeInit => RangeInv
BY IndexAssumption DEF RangeInit, RangeInv, IndexValues, FromTo, Unsized

LEMMA EnterInv ==
  ASSUME NEW b \in IndexValues, NEW e \in IndexValues, NEW s,
         s # Unsized => s \in IndexValues /\ e = b + s,
         Enter(FromTo(b, e), s)
  PROVE  RangeInv'
<1>1. /\ b <= e /\ sized' = s /\ range' = [b |-> b, e |-> e]
      /\ pos' = b /\ walked' = {}
  BY DEF Enter, FromTo
<1>2. b \in b .. e /\ b .. b - 1 = {}
  BY <1>1, IndexAssumption DEF IndexValues
<1>3. range'.b = b /\ range'.e = e /\ range' \in [b : IndexValues, e : IndexValues]
  BY <1>1
<1>4. QED  BY <1>1, <1>2, <1>3 DEF RangeInv

LEMMA RangeNextInv == RangeInv /\ [RangeNext]_rangeVars => RangeInv'
<1> SUFFICES ASSUME RangeInv, [RangeNext]_rangeVars  PROVE RangeInv'
  OBVIOUS
<1> DEFINE b == range.b
           e == range.e
<1>1. /\ b \in 0 .. IndexMod - 1 /\ e \in 0 .. IndexMod - 1 /\ pos \in b .. e
      /\ walked = b .. pos - 1 /\ IndexMod \in Nat
  BY IndexAssumption DEF RangeInv, IndexValues
<1>2. ASSUME UNCHANGED <<range, sized>>, pos' \in b .. e, walked' = b .. pos' - 1
      PROVE  RangeInv'
  BY <1>2 DEF RangeInv
<1> HIDE DEF b, e
<1>3. ASSUME NEW x \in IndexValues, NEW n \in IndexValues, Enter(FromTo(x, n), Unsized)
      PROVE  RangeInv'
  BY <1>3, EnterInv
<1>4. ASSUME NEW x \in IndexValues, NEW n \in IndexValues, x + n < IndexMod, Enter(Sized(x, n), n)
      PROVE  RangeInv'
  <2>1. x + n \in IndexValues
    BY <1>1, <1>4 DEF IndexValues
  <2>2. Enter(FromTo(x, x + n), n)
    BY <1>4, <2>1, WeakenedSmall DEF Sized
  <2>3. QED  BY <2>1, <2>2, EnterInv
<1>5. CASE StepRange
  <2>1. pos # e /\ pos' = Weakened(pos + 1) /\ walked' = walked \union {pos} /\ UNCHANGED <<range, sized>>
    BY <1>5 DEF StepRange, e
  <2>2. pos + 1 \in b .. e /\ pos + 1 \in IndexValues
    BY <1>1, <2>1 DEF IndexValues
  <2>3. pos' = pos + 1
    BY <2>1, <2>2, WeakenedSmall
  <2>4. walked' = b .. pos' - 1
    BY <1>1, <2>1, <2>3
  <2>5. QED  BY <1>2, <2>1, <2>2, <2>3, <2>4
<1>6. CASE StepBack
  <2>1. pos # b /\ pos' = Weakened(pos - 1) /\ walked' = walked \ {pos'} /\ UNCHANGED <<range, sized>>
    BY <1>6 DEF StepBack, b
  <2>2. pos - 1 \in b .. e /\ pos - 1 \in IndexValues
    BY <1>1, <2>1 DEF IndexValues
  <2>3. pos' = pos - 1
    BY <2>1, <2>2, WeakenedSmall
  <2>4. walked' = b .. pos' - 1
    BY <1>1, <2>1, <2>3
  <2>5. QED  BY <1>2, <2>1, <2>2, <2>3, <2>4
<1>7. ASSUME NEW d \in 1 - IndexMod .. IndexMod - 1, Leap(d)
      PROVE  RangeInv'
  <2>1. /\ pos + d \in b .. e /\ pos' = Weakened(pos + d) /\ walked' = b .. pos + d - 1
        /\ UNCHANGED <<range, sized>>
    BY <1>7 DEF Leap, b, e
  <2>2. pos + d \in IndexValues
    BY <1>1, <2>1 DEF IndexValues
  <2>3. pos' = pos + d
    BY <2>1, <2>2, WeakenedSmall
  <2>4. pos' \in b .. e /\ walked' = b .. pos' - 1
    BY <1>1, <2>1, <2>3
  <2>5. QED  BY <1>2, <2>1, <2>4
<1>8. CASE UNCHANGED rangeVars
  BY <1>8 DEF rangeVars, RangeInv
<1>9. QED  BY <1>3, <1>4, <1>5, <1>6, <1>7, <1>8 DEF RangeNext

LEMMA RangeTaken == RangeInv => LoopTakesRange
<1> SUFFICES ASSUME RangeInv  PROVE LoopTakesRange
  OBVIOUS
<1> DEFINE b == range.b
           e == range.e
<1>1. /\ b \in 0 .. IndexMod - 1 /\ e \in 0 .. IndexMod - 1 /\ pos \in b .. e
      /\ walked = b .. pos - 1 /\ IndexMod \in Nat
      /\ sized # Unsized => sized \in IndexValues /\ e = b + sized
  BY IndexAssumption DEF RangeInv, IndexValues
<1> HIDE DEF b, e
<1>2. RangeSize(range) = e - b
  <2>1. e - b \in IndexValues
    BY <1>1 DEF IndexValues
  <2>2. QED  BY <2>1, WeakenedSmall DEF RangeSize, b, e
<1>3. sized # Unsized => RangeSize(range) = sized
  BY <1>1, <1>2 DEF IndexValues
<1>4. \A i \in walked : InRange(range, i) /\ i < pos
  BY <1>1 DEF InRange, b, e
<1>5. pos = range.e => walked = {i \in IndexValues : InRange(range, i)}
  <2>1. b .. e - 1 = {i \in 0 .. IndexMod - 1 : b <= i /\ i < e}
    BY <1>1
  <2>2. QED  BY <1>1, <2>1 DEF InRange, IndexValues, b, e
<1>6. (e - pos) + (pos - b) = e - b
  BY <1>1
<1>7. Apart(range.e, pos) + Apart(pos, range.b) = RangeSize(range)
  BY <1>2, <1>6 DEF Apart, b, e
<1>8. QED  BY <1>3, <1>4, <1>5, <1>7 DEF LoopTakesRange

\* A loop over an IndexRange takes exactly its indices, and as many as were
\* asked for, for every width of the index type and up to its largest value.
THEOREM LoopsTakeRanges == RangeInit /\ [][RangeNext]_rangeVars => []LoopTakesRange
BY RangeInitInv, RangeNextInv, RangeTaken, PTL

-----------------------------------------------------------------------------
(* ScratchDir.                                                             *)

ScratchTypeOK ==
  /\ dirs \subseteq Names /\ orphans \subseteq dirs /\ reported \subseteq dirs
  /\ path \in [Makers -> Names \union {Nowhere}]
  /\ trying \in [Makers -> 0 .. Attempts]

\* An object that is still looking for a name has none.
Searching == \A m \in Makers : ~Idle(m) => path[m] = Nowhere

ScratchInv == ScratchTypeOK /\ Searching /\ RemovesItsOwn /\ NothingLeftBehind

LEMMA ScratchInitInv == ScratchInit => ScratchInv
BY AttemptsAssumption
DEF ScratchInit, ScratchInv, ScratchTypeOK, Searching, RemovesItsOwn, NothingLeftBehind

LEMMA TryNameInv ==
  ASSUME ScratchInv, NEW m \in Makers, NEW d \in Names, TryName(m, d)
  PROVE  ScratchInv'
<1> USE DEF ScratchTypeOK, Searching, RemovesItsOwn, NothingLeftBehind, Idle
<1>1. path[m] = Nowhere /\ trying[m] # 0 /\ trying[m] \in 1 .. Attempts /\ d # Nowhere
  BY AttemptsAssumption DEF TryName, ScratchInv
<1>2. CASE d \in dirs
  <2>1. /\ dirs' = dirs /\ path' = path /\ orphans' = orphans /\ reported' = reported
        /\ trying' = [trying EXCEPT ![m] = @ - 1]
    BY <1>2 DEF TryName
  <2>2. trying[m] - 1 \in 0 .. Attempts
    BY <1>1, AttemptsAssumption
  <2>3. ScratchTypeOK' /\ Searching'
    BY <1>1, <2>1, <2>2 DEF ScratchInv
  <2>4. RemovesItsOwn' /\ NothingLeftBehind'
    BY <2>1 DEF ScratchInv
  <2>5. QED  BY <2>3, <2>4 DEF ScratchInv
<1>3. CASE d \notin dirs
  <2>1. /\ dirs' = dirs \union {d} /\ orphans' = orphans /\ reported' = reported
        /\ trying' = [trying EXCEPT ![m] = 0]
        /\ path' = [path EXCEPT ![m] = d]
    BY <1>3 DEF TryName
  <2>2. ScratchTypeOK'
    BY <2>1, AttemptsAssumption DEF ScratchInv
  <2>3. Searching'
    BY <2>1 DEF ScratchInv
  <2>4. \A n \in Makers : path[n] # d
    BY <1>1, <1>3 DEF ScratchInv
  <2>5. d \notin orphans \union reported
    BY <1>3 DEF ScratchInv
  <2>6. \A n \in Makers : path'[n] = IF n = m THEN d ELSE path[n]
    BY <2>1 DEF ScratchInv
  <2>7. RemovesItsOwn'
    BY <2>1, <2>4, <2>5, <2>6 DEF ScratchInv
  <2>8. NothingLeftBehind'
    BY <1>1, <2>1, <2>6, AttemptsAssumption DEF ScratchInv
  <2>9. QED  BY <2>2, <2>3, <2>7, <2>8 DEF ScratchInv
<1>4. QED  BY <1>2, <1>3

LEMMA MoveScratchInv ==
  ASSUME ScratchInv, ~MoveOverHeld, NEW m \in Makers, NEW n \in Makers, MoveScratch(m, n)
  PROVE  ScratchInv'
<1> USE DEF ScratchTypeOK, Searching, RemovesItsOwn, NothingLeftBehind, Idle
<1>1. /\ m # n /\ dirs' = dirs /\ trying' = trying /\ trying[m] = 0 /\ trying[n] = 0
      /\ orphans' = orphans /\ reported' = reported /\ path[n] = Nowhere
      /\ path' = [path EXCEPT ![m] = Nowhere, ![n] = path[m]]
  BY DEF MoveScratch
<1>2. \A o \in Makers : path'[o] = IF o = m THEN Nowhere ELSE IF o = n THEN path[m] ELSE path[o]
  BY <1>1 DEF ScratchInv
<1>3. ScratchTypeOK'
  BY <1>1 DEF ScratchInv
<1>4. Searching'
  BY <1>1, <1>2 DEF ScratchInv
<1>5. RemovesItsOwn'
  BY <1>1, <1>2 DEF ScratchInv
<1>6. NothingLeftBehind'
  <2> SUFFICES ASSUME NEW d \in dirs, d \notin orphans, d \notin reported
               PROVE  \E o \in Makers : path'[o] = d
    BY <1>1
  <2>1. PICK o \in Makers : path[o] = d
    BY DEF ScratchInv
  <2>2. d # Nowhere
    BY AttemptsAssumption DEF ScratchInv
  <2>3. CASE o = m
    BY <1>1, <1>2, <2>1, <2>3
  <2>4. CASE o # m
    BY <1>1, <1>2, <2>1, <2>2, <2>4
  <2>5. QED  BY <2>3, <2>4
<1>7. QED  BY <1>3, <1>4, <1>5, <1>6 DEF ScratchInv

LEMMA ScratchNextInv == ScratchInv /\ ~MoveOverHeld /\ [ScratchNext]_scratchVars => ScratchInv'
<1> USE DEF ScratchTypeOK, Searching, RemovesItsOwn, NothingLeftBehind, Idle
<1> SUFFICES ASSUME ScratchInv, ~MoveOverHeld, [ScratchNext]_scratchVars  PROVE ScratchInv'
  OBVIOUS
<1>1. ASSUME NEW m \in Makers, BeginConstruct(m)  PROVE ScratchInv'
  BY <1>1, AttemptsAssumption DEF BeginConstruct, ScratchInv
<1>2. ASSUME NEW m \in Makers, DestroyScratch(m)  PROVE ScratchInv'
  <2>1. /\ path' = [path EXCEPT ![m] = Nowhere]
        /\ trying' = trying /\ orphans' = orphans /\ trying[m] = 0
        /\ \/ dirs' = dirs \ {path[m]} /\ reported' = reported
           \/ path[m] # Nowhere /\ dirs' = dirs /\ reported' = reported \union {path[m]}
    BY <1>2 DEF DestroyScratch
  <2>2. \A n \in Makers : path'[n] = IF n = m THEN Nowhere ELSE path[n]
    BY <2>1 DEF ScratchInv
  <2>3. path[m] \notin orphans \union reported /\ (path[m] # Nowhere => path[m] \in dirs)
    BY AttemptsAssumption DEF ScratchInv
  <2>4. ScratchTypeOK'
    BY <2>1, <2>3 DEF ScratchInv
  <2>5. Searching'
    BY <2>1, <2>2 DEF ScratchInv
  <2>6. RemovesItsOwn'
    BY <2>1, <2>2 DEF ScratchInv
  <2>7. NothingLeftBehind'
    BY <2>1, <2>2 DEF ScratchInv
  <2>8. QED  BY <2>4, <2>5, <2>6, <2>7 DEF ScratchInv
<1>3. ASSUME NEW m \in Makers, DetachScratch(m)  PROVE ScratchInv'
  <2>1. /\ dirs' = dirs /\ path' = [path EXCEPT ![m] = Nowhere]
        /\ trying' = trying /\ trying[m] = 0 /\ reported' = reported
        /\ orphans' = orphans \union ({path[m]} \ {Nowhere})
    BY <1>3 DEF DetachScratch
  <2>2. \A n \in Makers : path'[n] = IF n = m THEN Nowhere ELSE path[n]
    BY <2>1 DEF ScratchInv
  <2>3. ScratchTypeOK' /\ Searching'
    BY <2>1, <2>2 DEF ScratchInv
  <2>4. RemovesItsOwn'
    BY <2>1, <2>2 DEF ScratchInv
  <2>5. NothingLeftBehind'
    BY <2>1, <2>2, AttemptsAssumption DEF ScratchInv
  <2>6. QED  BY <2>3, <2>4, <2>5 DEF ScratchInv
<1>4. ASSUME NEW d \in Names, OutsideMakes(d) \/ OutsideRemoves(d)  PROVE ScratchInv'
  <2>1. CASE OutsideMakes(d)
    BY <2>1, AttemptsAssumption DEF OutsideMakes, ScratchInv
  <2>2. CASE OutsideRemoves(d)
    BY <2>2 DEF OutsideRemoves, ScratchInv
  <2>3. QED  BY <1>4, <2>1, <2>2
<1>5. CASE UNCHANGED scratchVars
  BY <1>5 DEF scratchVars, ScratchInv
<1>6. QED
  BY <1>1, <1>2, <1>3, <1>4, <1>5, TryNameInv, MoveScratchInv DEF ScratchNext

\* The directory an object will remove exists and is its own, and none is
\* left behind but those that were detached or could not be removed, for any
\* number of objects and names, with strangers making and removing directories
\* meanwhile, unless a program assigns to an object that has a directory.
THEOREM OwnGo ==
  ASSUME ~MoveOverHeld
  PROVE  ScratchInit /\ [][ScratchNext]_scratchVars => []OwnDirectoriesGo
<1>1. ScratchInv => OwnDirectoriesGo
  BY DEF ScratchInv, OwnDirectoriesGo
<1>2. ScratchInv /\ [ScratchNext]_scratchVars => ScratchInv'
  BY ScratchNextInv
<1>3. QED  BY <1>1, <1>2, ScratchInitInv, PTL
=============================================================================
