--------------------------- MODULE RingBufferProofs ---------------------------
(* RingBuffer and its iterator are right for every capacity, element type  *)
(* and word size.                                                          *)
EXTENDS RingIterator, TLAPS

-----------------------------------------------------------------------------
(* Arithmetic modulo the capacity.                                         *)

LEMMA ModBelow ==
  ASSUME NEW c \in Nat \ {0}, NEW a \in 0 .. c - 1
  PROVE  a % c = a
OBVIOUS

LEMMA ModAbove ==
  ASSUME NEW c \in Nat \ {0}, NEW a \in c .. 2 * c - 1
  PROVE  a % c = a - c
OBVIOUS

LEMMA ModPeriod ==
  ASSUME NEW c \in Nat \ {0}, NEW a \in 0 .. 2 * c - 1
  PROVE  (a + c) % c = a % c
<1>1. CASE a < c
  <2>1. a % c = a
    BY <1>1, ModBelow
  <2>2. (a + c) % c = (a + c) - c
    BY <1>1, ModAbove
  <2>3. QED  BY <2>1, <2>2
<1>2. CASE a >= c
  <2>1. a % c = a - c
    BY <1>2, ModAbove
  <2>2. a + c \in 2 * c .. 3 * c - 1
    BY <1>2
  <2>3. (a + c) % c = (a + c) - 2 * c
    BY <2>2
  <2>4. QED  BY <2>1, <2>3
<1>3. QED  BY <1>1, <1>2

\* An index at most one capacity too large wraps once.
LEMMA Wrap ==
  ASSUME NEW h \in Slots, NEW k \in 0 .. Cap
  PROVE  /\ SlotFrom(h, k) \in Slots
         /\ SlotFrom(h, k) \in Int
         /\ h + k < Cap => SlotFrom(h, k) = h + k
         /\ h + k >= Cap => SlotFrom(h, k) = h + k - Cap
<1> USE CapAssumption DEF Slots, SlotFrom
<1>1. CASE h + k < Cap
  BY <1>1, ModBelow
<1>2. CASE h + k >= Cap
  BY <1>2, ModAbove
<1>3. QED  BY <1>1, <1>2

\* The slots of a window of at most Cap elements are distinct.
LEMMA SlotsDistinct ==
  ASSUME NEW h \in Slots, NEW j \in Slots, NEW k \in Slots,
         SlotFrom(h, j) = SlotFrom(h, k)
  PROVE  j = k
<1>1. j \in 0 .. Cap /\ k \in 0 .. Cap
  BY CapAssumption DEF Slots
<1>2. /\ SlotFrom(h, j) \in Int
      /\ h + j < Cap => SlotFrom(h, j) = h + j
      /\ h + j >= Cap => SlotFrom(h, j) = h + j - Cap
  BY <1>1, Wrap
<1>3. /\ h + k < Cap => SlotFrom(h, k) = h + k
      /\ h + k >= Cap => SlotFrom(h, k) = h + k - Cap
  BY <1>1, Wrap
<1>4. QED  BY <1>2, <1>3, CapAssumption DEF Slots

\* Every slot is in the window of Cap elements, whatever its first slot.
LEMMA SlotReached ==
  ASSUME NEW h \in Slots, NEW i \in Slots
  PROVE  \E k \in Slots : SlotFrom(h, k) = i
<1> USE CapAssumption DEF Slots
<1> DEFINE k == IF i >= h THEN i - h ELSE i + Cap - h
<1>1. k \in Slots /\ k \in 0 .. Cap
  OBVIOUS
<1>2. CASE i >= h
  <2>1. k = i - h /\ h + k < Cap
    BY <1>2
  <2>2. SlotFrom(h, k) = h + k
    BY <1>1, <2>1, Wrap
  <2>3. QED  BY <1>1, <2>1, <2>2
<1>3. CASE i < h
  <2>1. k = i + Cap - h /\ h + k >= Cap
    BY <1>3
  <2>2. SlotFrom(h, k) = h + k - Cap
    BY <1>1, <2>1, Wrap
  <2>3. QED  BY <1>1, <2>1, <2>2
<1>4. QED  BY <1>2, <1>3

\* Moving the head by one shifts the window by one.
LEMMA SlotShift ==
  ASSUME NEW h \in Slots, NEW k \in 0 .. Cap - 1
  PROVE  SlotFrom(SlotFrom(h, 1), k) = SlotFrom(h, k + 1)
<1> USE CapAssumption DEF Slots
<1>1. 1 \in 0 .. Cap /\ k \in 0 .. Cap /\ k + 1 \in 0 .. Cap
  OBVIOUS
<1> DEFINE g == SlotFrom(h, 1)
<1>2. /\ g \in Slots
      /\ h + 1 < Cap => g = h + 1
      /\ h + 1 >= Cap => g = h + 1 - Cap
  BY <1>1, Wrap
<1> HIDE DEF g
<1>3. /\ SlotFrom(g, k) \in Int
      /\ g + k < Cap => SlotFrom(g, k) = g + k
      /\ g + k >= Cap => SlotFrom(g, k) = g + k - Cap
  BY <1>1, <1>2, Wrap
<1>4. /\ SlotFrom(h, k + 1) \in Int
      /\ h + (k + 1) < Cap => SlotFrom(h, k + 1) = h + (k + 1)
      /\ h + (k + 1) >= Cap => SlotFrom(h, k + 1) = h + (k + 1) - Cap
  BY <1>1, Wrap
<1>5. SlotFrom(g, k) = SlotFrom(h, k + 1)
  BY <1>2, <1>3, <1>4
<1>6. QED  BY <1>5 DEF g

LEMMA HeadSteps ==
  ASSUME TypeOK
  PROVE  SlotFrom(head, 1) \in Slots
<1>1. 1 \in 0 .. Cap
  BY CapAssumption
<1>2. QED  BY <1>1, Wrap DEF TypeOK

LEMMA SlotInSlots ==
  ASSUME TypeOK, NEW k \in 0 .. Cap
  PROVE  SlotOf(k) \in Slots
BY Wrap DEF SlotOf, TypeOK

-----------------------------------------------------------------------------
(* Types.                                                                  *)

LEMMA InitTyped == Init => TypeOK
BY CapAssumption DEF Init, TypeOK, Slots

LEMMA NextTyped == TypeOK /\ [Next]_rbVars => TypeOK'
<1> SUFFICES ASSUME TypeOK, [Next]_rbVars  PROVE TypeOK'
  OBVIOUS
<1> USE CapAssumption DEF TypeOK, Slots
<1>1. ASSUME NEW v \in Values, PushBack(v)  PROVE TypeOK'
  <2>1. SlotOf(size) \in Slots
    BY SlotInSlots
  <2>2. QED  BY <1>1, <2>1, HeadSteps DEF PushBack
<1>2. CASE PopFront
  BY <1>2, HeadSteps DEF PopFront
<1>3. CASE Clear
  BY <1>3 DEF Clear
<1>4. ASSUME NEW k \in Slots, NEW v \in Values, Assign(k, v)  PROVE TypeOK'
  BY <1>4, SlotInSlots DEF Assign
<1>5. CASE UNCHANGED rbVars
  BY <1>5 DEF rbVars
<1>6. QED  BY <1>1, <1>2, <1>3, <1>4, <1>5 DEF Next

\* The indices never leave the array and the size never exceeds it.
THEOREM Typed == Spec => []TypeOK
BY InitTyped, NextTyped, PTL DEF Spec

-----------------------------------------------------------------------------
(* Nothing is kept outside the window.                                     *)

LEMMA InitNoGhosts == Init => NoGhosts
BY DEF Init, NoGhosts

LEMMA NextNoGhosts == TypeOK /\ NoGhosts /\ [Next]_rbVars => NoGhosts'
<1> SUFFICES ASSUME TypeOK, NoGhosts, [Next]_rbVars,
                    NEW i \in Slots, \A k \in 0 .. size' - 1 : SlotOf(k)' # i
             PROVE  data'[i] = Blank
  BY DEF NoGhosts
<1> USE CapAssumption DEF TypeOK, Slots
<1>1. ASSUME NEW v \in Values, PushBack(v)  PROVE data'[i] = Blank
  <2>1. CASE size < Cap
    <3>1. SlotOf(size) # i
      BY <1>1, <2>1 DEF PushBack, SlotOf
    <3>2. \A k \in 0 .. size - 1 : SlotOf(k) # i
      BY <1>1, <2>1 DEF PushBack, SlotOf
    <3>3. QED  BY <1>1, <3>1, <3>2 DEF PushBack, NoGhosts
  <2>2. CASE size = Cap
    <3>1. head' = SlotFrom(head, 1) /\ size' = Cap
      BY <1>1, <2>2 DEF PushBack
    <3>2. PICK k \in Slots : SlotFrom(head', k) = i
      BY <3>1, HeadSteps, SlotReached
    <3>3. QED  BY <3>1, <3>2 DEF SlotOf
  <2>3. QED  BY <2>1, <2>2
<1>2. CASE PopFront
  <2>1. CASE i = head
    BY <1>2, <2>1 DEF PopFront
  <2>2. CASE i # head
    <3>1. ASSUME NEW k \in 0 .. size - 1  PROVE SlotOf(k) # i
      <4>1. CASE k = 0
        <5>1. 0 \in 0 .. Cap
          OBVIOUS
        <5>2. SlotFrom(head, 0) = head
          BY <5>1, Wrap
        <5>3. QED  BY <2>2, <4>1, <5>2 DEF SlotOf
      <4>2. CASE k > 0
        <5>1. k - 1 \in 0 .. size' - 1 /\ k - 1 \in 0 .. Cap - 1
          BY <1>2, <4>2 DEF PopFront
        <5>2. SlotOf(k - 1)' = SlotFrom(SlotFrom(head, 1), k - 1)
          BY <1>2 DEF PopFront, SlotOf
        <5>3. SlotFrom(SlotFrom(head, 1), k - 1) = SlotFrom(head, (k - 1) + 1)
          BY <5>1, SlotShift
        <5>4. (k - 1) + 1 = k
          OBVIOUS
        <5>5. QED  BY <5>1, <5>2, <5>3, <5>4 DEF SlotOf
      <4>3. QED  BY <4>1, <4>2
    <3>2. QED  BY <1>2, <2>2, <3>1 DEF PopFront, NoGhosts
  <2>3. QED  BY <2>1, <2>2
<1>3. CASE Clear
  BY <1>3 DEF Clear, NoGhosts
<1>4. ASSUME NEW k \in Slots, NEW v \in Values, Assign(k, v)
      PROVE  data'[i] = Blank
  <2>1. \A j \in 0 .. size - 1 : SlotOf(j) # i
    BY <1>4 DEF Assign, SlotOf
  <2>2. QED  BY <1>4, <2>1 DEF Assign, NoGhosts
<1>5. CASE UNCHANGED rbVars
  BY <1>5 DEF rbVars, NoGhosts, SlotOf
<1>6. QED  BY <1>1, <1>2, <1>3, <1>4, <1>5 DEF Next

\* pop_front() and clear() release every value they drop, for any capacity.
THEOREM NothingLingers == Spec => []NoGhosts
BY InitTyped, NextTyped, InitNoGhosts, NextNoGhosts, PTL DEF Spec

-----------------------------------------------------------------------------
(* The buffer implements the sliding window.                               *)

V == Values \union {Blank}

LEMMA WindowSeq ==
  ASSUME NEW d \in [Slots -> V], NEW h \in Slots, NEW n \in 0 .. Cap
  PROVE  LET w == [i \in 1 .. n |-> d[SlotFrom(h, i - 1)]]
         IN  /\ w \in Seq(V)
             /\ Len(w) = n
             /\ \A i \in 1 .. n : w[i] = d[SlotFrom(h, i - 1)]
<1> USE CapAssumption
<1>1. \A i \in 1 .. n : d[SlotFrom(h, i - 1)] \in V
  <2> TAKE i \in 1 .. n
  <2>1. i - 1 \in 0 .. Cap
    OBVIOUS
  <2>2. QED  BY <2>1, Wrap
<1>2. n \in Nat
  OBVIOUS
<1>3. QED  BY <1>1, <1>2

LEMMA ContentsSeq ==
  ASSUME TypeOK
  PROVE  /\ Contents \in Seq(V) /\ Len(Contents) = size
         /\ \A i \in 1 .. size : Contents[i] = data[SlotFrom(head, i - 1)]
BY WindowSeq DEF Contents, SlotOf, TypeOK, V

LEMMA NextContentsSeq ==
  ASSUME TypeOK'
  PROVE  /\ Contents' \in Seq(V) /\ Len(Contents') = size'
         /\ \A i \in 1 .. size' : Contents'[i] = data'[SlotFrom(head', i - 1)]
BY WindowSeq DEF Contents, SlotOf, TypeOK, V

\* Two sequences of one length with the same elements are equal.
LEMMA SeqEqual ==
  ASSUME NEW S, NEW s \in Seq(S), NEW t \in Seq(S), Len(s) = Len(t),
         \A i \in 1 .. Len(s) : s[i] = t[i]
  PROVE  s = t
OBVIOUS

LEMMA PushStep ==
  ASSUME TypeOK, TypeOK', NEW v \in Values, PushBack(v)
  PROVE  Window!Push(v)
<1> USE CapAssumption
<1> DEFINE kept == IF Len(Contents) < Cap THEN Contents ELSE Tail(Contents)
<1>1. /\ Contents \in Seq(V) /\ Len(Contents) = size
      /\ \A i \in 1 .. size : Contents[i] = data[SlotFrom(head, i - 1)]
  BY ContentsSeq
<1>2. /\ Contents' \in Seq(V) /\ Len(Contents') = size'
      /\ \A i \in 1 .. size' : Contents'[i] = data'[SlotFrom(head', i - 1)]
  BY NextContentsSeq
<1>3. /\ Append(kept, v) \in Seq(V) /\ Len(Append(kept, v)) = size'
  BY <1>1 DEF PushBack, TypeOK, V
<1>4. ASSUME NEW i \in 1 .. size'
      PROVE  Contents'[i] = Append(kept, v)[i]
  <2>1. CASE size < Cap
    <3>1. SlotFrom(head', i - 1) = SlotFrom(head, i - 1) /\ kept = Contents
      BY <1>1, <2>1 DEF PushBack, SlotOf
    <3>2. CASE i = size + 1
      BY <1>1, <1>2, <2>1, <3>1, <3>2, SlotInSlots DEF PushBack, TypeOK, SlotOf
    <3>3. CASE i <= size
      <4>1. i - 1 \in Slots /\ size \in Slots /\ i - 1 # size
        BY <2>1, <3>3 DEF TypeOK, Slots
      <4>2. SlotFrom(head, i - 1) # SlotFrom(head, size)
        BY <4>1, SlotsDistinct DEF TypeOK
      <4>3. data'[SlotFrom(head, i - 1)] = data[SlotFrom(head, i - 1)]
        BY <4>2 DEF PushBack, SlotOf, TypeOK
      <4>4. QED  BY <1>1, <1>2, <3>1, <3>3, <4>3 DEF SlotOf, TypeOK
    <3>4. i = size + 1 \/ i <= size
      BY <2>1 DEF PushBack, TypeOK
    <3>5. QED  BY <3>2, <3>3, <3>4
  <2>2. CASE size = Cap
    <3>1. /\ size' = Cap /\ kept = Tail(Contents)
          /\ SlotFrom(head', i - 1) = SlotFrom(SlotFrom(head, 1), i - 1)
      BY <1>1, <2>2 DEF PushBack, SlotOf
    <3>2. i - 1 \in 0 .. Cap - 1 /\ (i - 1) + 1 = i /\ i \in 0 .. Cap
      BY <3>1
    <3>3. SlotFrom(head', i - 1) = SlotFrom(head, i)
      BY <3>1, <3>2, SlotShift DEF TypeOK
    <3>4. 0 \in 0 .. Cap /\ Cap \in 0 .. Cap
      OBVIOUS
    <3>5. SlotFrom(head, Cap) = head /\ SlotFrom(head, 0) = head
      <4>1. head + Cap >= Cap /\ head + 0 < Cap /\ head \in Int
        BY DEF TypeOK, Slots
      <4>2. SlotFrom(head, Cap) = head + Cap - Cap
        BY <3>4, <4>1, Wrap DEF TypeOK
      <4>3. SlotFrom(head, 0) = head + 0
        BY <3>4, <4>1, Wrap DEF TypeOK
      <4>4. QED  BY <4>1, <4>2, <4>3
    <3>6. data' = [data EXCEPT ![head] = v]
      BY <2>2, <3>5 DEF PushBack, SlotOf
    <3>7. CASE i = Cap
      <4>1. Append(kept, v)[i] = v
        BY <1>1, <2>2, <3>1, <3>7
      <4>2. QED  BY <1>2, <3>3, <3>5, <3>6, <3>7, <4>1 DEF TypeOK
    <3>8. CASE i < Cap
      <4>1. i \in Slots /\ 0 \in Slots /\ i # 0
        BY <3>1, <3>8 DEF Slots
      <4>2. SlotFrom(head, i) # head
        BY <3>5, <4>1, SlotsDistinct DEF TypeOK
      <4>3. Contents'[i] = data[SlotFrom(head, i)]
        BY <1>2, <3>3, <3>6, <4>2 DEF TypeOK
      <4>4. Append(kept, v)[i] = Contents[i + 1]
        BY <1>1, <2>2, <3>1, <3>8
      <4>5. Contents[i + 1] = data[SlotFrom(head, (i + 1) - 1)] /\ (i + 1) - 1 = i
        BY <1>1, <2>2, <3>1, <3>8
      <4>6. QED  BY <4>3, <4>4, <4>5 DEF SlotOf
    <3>9. i = Cap \/ i < Cap
      BY <3>1
    <3>10. QED  BY <3>7, <3>8, <3>9
  <2>3. size < Cap \/ size = Cap
    BY DEF TypeOK
  <2>4. QED  BY <2>1, <2>2, <2>3
<1>5. Contents' = Append(kept, v)
  BY <1>2, <1>3, <1>4, SeqEqual
<1>6. QED  BY <1>5 DEF Window!Push

LEMMA PopStep ==
  ASSUME TypeOK, TypeOK', PopFront
  PROVE  Window!Pop
<1> USE CapAssumption
<1>1. /\ Contents \in Seq(V) /\ Len(Contents) = size
      /\ \A i \in 1 .. size : Contents[i] = data[SlotFrom(head, i - 1)]
  BY ContentsSeq
<1>2. /\ Contents' \in Seq(V) /\ Len(Contents') = size'
      /\ \A i \in 1 .. size' : Contents'[i] = data'[SlotFrom(head', i - 1)]
  BY NextContentsSeq
<1>3. Contents # <<>>
  BY <1>1 DEF PopFront
<1>4. Tail(Contents) \in Seq(V) /\ Len(Tail(Contents)) = size'
  BY <1>1, <1>3 DEF PopFront, TypeOK
<1>5. ASSUME NEW i \in 1 .. size'  PROVE Contents'[i] = Tail(Contents)[i]
  <2>1. i - 1 \in 0 .. Cap - 1 /\ (i - 1) + 1 = i /\ i \in Slots /\ 0 \in Slots
    BY DEF PopFront, TypeOK, Slots
  <2>2. SlotFrom(head', i - 1) = SlotFrom(head, i)
    BY <2>1, SlotShift DEF PopFront, SlotOf, TypeOK
  <2>3. SlotFrom(head, 0) = head
    <3>1. 0 \in 0 .. Cap
      OBVIOUS
    <3>2. QED  BY <3>1, Wrap DEF TypeOK, Slots
  <2>4. SlotFrom(head, i) # head
    BY <2>1, <2>3, SlotsDistinct DEF TypeOK
  <2>5. Contents'[i] = data[SlotFrom(head, i)]
    BY <1>2, <2>2, <2>4 DEF PopFront, TypeOK
  <2>6. Tail(Contents)[i] = Contents[i + 1]
    BY <1>1, <1>3 DEF PopFront
  <2>7. Contents[i + 1] = data[SlotFrom(head, (i + 1) - 1)] /\ (i + 1) - 1 = i
    BY <1>1 DEF PopFront, TypeOK
  <2>8. QED  BY <2>5, <2>6, <2>7 DEF SlotOf
<1>6. Contents' = Tail(Contents)
  BY <1>2, <1>4, <1>5, SeqEqual
<1>7. QED  BY <1>3, <1>6 DEF Window!Pop

LEMMA AssignStep ==
  ASSUME TypeOK, TypeOK', NEW k \in Slots, NEW v \in Values, Assign(k, v)
  PROVE  Window!Assign(k + 1, v)
<1> USE CapAssumption DEF SlotOf
<1>1. /\ Contents \in Seq(V) /\ Len(Contents) = size
      /\ \A i \in 1 .. size : Contents[i] = data[SlotFrom(head, i - 1)]
  BY ContentsSeq
<1>2. /\ Contents' \in Seq(V) /\ Len(Contents') = size
      /\ \A i \in 1 .. size : Contents'[i] = data'[SlotFrom(head, i - 1)]
  BY NextContentsSeq DEF Assign
<1>3. k + 1 \in DOMAIN Contents
  BY <1>1 DEF Assign, Slots, TypeOK
<1> DEFINE target == [Contents EXCEPT ![k + 1] = v]
<1>4. target \in Seq(V) /\ Len(target) = size
  BY <1>1, <1>3 DEF V
<1>5. ASSUME NEW i \in 1 .. size  PROVE Contents'[i] = target[i]
  <2>1. i - 1 \in Slots
    BY DEF TypeOK, Slots
  <2>2. CASE i = k + 1
    <3>1. target[i] = v
      BY <1>1, <1>3, <2>2
    <3>2. SlotFrom(head, k) \in Slots
      BY SlotInSlots DEF Slots
    <3>3. (k + 1) - 1 = k
      BY DEF Slots
    <3>4. QED  BY <1>2, <2>2, <3>1, <3>2, <3>3 DEF Assign, TypeOK
  <2>3. CASE i # k + 1
    <3>1. SlotOf(i - 1) # SlotOf(k)
      BY <2>1, <2>3, SlotsDistinct DEF SlotOf, TypeOK, Slots
    <3>2. data'[SlotOf(i - 1)] = data[SlotOf(i - 1)]
      <4>1. SlotOf(i - 1) \in Slots
        BY <2>1, SlotInSlots DEF Slots
      <4>2. QED  BY <3>1, <4>1 DEF Assign, TypeOK
    <3>3. QED  BY <1>1, <1>2, <2>3, <3>2
  <2>4. QED  BY <2>2, <2>3
<1>6. Contents' = target
  BY <1>2, <1>4, <1>5, SeqEqual
<1>7. QED  BY <1>3, <1>6 DEF Window!Assign

\* No call does what another one's name says.
THEOREM CallsAgree == Spec => EachCallAgrees
<1> DEFINE Agrees ==
      /\ \A v \in Values : PushBack(v) => Window!Push(v)
      /\ PopFront => Window!Pop
      /\ Clear => Window!Clear
      /\ \A k \in Slots, v \in Values : Assign(k, v) => Window!Assign(k + 1, v)
<1>1. ASSUME TypeOK, TypeOK'  PROVE Agrees
  <2>1. Clear => Window!Clear
    BY DEF Clear, Contents, Window!Clear
  <2>2. QED  BY <1>1, <2>1, PushStep, PopStep, AssignStep
<1>2. QED  BY <1>1, Typed, PTL DEF EachCallAgrees

\* Every operation acts on the content as on a queue that drops its oldest
\* element when it overflows, for every capacity.
THEOREM Refinement == Spec => ImplementsWindow
<1>1. Init => Window!Init
  BY DEF Init, Window!Init, Contents
<1>2. ASSUME TypeOK, TypeOK', [Next]_rbVars
      PROVE  [Window!Next]_Contents
  <2>1. ASSUME NEW v \in Values, PushBack(v)  PROVE Window!Next
    BY <1>2, <2>1, PushStep DEF Window!Next
  <2>2. CASE PopFront
    BY <1>2, <2>2, PopStep DEF Window!Next
  <2>3. CASE Clear
    <3>1. Contents' = <<>>
      BY <2>3 DEF Clear, Contents
    <3>2. QED  BY <3>1 DEF Window!Next, Window!Clear
  <2>4. ASSUME NEW k \in Slots, NEW v \in Values, Assign(k, v)
        PROVE  Window!Next
    <3>1. k + 1 \in 1 .. Cap
      BY CapAssumption DEF Slots
    <3>2. QED  BY <1>2, <2>4, <3>1, AssignStep DEF Window!Next
  <2>5. CASE UNCHANGED rbVars
    BY <2>5 DEF rbVars, Contents, SlotOf
  <2>6. QED  BY <1>2, <2>1, <2>2, <2>3, <2>4, <2>5 DEF Next
<1>3. QED
  BY <1>1, <1>2, Typed, CallsAgree, PTL DEF Spec, ImplementsWindow, Window!Spec

-----------------------------------------------------------------------------
(* The iterator.                                                           *)

LEMMA WordSmall ==
  ASSUME NEW x \in 0 .. WordMod - 1
  PROVE  Word(x) = x
BY WordAssumption DEF Word

\* From the slot at position p, j places on is the slot at position p + j.
LEMMA SlotAdd ==
  ASSUME NEW h \in Slots, NEW p \in 0 .. Cap, NEW j \in 0 .. Cap,
         p + j \in 0 .. Cap
  PROVE  SlotFrom(SlotFrom(h, p), j) = SlotFrom(h, p + j)
<1> USE CapAssumption DEF Slots
<1> DEFINE g == SlotFrom(h, p)
<1>1. /\ g \in Slots
      /\ h + p < Cap => g = h + p
      /\ h + p >= Cap => g = h + p - Cap
  BY Wrap
<1> HIDE DEF g
<1>2. /\ SlotFrom(g, j) \in Int
      /\ g + j < Cap => SlotFrom(g, j) = g + j
      /\ g + j >= Cap => SlotFrom(g, j) = g + j - Cap
  BY <1>1, Wrap
<1>3. /\ SlotFrom(h, p + j) \in Int
      /\ h + (p + j) < Cap => SlotFrom(h, p + j) = h + (p + j)
      /\ h + (p + j) >= Cap => SlotFrom(h, p + j) = h + (p + j) - Cap
  BY Wrap
<1>4. SlotFrom(g, j) = SlotFrom(h, p + j)
  BY <1>1, <1>2, <1>3
<1>5. QED  BY <1>4 DEF g

\* Cap - j places on is j places back.
LEMMA SlotBack ==
  ASSUME NEW h \in Slots, NEW p \in 0 .. Cap, NEW j \in 0 .. p
  PROVE  SlotFrom(SlotFrom(h, p), Cap - j) = SlotFrom(h, p - j)
<1> USE CapAssumption DEF Slots
<1> DEFINE g == SlotFrom(h, p)
<1>1. /\ g \in Slots
      /\ h + p < Cap => g = h + p
      /\ h + p >= Cap => g = h + p - Cap
  BY Wrap
<1> HIDE DEF g
<1>2. Cap - j \in 0 .. Cap /\ p - j \in 0 .. Cap
  OBVIOUS
<1>3. /\ SlotFrom(g, Cap - j) \in Int
      /\ g + (Cap - j) < Cap => SlotFrom(g, Cap - j) = g + (Cap - j)
      /\ g + (Cap - j) >= Cap => SlotFrom(g, Cap - j) = g + (Cap - j) - Cap
  BY <1>1, <1>2, Wrap
<1>4. /\ SlotFrom(h, p - j) \in Int
      /\ h + (p - j) < Cap => SlotFrom(h, p - j) = h + (p - j)
      /\ h + (p - j) >= Cap => SlotFrom(h, p - j) = h + (p - j) - Cap
  BY <1>2, Wrap
<1>5. SlotFrom(g, Cap - j) = SlotFrom(h, p - j)
  BY <1>1, <1>3, <1>4
<1>6. QED  BY <1>5 DEF g

ItInv == TypeOK /\ ItTypeOK /\ PointsAtPosition

LEMMA BeginPoints ==
  ASSUME TypeOK
  PROVE  Begin \in [index : Slots, count : 0 .. size] /\ head = SlotFrom(head, 0)
<1>1. 0 \in 0 .. Cap /\ head + 0 < Cap
  BY CapAssumption DEF TypeOK, Slots
<1>2. QED  BY <1>1, Wrap DEF Begin, TypeOK, Slots

LEMMA ItInitInv == ItInit => ItInv
<1> SUFFICES ASSUME ItInit  PROVE ItInv
  OBVIOUS
<1>1. TypeOK
  BY InitTyped DEF ItInit
<1>2. QED
  BY <1>1, BeginPoints
  DEF ItInit, ItInv, ItTypeOK, PointsAtPosition, Position, SlotOf, Begin, TypeOK

\* A step of the iterator from position p to position q.
LEMMA Moves ==
  ASSUME ItInv, UNCHANGED rbVars, NEW q \in 0 .. size,
         it' = [index |-> SlotFrom(head, q), count |-> size - q]
  PROVE  ItInv'
<1>1. TypeOK'
  BY DEF rbVars, ItInv, TypeOK, Slots
<1>2. SlotFrom(head, q) \in Slots
  <2>1. q \in 0 .. Cap
    BY CapAssumption DEF ItInv, TypeOK
  <2>2. QED  BY <2>1, Wrap DEF ItInv, TypeOK
<1>3. size - (size - q) = q /\ size - q \in 0 .. size
  BY DEF ItInv, TypeOK
<1>4. ItTypeOK'
  BY <1>2, <1>3 DEF ItTypeOK, rbVars
<1>5. PointsAtPosition'
  BY <1>3 DEF PointsAtPosition, Position, SlotOf, rbVars
<1>6. QED  BY <1>1, <1>4, <1>5 DEF ItInv

\* begin() of a buffer with head h and size n, whichever they are.
LEMMA BeginAt ==
  ASSUME NEW h \in Slots, NEW n \in 0 .. Cap
  PROVE  n \in 0 .. n /\ n - n = 0 /\ SlotFrom(h, 0) = h
<1>1. 0 \in 0 .. Cap /\ h + 0 = h /\ h + 0 < Cap
  BY CapAssumption DEF Slots
<1>2. n \in 0 .. n /\ n - n = 0
  BY CapAssumption
<1>3. QED  BY <1>1, <1>2, Wrap

\* After a change of the buffer the iterator is taken again.
LEMMA NextBegin ==
  ASSUME TypeOK', it' = Begin'
  PROVE  ItInv'
<1>1. head' \in Slots /\ size' \in 0 .. Cap
  BY DEF TypeOK
<1>2. size' \in 0 .. size' /\ size' - size' = 0 /\ SlotFrom(head', 0) = head'
  BY <1>1, BeginAt
<1>3. it' = [index |-> head', count |-> size']
  BY DEF Begin
<1>4. ItTypeOK'
  BY <1>1, <1>2, <1>3 DEF ItTypeOK
<1>5. PointsAtPosition'
  BY <1>2, <1>3 DEF PointsAtPosition, Position, SlotOf
<1>6. QED  BY <1>4, <1>5 DEF ItInv

LEMMA ItNextInv ==
  ASSUME ~NegativeJumps, ItInv, [ItNext]_itVars
  PROVE  ItInv'
<1> USE CapAssumption, WordAssumption
<1> DEFINE p == size - it.count
<1>1. /\ p \in 0 .. size /\ p \in 0 .. Cap /\ it.count = size - p
      /\ it.count \in Nat /\ it.count <= Cap /\ size \in 0 .. Cap
      /\ it = [index |-> it.index, count |-> it.count]
      /\ it.index = SlotFrom(head, p) /\ it.index \in Slots /\ head \in Slots
  BY DEF ItInv, ItTypeOK, PointsAtPosition, Position, SlotOf, TypeOK
<1> HIDE DEF p
<1>2. CASE Next /\ it' = Begin'
  <2>1. TypeOK'
    BY <1>2, NextTyped DEF ItInv
  <2>2. QED  BY <1>2, <2>1, NextBegin
<1>3. CASE TakeBegin
  <2>1. head = SlotFrom(head, 0) /\ size - 0 = size
    BY BeginPoints DEF ItInv, TypeOK
  <2>2. it' = [index |-> SlotFrom(head, 0), count |-> size - 0]
    BY <1>3, <2>1 DEF TakeBegin, Begin
  <2>3. QED  BY <1>1, <1>3, <2>2, Moves DEF TakeBegin
<1>4. CASE TakeEnd
  <2>1. it' = [index |-> SlotFrom(head, size), count |-> size - size]
    BY <1>1, <1>4 DEF TakeEnd, End, SlotOf
  <2>2. QED  BY <1>1, <1>4, <2>1, Moves DEF TakeEnd
<1>5. CASE Increment
  <2>1. p < size /\ p + 1 \in 0 .. size /\ 1 \in 0 .. Cap /\ p + 1 \in 0 .. Cap
    BY <1>1, <1>5 DEF Increment, Position, p
  <2>2. SlotFrom(it.index, 1) = SlotFrom(head, p + 1)
    BY <1>1, <2>1, SlotAdd
  <2>3. SlotFrom(it.index, 1) =
          IF it.index + 1 = Cap THEN 0 ELSE it.index + 1
    <3>1. /\ SlotFrom(it.index, 1) \in Int
          /\ it.index + 1 < Cap => SlotFrom(it.index, 1) = it.index + 1
          /\ it.index + 1 >= Cap => SlotFrom(it.index, 1) = it.index + 1 - Cap
      BY <1>1, <2>1, Wrap
    <3>2. it.index \in 0 .. Cap - 1
      BY <1>1 DEF Slots
    <3>3. QED  BY <3>1, <3>2
  <2>4. Word(it.count - 1) = size - (p + 1)
    <3>1. it.count - 1 = size - (p + 1) /\ it.count - 1 \in 0 .. WordMod - 1
      BY <1>1, <2>1
    <3>2. QED  BY <3>1, WordSmall
  <2>5. it' = [index |-> SlotFrom(head, p + 1), count |-> size - (p + 1)]
    BY <1>5, <2>2, <2>3, <2>4 DEF Increment, Next1
  <2>6. QED  BY <1>5, <2>1, <2>5, Moves DEF Increment
<1>6. CASE Decrement
  <2>1. p > 0 /\ p - 1 \in 0 .. size /\ 1 \in 0 .. p
    BY <1>1, <1>6 DEF Decrement, Position, p
  <2>2. SlotFrom(it.index, Cap - 1) = SlotFrom(head, p - 1)
    BY <1>1, <2>1, SlotBack
  <2>3. SlotFrom(it.index, Cap - 1) =
          IF it.index = 0 THEN Cap - 1 ELSE it.index - 1
    <3>1. Cap - 1 \in 0 .. Cap
      OBVIOUS
    <3>2. /\ SlotFrom(it.index, Cap - 1) \in Int
          /\ it.index + (Cap - 1) < Cap =>
               SlotFrom(it.index, Cap - 1) = it.index + (Cap - 1)
          /\ it.index + (Cap - 1) >= Cap =>
               SlotFrom(it.index, Cap - 1) = it.index + (Cap - 1) - Cap
      BY <1>1, <3>1, Wrap
    <3>3. it.index \in 0 .. Cap - 1
      BY <1>1 DEF Slots
    <3>4. QED  BY <3>2, <3>3
  <2>4. Word(it.count + 1) = size - (p - 1)
    <3>1. it.count + 1 = size - (p - 1) /\ it.count + 1 \in 0 .. WordMod - 1
      BY <1>1, <2>1
    <3>2. QED  BY <3>1, WordSmall
  <2>5. it' = [index |-> SlotFrom(head, p - 1), count |-> size - (p - 1)]
    BY <1>6, <2>2, <2>3, <2>4 DEF Decrement, Prev1
  <2>6. QED  BY <1>6, <2>1, <2>5, Moves DEF Decrement
<1>7. ASSUME NEW d \in Allowed, it' = Plus(it, d), UNCHANGED rbVars
      PROVE  ItInv'
  <2>1. d \in 0 .. Cap /\ p + d \in 0 .. size /\ p + d \in 0 .. Cap
    BY <1>1, <1>7 DEF Allowed, Jumps, Position, p
  <2>2. SlotFrom(it.index, d) = SlotFrom(head, p + d)
    BY <1>1, <2>1, SlotAdd
  <2>3. Word(it.index + d) = it.index + d
    <3>1. it.index + d \in 0 .. WordMod - 1
      BY <1>1, <2>1 DEF Slots
    <3>2. QED  BY <3>1, WordSmall
  <2>4. Word(it.count - d) = size - (p + d)
    <3>1. it.count - d = size - (p + d) /\ it.count - d \in 0 .. WordMod - 1
      BY <1>1, <2>1
    <3>2. QED  BY <3>1, WordSmall
  <2>5. it' = [index |-> SlotFrom(head, p + d), count |-> size - (p + d)]
    BY <1>7, <2>2, <2>3, <2>4 DEF Plus, SlotFrom
  <2>6. QED  BY <1>7, <2>1, <2>5, Moves
<1>8. ASSUME NEW d \in Jumps, it' = Minus(it, -d), UNCHANGED rbVars
      PROVE  ItInv'
  <2>1. d \in -Cap .. Cap /\ p + d \in 0 .. size /\ p + d \in 0 .. Cap
    BY <1>1, <1>8 DEF Jumps, Position, p
  <2>2. Word(it.count + (-d)) = size - (p + d)
    <3>1. it.count + (-d) = size - (p + d) /\ it.count + (-d) \in 0 .. WordMod - 1
      BY <1>1, <2>1
    <3>2. QED  BY <3>1, WordSmall
  <2>3. Word(it.index + Cap - (-d)) % Cap = SlotFrom(head, p + d)
    <3>1. it.index + Cap - (-d) = it.index + Cap + d
      BY <1>1, <2>1 DEF Slots
    <3>2. CASE d < 0
      <4>1. -d \in 0 .. p /\ Cap - (-d) \in 0 .. Cap /\ p - (-d) = p + d
        BY <1>1, <2>1, <3>2
      <4>2. it.index + Cap + d \in 0 .. WordMod - 1
        BY <1>1, <2>1, <3>2 DEF Slots
      <4>3. it.index + Cap + d = it.index + (Cap - (-d))
        BY <1>1, <2>1 DEF Slots
      <4>4. SlotFrom(it.index, Cap - (-d)) = SlotFrom(head, p + d)
        BY <1>1, <4>1, SlotBack
      <4>5. Word(it.index + Cap - (-d)) = it.index + (Cap - (-d))
        BY <3>1, <4>2, <4>3, WordSmall
      <4>6. QED  BY <4>4, <4>5 DEF SlotFrom
    <3>3. CASE d >= 0
      <4>1. d \in 0 .. Cap
        BY <2>1, <3>3
      <4>2. SlotFrom(it.index, d) = SlotFrom(head, p + d)
        BY <1>1, <2>1, <4>1, SlotAdd
      <4>3. (it.index + Cap + d) % Cap = (it.index + d) % Cap
        <5>1. it.index + d \in 0 .. 2 * Cap - 1 /\ it.index + Cap + d = (it.index + d) + Cap
          BY <1>1, <4>1 DEF Slots
        <5>2. QED  BY <5>1, ModPeriod
      <4>4. Word(it.index + Cap + d) = it.index + Cap + d
        BY <1>1, <4>1, WordSmall DEF Slots
      <4>5. QED  BY <3>1, <4>2, <4>3, <4>4 DEF SlotFrom
    <3>4. QED  BY <2>1, <3>2, <3>3
  <2>4. it' = [index |-> SlotFrom(head, p + d), count |-> size - (p + d)]
    BY <1>8, <2>2, <2>3 DEF Minus
  <2>5. QED  BY <1>8, <2>1, <2>4, Moves
<1>9. CASE UNCHANGED itVars
  BY <1>9 DEF itVars, ItInv, TypeOK, Slots, ItTypeOK, PointsAtPosition, Position,
              SlotOf
<1>10. QED
  BY <1>2, <1>3, <1>4, <1>5, <1>6, <1>7, <1>8, <1>9
  DEF ItNext, JumpForward, JumpBackward

LEMMA ConcatSeq ==
  ASSUME NEW S, NEW s \in Seq(S), NEW t \in Seq(S)
  PROVE  /\ s \o t \in Seq(S) /\ Len(s \o t) = Len(s) + Len(t)
         /\ \A i \in 1 .. Len(s) : (s \o t)[i] = s[i]
         /\ \A i \in 1 .. Len(s) + Len(t) : i > Len(s) => (s \o t)[i] = t[i - Len(s)]
OBVIOUS

LEMMA SegmentsMeet ==
  ASSUME TypeOK
  PROVE  SegmentsAgree
<1> USE CapAssumption
<1> DEFINE n == FirstCount
<1>1. /\ head \in 0 .. Cap - 1 /\ size \in 0 .. Cap
      /\ n \in 0 .. size /\ n <= Cap - head
      /\ size > n => n = Cap - head
  BY DEF TypeOK, Slots, FirstCount
<1> HIDE DEF n
<1>2. /\ FirstSegment \in Seq(V) /\ Len(FirstSegment) = n
      /\ \A i \in 1 .. n : FirstSegment[i] = data[head + i - 1]
  <2>1. \A i \in 1 .. n : data[head + i - 1] \in V
    <3> TAKE i \in 1 .. n
    <3>1. head + i - 1 \in Slots
      BY <1>1 DEF Slots
    <3>2. QED  BY <3>1 DEF TypeOK, V
  <2>2. n \in Nat /\ FirstSegment = [i \in 1 .. n |-> data[head + i - 1]]
    BY <1>1 DEF FirstSegment, n
  <2>3. QED  BY <2>1, <2>2
<1>3. /\ SecondSegment \in Seq(V) /\ Len(SecondSegment) = size - n
      /\ \A i \in 1 .. size - n : SecondSegment[i] = data[i - 1]
  <2>1. \A i \in 1 .. size - n : data[i - 1] \in V
    <3> TAKE i \in 1 .. size - n
    <3>1. i - 1 \in Slots
      BY <1>1 DEF Slots
    <3>2. QED  BY <3>1 DEF TypeOK, V
  <2>2. size - n \in Nat /\ SecondSegment = [i \in 1 .. size - n |-> data[i - 1]]
    BY <1>1 DEF SecondSegment, n
  <2>3. QED  BY <2>1, <2>2
<1> DEFINE w == FirstSegment \o SecondSegment
<1>4. /\ w \in Seq(V) /\ Len(w) = size
      /\ \A i \in 1 .. n : w[i] = FirstSegment[i]
      /\ \A i \in 1 .. size : i > n => w[i] = SecondSegment[i - n]
  <2> DEFINE s == FirstSegment
             t == SecondSegment
  <2>1. s \in Seq(V) /\ t \in Seq(V) /\ Len(s) = n /\ Len(t) = size - n
    BY <1>2, <1>3
  <2> HIDE DEF s, t
  <2>2. /\ s \o t \in Seq(V) /\ Len(s \o t) = Len(s) + Len(t)
        /\ \A i \in 1 .. Len(s) : (s \o t)[i] = s[i]
        /\ \A i \in 1 .. Len(s) + Len(t) : i > Len(s) => (s \o t)[i] = t[i - Len(s)]
    BY <2>1, ConcatSeq
  <2>3. Len(s) + Len(t) = size
    BY <1>1, <2>1
  <2>4. w = s \o t
    BY DEF s, t
  <2> HIDE DEF w
  <2>5. QED  BY <2>1, <2>2, <2>3, <2>4 DEF s, t
<1> HIDE DEF w
<1>5. ASSUME NEW i \in 1 .. size
      PROVE  w[i] = data[SlotFrom(head, i - 1)]
  <2>1. /\ i - 1 \in 0 .. Cap
        /\ head + (i - 1) < Cap => SlotFrom(head, i - 1) = head + (i - 1)
        /\ head + (i - 1) >= Cap => SlotFrom(head, i - 1) = head + (i - 1) - Cap
    <3>1. i - 1 \in 0 .. Cap
      BY <1>1
    <3>2. QED  BY <3>1, <1>1, Wrap DEF Slots
  <2>2. CASE i <= n
    <3>1. i \in 1 .. n /\ head + (i - 1) < Cap /\ head + (i - 1) = head + i - 1
      BY <1>1, <2>2
    <3>2. w[i] = FirstSegment[i]
      BY <1>4, <3>1
    <3>3. QED  BY <1>2, <2>1, <3>1, <3>2
  <2>3. CASE i > n
    <3>1. /\ i - n \in 1 .. size - n /\ head + (i - 1) >= Cap
          /\ head + (i - 1) - Cap = (i - n) - 1
      BY <1>1, <2>3
    <3>2. w[i] = SecondSegment[i - n]
      BY <1>4, <2>3
    <3>3. QED  BY <1>3, <2>1, <3>1, <3>2
  <2>4. QED  BY <1>1, <2>2, <2>3
<1>6. w = Contents
  BY <1>4, <1>5, ContentsSeq, SeqEqual
<1>7. QED  BY <1>6 DEF SegmentsAgree, w

LEMMA SubscriptsMeet ==
  ASSUME ~NegativeJumps, ItInv
  PROVE  SubscriptAgrees
<1> USE CapAssumption, WordAssumption
<1> DEFINE p == size - it.count
<1>1. /\ p \in 0 .. Cap /\ size \in 0 .. Cap /\ head \in Slots
      /\ it.index = SlotFrom(head, p) /\ it.index \in 0 .. Cap - 1
  BY DEF ItInv, ItTypeOK, PointsAtPosition, Position, SlotOf, TypeOK, Slots
<1> HIDE DEF p
<1> SUFFICES ASSUME NEW d \in Allowed, Position(it) + d < size
             PROVE  Subscript(it, d) = SlotOf(Position(it) + d)
  BY DEF SubscriptAgrees
<1>2. d \in 0 .. Cap /\ p + d \in 0 .. Cap
  BY <1>1 DEF Allowed, Jumps, Position, p
<1>3. SlotFrom(it.index, d) = SlotFrom(head, p + d)
  BY <1>1, <1>2, SlotAdd
<1>4. Word(it.index + d) = it.index + d
  <2>1. it.index + d \in 0 .. WordMod - 1
    BY <1>1, <1>2
  <2>2. QED  BY <2>1, WordSmall
<1>5. QED  BY <1>3, <1>4 DEF Subscript, SlotFrom, SlotOf, Position, p

LEMMA DistancesMeet ==
  ASSUME ItInv
  PROVE  DistanceAgrees
<1> USE CapAssumption, WordAssumption
<1>1. size \in 0 .. Cap /\ it.count \in 0 .. size
  BY DEF ItInv, ItTypeOK, TypeOK
<1>2. ASSUME NEW x \in 0 .. Cap  PROVE Signed(x) = x
  <2>1. x \in 0 .. WordMod - 1 /\ x < WordMod \div 2
    OBVIOUS
  <2>2. Word(x) = x
    BY <2>1, WordSmall
  <2>3. QED  BY <2>1, <2>2 DEF Signed
<1>3. size - it.count \in 0 .. Cap /\ it.count - 0 \in 0 .. Cap /\ it.count - 0 = it.count
  BY <1>1
<1>4. QED
  BY <1>1, <1>2, <1>3 DEF DistanceAgrees, Distance, Begin, End, Position

\* Every way to the elements leads to the same ones: both segments, and an
\* iterator that any mixture of ++, --, -= and forward += brought where it
\* is, for every capacity and every word wider than three times of it.
THEOREM WaysAgree ==
  ASSUME ~NegativeJumps
  PROVE  ItSpec => []AccessAgrees
<1>1. ItInv => AccessAgrees
  BY SegmentsMeet, SubscriptsMeet, DistancesMeet DEF ItInv, AccessAgrees
<1>2. QED  BY <1>1, ItInitInv, ItNextInv, PTL DEF ItSpec
=============================================================================
