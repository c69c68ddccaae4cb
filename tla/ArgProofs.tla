------------------------------- MODULE ArgProofs -------------------------------
(***************************************************************************)
(* Proofs about the command-line parser: after each word its state and its *)
(* destinations are what the one legal reading of the words so far says,   *)
(* and the checks after the loop find what is wrong with that reading.     *)
(* Each branch of the loop is shown to do what any word of its role does   *)
(* (Obey), and that to keep the invariant (ObeyKeeps).                     *)
(***************************************************************************)
EXTENDS ArgReading, FiniteSetTheorems, WellFoundedInduction, NaturalsInduction,
        SequenceTheorems, TLAPS

-----------------------------------------------------------------------------
(* Sets of numbers and the places in them.                                 *)

\* A set of numbers has a least one.
LEMMA LeastOf ==
  ASSUME NEW S \in SUBSET Nat, S # {}
  PROVE  \E x \in S : \A y \in S : x <= y
<1> DEFINE R == OpToRel(<, Nat)
<1>1. \E x \in S : \A y \in S : ~(<<y, x>> \in R)
  BY NatLessThanWellFounded, WFMin
<1>2. PICK x \in S : \A y \in S : ~(<<y, x>> \in R)
  BY <1>1
<1>3. \A y \in S : x <= y
  <2> SUFFICES ASSUME NEW y \in S PROVE x <= y
    OBVIOUS
  <2>1. x \in Nat /\ y \in Nat /\ (y < x => <<y, x>> \in R)
    BY DEF OpToRel
  <2> HIDE DEF R
  <2>2. QED  BY <1>2, <2>1
<1>4. QED  BY <1>3

\* A set of numbers up to m has a greatest one.
LEMMA GreatestOf ==
  ASSUME NEW m \in Nat, NEW S \in SUBSET (0 .. m), S # {}
  PROVE  \E x \in S : \A y \in S : y <= x
<1> DEFINE T == {m - x : x \in S}
<1>1. T \in SUBSET Nat /\ T # {}
  <2>1. \A x \in S : m - x \in Nat
    OBVIOUS
  <2>2. QED  BY <2>1
<1>2. PICK z \in T : \A y \in T : z <= y
  BY <1>1, LeastOf
<1>3. PICK x \in S : z = m - x
  OBVIOUS
<1>4. \A y \in S : y <= x
  <2> SUFFICES ASSUME NEW y \in S PROVE y <= x
    OBVIOUS
  <2>1. z <= m - y
    BY <1>2
  <2>2. x \in 0 .. m /\ y \in 0 .. m
    OBVIOUS
  <2>3. QED  BY <2>1, <2>2, <1>3
<1>5. QED  BY <1>4

\* Places count from 1, no place is taken twice, and a later element has a
\* later place.
LEMMA RankGrows ==
  ASSUME NEW S \in SUBSET Nat, IsFiniteSet(S)
  PROVE  /\ \A i \in Nat : Rank(S, i) \in Nat /\ Rank(S, i) <= Cardinality(S)
         /\ \A i \in S : Rank(S, i) >= 1
         /\ \A i, j \in S : i < j => Rank(S, i) < Rank(S, j)
<1> DEFINE Below(i) == {j \in S : j <= i}
<1>1. \A i \in Nat : IsFiniteSet(Below(i)) /\ Cardinality(Below(i)) \in Nat /\ Cardinality(Below(i)) <= Cardinality(S)
  BY FS_Subset, FS_CardinalityType
<1>2. ASSUME NEW i \in S
      PROVE  Cardinality(Below(i)) >= 1
  <2>1. Below(i) # {} /\ i \in Nat
    OBVIOUS
  <2>2. Cardinality(Below(i)) # 0
    BY <2>1, <1>1, FS_EmptySet
  <2>3. QED  BY <2>1, <2>2, <1>1
<1>3. ASSUME NEW i \in S, NEW j \in S, i < j
      PROVE  Cardinality(Below(i)) < Cardinality(Below(j))
  <2>1. Below(i) \in SUBSET Below(j) /\ j \in Below(j) /\ j \notin Below(i)
    <3>1. \A y \in S : y \in Nat /\ (y <= i => y <= j)
      BY <1>3
    <3>2. j \in Nat /\ i \in Nat /\ ~(j <= i) /\ j <= j
      BY <1>3
    <3>3. QED  BY <3>1, <3>2
  <2>2. Cardinality(Below(i)) <= Cardinality(Below(j)) /\ Cardinality(Below(i)) # Cardinality(Below(j))
    BY <2>1, <1>1, FS_Subset
  <2>3. i \in Nat /\ j \in Nat
    OBVIOUS
  <2>4. QED  BY <2>2, <2>3, <1>1
<1>4. QED  BY <1>1, <1>2, <1>3 DEF Rank

\* Every place is somebody's, and only his.
LEMMA NthIs ==
  ASSUME NEW m \in Nat, NEW S \in SUBSET (0 .. m), NEW n \in 1 .. Cardinality(S)
  PROVE  Nth(S, n) \in S /\ Rank(S, Nth(S, n)) = n
<1>1. IsFiniteSet(S) /\ S \in SUBSET Nat
  <2>1. IsFiniteSet(0 .. m)
    BY FS_Interval
  <2>2. IsFiniteSet(S)
    BY <2>1, FS_Subset
  <2>3. QED  BY <2>2
<1>2. Cardinality(S) \in Nat /\ S # {}
  BY <1>1, FS_CardinalityType, FS_EmptySet
<1>3. PICK x \in S : \A y \in S : y <= x
  BY <1>2, GreatestOf
<1>4. {j \in S : j <= x} = S
  BY <1>3
<1>5. Rank(S, x) >= n
  BY <1>4, <1>2 DEF Rank
<1>6. PICK i \in {y \in S : Rank(S, y) >= n} : \A y \in {z \in S : Rank(S, z) >= n} : i <= y
  <2>1. {y \in S : Rank(S, y) >= n} \in SUBSET Nat /\ {y \in S : Rank(S, y) >= n} # {}
    BY <1>1, <1>5
  <2> HIDE DEF Rank
  <2>2. QED  BY <2>1, LeastOf
<1>7. i \in S /\ i \in Nat /\ Rank(S, i) >= n /\ Rank(S, i) \in Nat
  BY <1>1, RankGrows
<1>8. ASSUME Rank(S, i) # n
      PROVE  FALSE
  <2> DEFINE D == {j \in S : j < i}
  <2>1. {j \in S : j <= i} = D \union {i} /\ i \notin D /\ IsFiniteSet(D)
    <3>1. IsFiniteSet(D)
      BY <1>1, FS_Subset
    <3>2. \A y \in S : y <= i <=> y < i \/ y = i
      BY <1>1, <1>7
    <3>3. i <= i /\ ~(i < i)
      BY <1>7
    <3>4. QED  BY <3>1, <3>2, <3>3, <1>7
  <2>2. Rank(S, i) = Cardinality(D) + 1 /\ Cardinality(D) \in Nat
    <3> HIDE DEF D
    <3>1. QED  BY <2>1, FS_AddElement, FS_CardinalityType DEF Rank
  <2>3. Cardinality(D) >= n
    BY <2>2, <1>7, <1>8
  <2>4. D # {} /\ D \in SUBSET (0 .. m)
    <3>1. Cardinality(D) # 0
      BY <2>2, <2>3
    <3>2. QED  BY <3>1, FS_EmptySet
  <2>5. PICK k \in D : \A y \in D : y <= k
    <3> HIDE DEF D
    <3>1. QED  BY <2>4, GreatestOf
  <2>6. {j \in S : j <= k} = D
    <3>1. \A y \in S : y <= k => y < i
      BY <1>1, <1>7
    <3>2. QED  BY <3>1, <2>5
  <2>7. Rank(S, k) >= n
    BY <2>6, <2>3 DEF Rank
  <2>8. k \in S /\ k < i /\ k \in Nat
    BY <1>1
  <2>9. QED  BY <2>7, <2>8, <1>6, <1>7
<1>9. \E y \in S : Rank(S, y) = n
  BY <1>7, <1>8
<1>10. QED  BY <1>9 DEF Nth

\* Everybody has a place, and it is his.
LEMMA NthOfRank ==
  ASSUME NEW m \in Nat, NEW S \in SUBSET (0 .. m), NEW i \in S
  PROVE  Rank(S, i) \in 1 .. Cardinality(S) /\ Nth(S, Rank(S, i)) = i
<1>1. IsFiniteSet(S) /\ S \in SUBSET Nat /\ i \in Nat
  <2>1. IsFiniteSet(0 .. m)
    BY FS_Interval
  <2>2. IsFiniteSet(S)
    BY <2>1, FS_Subset
  <2>3. QED  BY <2>2
<1>2. Rank(S, i) \in 1 .. Cardinality(S)
  <2>1. Cardinality(S) \in Nat
    BY <1>1, FS_CardinalityType
  <2>2. QED  BY <1>1, <2>1, RankGrows
<1> DEFINE k == Nth(S, Rank(S, i))
<1>3. k \in S /\ Rank(S, k) = Rank(S, i)
  BY <1>2, NthIs
<1>4. k \in Nat
  BY <1>1, <1>3
<1> HIDE DEF k
<1>5. ~(k < i) /\ ~(i < k)
  <2>1. Rank(S, i) \in Nat
    BY <1>1, RankGrows
  <2>2. QED  BY <1>1, <1>3, <2>1, RankGrows
<1>6. k = i
  BY <1>4, <1>1, <1>5
<1>7. QED  BY <1>2, <1>6 DEF k

-----------------------------------------------------------------------------
(* The arguments of a parser, and the readings of a line.                  *)

\* The positional arguments, each at one place.
LEMMA PositionalsAre ==
  ASSUME NEW args, IsParser(args)
  PROVE  /\ Len(Positionals(args)) \in Nat
         /\ DOMAIN Positionals(args) = 1 .. Len(Positionals(args))
         /\ \A n \in 1 .. Len(Positionals(args)) :
              Positionals(args)[n] \in DOMAIN args /\ args[Positionals(args)[n]].positional
         /\ \A n, k \in 1 .. Len(Positionals(args)) :
              Positionals(args)[n] = Positionals(args)[k] => n = k
         /\ \A i \in DOMAIN args :
              args[i].positional => \E n \in 1 .. Len(Positionals(args)) : Positionals(args)[n] = i
<1> DEFINE S == {i \in DOMAIN args : args[i].positional}
           pos == Positionals(args)
<1>1. PICK m \in Nat : DOMAIN args = 1 .. m
  BY DEF IsParser
<1>2. S \in SUBSET (0 .. m) /\ IsFiniteSet(S)
  <2>1. IsFiniteSet(0 .. m)
    BY FS_Interval
  <2>2. S \in SUBSET (0 .. m)
    BY <1>1
  <2> HIDE DEF S
  <2>3. QED  BY <2>1, <2>2, FS_Subset
<1>3. Cardinality(S) \in Nat
  BY <1>2, FS_CardinalityType
<1>4. pos = [n \in 1 .. Cardinality(S) |-> Nth(S, n)]
  BY DEF Positionals
<1>5. \A n \in 1 .. Cardinality(S) : Nth(S, n) \in S /\ Rank(S, Nth(S, n)) = n
  BY <1>1, <1>2, NthIs
<1>6. \A i \in S : Rank(S, i) \in 1 .. Cardinality(S) /\ Nth(S, Rank(S, i)) = i
  BY <1>1, <1>2, NthOfRank
<1>7. pos \in Seq(S) /\ Len(pos) = Cardinality(S)
  <2> HIDE DEF S, pos
  <2>1. pos \in [1 .. Cardinality(S) -> S]
    BY <1>4, <1>5
  <2>2. QED  BY <2>1, <1>3, SeqDef, LenProperties
<1>8. \A n \in 1 .. Len(pos) : pos[n] \in S /\ Rank(S, pos[n]) = n
  <2> HIDE DEF S, pos
  <2>1. QED  BY <1>4, <1>5, <1>7
<1>9. \A i \in S : Rank(S, i) \in 1 .. Len(pos) /\ pos[Rank(S, i)] = i
  <2> HIDE DEF S, pos
  <2>1. QED  BY <1>4, <1>6, <1>7
<1>10. \A n, k \in 1 .. Len(pos) : pos[n] = pos[k] => n = k
  <2> HIDE DEF S, pos
  <2>1. QED  BY <1>8
<1>11. Len(pos) \in Nat /\ DOMAIN pos = 1 .. Len(pos)
  <2> HIDE DEF S, pos
  <2>1. QED  BY <1>7
<1>12. QED  BY <1>8, <1>9, <1>10, <1>11

\* A name stands for one option.
LEMMA NamedIsOne ==
  ASSUME NEW args, IsParser(args), NEW field, NEW key
  PROVE  /\ \A i \in Named(args, field, key) : i \in DOMAIN args /\ ~args[i].positional
         /\ \A i, j \in Named(args, field, key) : i = j
<1>1. \A i \in DOMAIN args : i \in Nat
  BY DEF IsParser
<1>2. QED  BY <1>1 DEF Named

\* One option at most waits for the word after w, and it is no flag.
LEMMA TakesIsOne ==
  ASSUME NEW args, IsParser(args), NEW w
  PROVE  /\ \A i \in Takes(args, w) :
              i \in DOMAIN args /\ ~args[i].positional /\ ~IsFlag(args, i)
         /\ \A i, j \in Takes(args, w) : i = j
<1>1. CASE w.kind = "long"
  BY <1>1, NamedIsOne DEF Takes, ByLong
<1>2. CASE w.kind # "long" /\ w.kind = "short" /\ Len(w.letters) = 1
  BY <1>2, NamedIsOne DEF Takes, ByShort
<1>3. CASE w.kind # "long" /\ ~(w.kind = "short" /\ Len(w.letters) = 1)
  BY <1>3 DEF Takes
<1>4. QED  BY <1>1, <1>2, <1>3

\* A reading of what has been read, and of one more word.
On(r, a, b, role) == [i \in a .. b + 1 |-> IF i = b + 1 THEN role ELSE r[i]]

\* What the word after those read as r has to be.
IsValue(r, args, b) == b \in DOMAIN r /\ r[b] = "option" /\ Takes(args, words[b]) # {}
HasEnd(r) == \E j \in DOMAIN r : r[j] = "end"
Continues(r, args, b, role) ==
  /\ role = "value" <=> IsValue(r, args, b)
  /\ role = "positional" <=> ~IsValue(r, args, b) /\ (words[b + 1].kind = "plain" \/ HasEnd(r))
  /\ role = "end" <=> ~IsValue(r, args, b) /\ ~HasEnd(r) /\ words[b + 1].kind = "ends"

\* There is one reading of a stretch of the line.
LEMMA OneReading ==
  ASSUME NEW args, NEW a \in Nat, NEW b \in Int,
         NEW r \in [a .. b -> Roles], IsReading(r, args),
         NEW s \in [a .. b -> Roles], IsReading(s, args)
  PROVE  r = s
<1> DEFINE D == {i \in a .. b : r[i] # s[i]}
<1>1. ASSUME D # {}
      PROVE  FALSE
  <2>1. D \in SUBSET Nat
    OBVIOUS
  <2>2. PICK i \in D : \A y \in D : i <= y
    <3> HIDE DEF D
    <3>1. QED  BY <1>1, <2>1, LeastOf
  <2>3. i \in a .. b /\ r[i] # s[i] /\ \A j \in a .. b : j < i => r[j] = s[j]
    <3>1. \A j \in a .. b : j < i => j \notin D
      BY <2>2, <2>1
    <3>2. QED  BY <3>1
  <2>4. DOMAIN r = a .. b /\ DOMAIN s = a .. b
    OBVIOUS
  <2>5. (i - 1 \in DOMAIN r /\ r[i - 1] = "option") <=> (i - 1 \in DOMAIN s /\ s[i - 1] = "option")
    BY <2>3, <2>4
  <2>6. (\E j \in DOMAIN r : j < i /\ r[j] = "end") <=> (\E j \in DOMAIN s : j < i /\ s[j] = "end")
    BY <2>3, <2>4
  <2>7. /\ r[i] = "value" <=> s[i] = "value"
        /\ r[i] = "positional" <=> s[i] = "positional"
        /\ r[i] = "end" <=> s[i] = "end"
    BY <2>3, <2>4, <2>5, <2>6 DEF IsReading
  <2>8. r[i] \in Roles /\ s[i] \in Roles
    BY <2>3
  <2>9. QED  BY <2>3, <2>7, <2>8 DEF Roles
<1>2. QED  BY <1>1

\* A legal reading is the one that Reading chooses.
LEMMA ReadingIs ==
  ASSUME NEW args, NEW a \in Nat, NEW b \in Int,
         NEW r \in [a .. b -> Roles], IsReading(r, args)
  PROVE  Reading(args, a, b) = r
<1>1. /\ Reading(args, a, b) \in [a .. b -> Roles]
      /\ IsReading(Reading(args, a, b), args)
  BY DEF Reading
<1>2. QED  BY <1>1, OneReading

\* A reading is read on by a word that has the right role.
LEMMA ReadsOn ==
  ASSUME NEW args, NEW a \in Nat, NEW b \in Nat, a <= b + 1,
         NEW r \in [a .. b -> Roles], IsReading(r, args),
         NEW role \in Roles, Continues(r, args, b, role)
  PROVE  /\ On(r, a, b, role) \in [a .. b + 1 -> Roles]
         /\ IsReading(On(r, a, b, role), args)
         /\ Reading(args, a, b + 1) = On(r, a, b, role)
<1> DEFINE s == On(r, a, b, role)
<1>1. /\ s \in [a .. b + 1 -> Roles] /\ s[b + 1] = role
      /\ \A i \in a .. b : s[i] = r[i]
      /\ DOMAIN r = a .. b /\ DOMAIN s = a .. b + 1
  BY DEF On
<1> HIDE DEF s
<1>2. ASSUME NEW i \in a .. b
      PROVE  /\ (i - 1 \in DOMAIN r /\ r[i - 1] = "option") <=> (i - 1 \in DOMAIN s /\ s[i - 1] = "option")
             /\ (\E j \in DOMAIN r : j < i /\ r[j] = "end") <=> (\E j \in DOMAIN s : j < i /\ s[j] = "end")
             /\ s[i] = r[i] /\ i \in DOMAIN r
  BY <1>1
<1>3. /\ (b \in DOMAIN s /\ s[b] = "option") <=> (b \in DOMAIN r /\ r[b] = "option")
      /\ (\E j \in DOMAIN s : j < b + 1 /\ s[j] = "end") <=> HasEnd(r)
      /\ b + 1 - 1 = b
  BY <1>1 DEF HasEnd
<1>4. IsReading(s, args)
  <2> SUFFICES ASSUME NEW i \in a .. b + 1
               PROVE  LET value == i - 1 \in DOMAIN s /\ s[i - 1] = "option" /\ Takes(args, words[i - 1]) # {}
                          ended == \E j \in DOMAIN s : j < i /\ s[j] = "end"
                      IN /\ s[i] = "value" <=> value
                         /\ s[i] = "positional" <=> ~value /\ (words[i].kind = "plain" \/ ended)
                         /\ s[i] = "end" <=> ~value /\ ~ended /\ words[i].kind = "ends"
    BY <1>1 DEF IsReading
  <2>1. CASE i \in a .. b
    <3>1. LET value == i - 1 \in DOMAIN r /\ r[i - 1] = "option" /\ Takes(args, words[i - 1]) # {}
              ended == \E j \in DOMAIN r : j < i /\ r[j] = "end"
          IN /\ r[i] = "value" <=> value
             /\ r[i] = "positional" <=> ~value /\ (words[i].kind = "plain" \/ ended)
             /\ r[i] = "end" <=> ~value /\ ~ended /\ words[i].kind = "ends"
      BY <2>1, <1>2 DEF IsReading
    <3>2. QED  BY <3>1, <2>1, <1>2, Zenon
  <2>2. CASE i = b + 1
    BY <2>2, <1>1, <1>3 DEF Continues, IsValue
  <2>3. QED  BY <2>1, <2>2
<1>5. Reading(args, a, b + 1) = s
  BY <1>1, <1>4, ReadingIs
<1>6. QED  BY <1>1, <1>4, <1>5 DEF s

\* The new word is the last of its role.
LEMMA PlacesOn ==
  ASSUME NEW a \in Nat, NEW b \in Nat, a <= b + 1, NEW r \in [a .. b -> Roles],
         NEW role \in Roles, NEW x
  PROVE  /\ PlacesOf(On(r, a, b, role), x) =
              IF x = role THEN PlacesOf(r, x) \union {b + 1} ELSE PlacesOf(r, x)
         /\ PlacesOf(r, x) \in SUBSET (a .. b)
<1> DEFINE s == On(r, a, b, role)
<1>1. /\ s[b + 1] = role /\ DOMAIN r = a .. b /\ DOMAIN s = a .. b + 1
      /\ \A i \in a .. b : s[i] = r[i]
  BY DEF On
<1> HIDE DEF s
<1>2. a .. b + 1 = a .. b \union {b + 1}
  OBVIOUS
<1>3. PlacesOf(s, x) = IF x = role THEN PlacesOf(r, x) \union {b + 1} ELSE PlacesOf(r, x)
  BY <1>1, <1>2 DEF PlacesOf
<1>4. QED  BY <1>1, <1>3 DEF PlacesOf, s

\* The place of a word among those of its role does not change any more.
LEMMA RankOn ==
  ASSUME NEW a \in Nat, NEW b \in Nat, a <= b + 1, NEW r \in [a .. b -> Roles],
         NEW role \in Roles, NEW x
  PROVE  LET now == PlacesOf(On(r, a, b, role), x)
             old == PlacesOf(r, x)
         IN /\ IsFiniteSet(old) /\ Cardinality(old) \in Nat
            /\ \A i \in a .. b : Rank(now, i) = Rank(old, i)
            /\ \A i \in old : Rank(old, i) \in 1 .. Cardinality(old)
            /\ x = role => Rank(now, b + 1) = Cardinality(old) + 1 /\ Cardinality(now) = Cardinality(old) + 1
<1> DEFINE now == PlacesOf(On(r, a, b, role), x)
           old == PlacesOf(r, x)
<1>1. now = (IF x = role THEN old \union {b + 1} ELSE old) /\ old \in SUBSET (a .. b)
  BY PlacesOn
<1> HIDE DEF now, old
<1>2. IsFiniteSet(old) /\ Cardinality(old) \in Nat
  <2>1. IsFiniteSet(a .. b)
    BY FS_Interval
  <2>2. QED  BY <1>1, <2>1, FS_Subset, FS_CardinalityType
<1>3. ASSUME NEW i \in a .. b
      PROVE  Rank(now, i) = Rank(old, i)
  <2>1. {j \in now : j <= i} = {j \in old : j <= i}
    <3>1. i \in Nat /\ ~(b + 1 <= i)
      OBVIOUS
    <3>2. QED  BY <3>1, <1>1
  <2>2. QED  BY <2>1 DEF Rank
<1>4. \A i \in old : Rank(old, i) \in 1 .. Cardinality(old)
  <2>1. old \in SUBSET (0 .. b)
    BY <1>1
  <2>2. QED  BY <2>1, NthOfRank
<1>5. ASSUME x = role
      PROVE  Rank(now, b + 1) = Cardinality(old) + 1 /\ Cardinality(now) = Cardinality(old) + 1
  <2>1. now = old \union {b + 1} /\ b + 1 \notin old
    BY <1>1, <1>5
  <2>2. {j \in now : j <= b + 1} = now
    <3>1. \A j \in now : j <= b + 1
      BY <2>1, <1>1
    <3>2. QED  BY <3>1
  <2>3. Cardinality(now) = Cardinality(old) + 1
    BY <2>1, <1>2, FS_AddElement
  <2>4. QED  BY <2>2, <2>3 DEF Rank
<1>6. QED  BY <1>2, <1>3, <1>4, <1>5 DEF now, old

-----------------------------------------------------------------------------
(* What a reading gives, and how one more word changes it.                 *)

\* The positional argument whose turn it is.
HasTurn(r, args, c) ==
  LET n == Cardinality(PlacesOf(r, "positional"))
  IN n + 1 <= Len(Positionals(args)) /\ Positionals(args)[n + 1] = c

\* The next word adds itself to what is for an argument, if it is for it.
LEMMA ForOn ==
  ASSUME NEW args, NEW c, NEW a \in Nat, NEW b \in Nat, a <= b + 1,
         NEW r \in [a .. b -> Roles], NEW role \in Roles
  PROVE  LET s == On(r, a, b, role)
         IN /\ \A i : i \in ValuesFor(s, args, c) <=>
                 i \in ValuesFor(r, args, c) \/ (role = "value" /\ c \in Takes(args, words[b]) /\ i = b + 1)
            /\ \A i : i \in SetsFor(s, args, c) <=>
                 i \in SetsFor(r, args, c) \/ (role = "option" /\ c \in SetBy(args, b + 1) /\ i = b + 1)
            /\ \A i : i \in PlacesFor(s, args, c) <=>
                 i \in PlacesFor(r, args, c) \/ (role = "positional" /\ HasTurn(r, args, c) /\ i = b + 1)
<1> DEFINE s == On(r, a, b, role)
           n == Cardinality(PlacesOf(r, "positional"))
           pos == Positionals(args)
<1>1. \A i : i \in ValuesFor(s, args, c) <=>
                 i \in ValuesFor(r, args, c) \/ (role = "value" /\ c \in Takes(args, words[b]) /\ i = b + 1)
  <2>1. PlacesOf(s, "value") = IF "value" = role THEN PlacesOf(r, "value") \union {b + 1} ELSE PlacesOf(r, "value")
    BY PlacesOn
  <2>2. b + 1 - 1 = b
    OBVIOUS
  <2> HIDE DEF s
  <2>3. QED  BY <2>1, <2>2 DEF ValuesFor
<1>2. \A i : i \in SetsFor(s, args, c) <=>
                 i \in SetsFor(r, args, c) \/ (role = "option" /\ c \in SetBy(args, b + 1) /\ i = b + 1)
  <2>1. PlacesOf(s, "option") = IF "option" = role THEN PlacesOf(r, "option") \union {b + 1} ELSE PlacesOf(r, "option")
    BY PlacesOn
  <2> HIDE DEF s
  <2>2. QED  BY <2>1 DEF SetsFor
<1>3. \A i : i \in PlacesFor(s, args, c) <=>
                 i \in PlacesFor(r, args, c) \/ (role = "positional" /\ n + 1 <= Len(pos) /\ pos[n + 1] = c /\ i = b + 1)
  <2> DEFINE now == PlacesOf(s, "positional")
             old == PlacesOf(r, "positional")
  <2>1. now = (IF "positional" = role THEN old \union {b + 1} ELSE old) /\ old \in SUBSET (a .. b)
    BY PlacesOn
  <2>2. /\ \A i \in old : Rank(now, i) = Rank(old, i)
        /\ "positional" = role => Rank(now, b + 1) = n + 1
    BY <2>1, RankOn
  <2> HIDE DEF s, now, old, n, pos
  <2>3. /\ PlacesFor(s, args, c) = {i \in now : Rank(now, i) <= Len(pos) /\ pos[Rank(now, i)] = c}
        /\ PlacesFor(r, args, c) = {i \in old : Rank(old, i) <= Len(pos) /\ pos[Rank(old, i)] = c}
    BY DEF PlacesFor, now, old, pos
  <2>4. QED  BY <2>1, <2>2, <2>3
<1>4. QED  BY <1>1, <1>2, <1>3 DEF HasTurn

\* What letters set are flags.
LEMMA FlagsAreFlags ==
  ASSUME NEW args, IsParser(args), NEW w, IsWord(w), w.kind = "short"
  PROVE  \A i \in Flags(args, w) : i \in DOMAIN args /\ ~args[i].positional /\ IsFlag(args, i)
<1> SUFFICES ASSUME NEW i \in Flags(args, w)
             PROVE  i \in DOMAIN args /\ ~args[i].positional /\ IsFlag(args, i)
  OBVIOUS
<1>1. PICK k \in DOMAIN w.letters : Obeyed(args, w, k) /\ i \in Letter(args, w, k)
  BY DEF Flags
<1>2. k \in Nat /\ k \in 1 .. k
  BY DEF IsWord
<1>3. IsFlag(args, i)
  BY <1>1, <1>2 DEF Obeyed
<1>4. QED  BY <1>1, <1>3, NamedIsOne DEF Letter, ByShort

\* What an option word sets are flags.
LEMMA SetByFlags ==
  ASSUME NEW args, IsParser(args), NEW i, IsWord(words[i]), words[i].kind \in {"long", "short"}
  PROVE  \A c \in SetBy(args, i) : c \in DOMAIN args /\ ~args[c].positional /\ IsFlag(args, c)
<1>1. CASE words[i].kind = "long"
  BY <1>1, NamedIsOne DEF SetBy, ByLong
<1>2. CASE words[i].kind = "short"
  BY <1>2, FlagsAreFlags DEF SetBy
<1>3. QED  BY <1>1, <1>2

\* Only dashed words are options.
LEMMA OptionWords ==
  ASSUME NEW args, NEW r, NEW i \in DOMAIN r, r[i] \in Roles, IsWord(words[i]), IsReading(r, args)
  PROVE  r[i] = "option" => words[i].kind \in {"long", "short"}
BY DEF IsReading, Roles, IsWord

\* An argument is given something in the way that is its own.
LEMMA OwnWay ==
  ASSUME NEW args, IsParser(args), NEW r, IsReading(r, args),
         \A i \in DOMAIN r : r[i] \in Roles /\ IsWord(words[i]),
         NEW c \in DOMAIN args
  PROVE  /\ ValuesFor(r, args, c) # {} => ~args[c].positional /\ ~IsFlag(args, c)
         /\ SetsFor(r, args, c) # {} => ~args[c].positional /\ IsFlag(args, c)
<1>1. ValuesFor(r, args, c) # {} => ~args[c].positional /\ ~IsFlag(args, c)
  BY TakesIsOne DEF ValuesFor
<1>2. ASSUME NEW i \in SetsFor(r, args, c)
      PROVE  ~args[c].positional /\ IsFlag(args, c)
  <2>1. i \in DOMAIN r /\ r[i] = "option" /\ c \in SetBy(args, i)
    BY DEF SetsFor, PlacesOf
  <2>2. IsWord(words[i]) /\ words[i].kind \in {"long", "short"}
    BY <2>1, OptionWords
  <2>3. QED  BY <2>1, <2>2, SetByFlags
<1>3. QED  BY <1>1, <1>2

\* A positional word is for a positional argument, and for one only.
LEMMA OwnPlace ==
  ASSUME NEW args, IsParser(args), NEW a \in Nat, NEW b \in Nat, a <= b + 1,
         NEW r \in [a .. b -> Roles], NEW c \in DOMAIN args
  PROVE  /\ PlacesFor(r, args, c) # {} => args[c].positional
         /\ \A n \in 1 .. Len(Positionals(args)) :
              Positionals(args)[n] = c /\ n > Cardinality(PlacesOf(r, "positional")) => PlacesFor(r, args, c) = {}
<1> DEFINE old == PlacesOf(r, "positional")
           pos == Positionals(args)
<1>1. Cardinality(old) \in Nat /\ \A i \in old : Rank(old, i) \in 1 .. Cardinality(old)
  <2>1. "positional" \in Roles
    BY DEF Roles
  <2>2. QED  BY <2>1, RankOn
<1>2. /\ Len(pos) \in Nat
      /\ \A n \in 1 .. Len(pos) : args[pos[n]].positional
      /\ \A n, k \in 1 .. Len(pos) : pos[n] = pos[k] => n = k
  BY PositionalsAre
<1>3. PlacesFor(r, args, c) = {i \in old : Rank(old, i) <= Len(pos) /\ pos[Rank(old, i)] = c}
  BY DEF PlacesFor
<1> HIDE DEF old, pos
<1>4. \A i \in PlacesFor(r, args, c) :
        Rank(old, i) \in 1 .. Len(pos) /\ Rank(old, i) <= Cardinality(old) /\ pos[Rank(old, i)] = c
  BY <1>1, <1>2, <1>3
<1>5. QED  BY <1>1, <1>2, <1>4 DEF old, pos

\* The words that an argument is given something by, and what.
GivenBy(r, args, c) ==
  {0} \union ValuesFor(r, args, c) \union {1 : i \in SetsFor(r, args, c)} \union PlacesFor(r, args, c)

\* It is one of them, and the greatest.
LEMMA GivenIs ==
  ASSUME NEW args, NEW a \in Nat, NEW b \in Nat, NEW r \in [a .. b -> Roles], NEW c
  PROVE  /\ GivenBy(r, args, c) \in SUBSET (0 .. b + 1)
         /\ Given(r, args, c) \in GivenBy(r, args, c)
         /\ \A j \in GivenBy(r, args, c) : j <= Given(r, args, c)
<1> DEFINE G == GivenBy(r, args, c)
<1>1. G \in SUBSET (0 .. b + 1) /\ 0 \in G
  BY DEF GivenBy, ValuesFor, PlacesFor, PlacesOf
<1>2. Given(r, args, c) = Greatest(G)
  BY DEF Given, GivenBy
<1> HIDE DEF G
<1>3. \E i \in G : \A j \in G : j <= i
  <2>1. b + 1 \in Nat
    OBVIOUS
  <2>2. QED  BY <1>1, <2>1, GreatestOf
<1>4. QED  BY <1>1, <1>2, <1>3 DEF Greatest, G

\* One more word gives something to the arguments it is for, and leaves the
\* others what they have.
LEMMA GivenOn ==
  ASSUME NEW args, IsParser(args), NEW a \in Nat, NEW b \in Nat, a <= b + 1,
         NEW r \in [a .. b -> Roles], NEW role \in Roles,
         IsReading(On(r, a, b, role), args), \A i \in a .. b + 1 : IsWord(words[i]),
         NEW c \in DOMAIN args
  PROVE  LET s == On(r, a, b, role)
             value == role = "value" /\ c \in Takes(args, words[b])
             set == role = "option" /\ c \in SetBy(args, b + 1)
             place == role = "positional" /\ HasTurn(r, args, c)
         IN /\ value \/ place => Given(s, args, c) = b + 1
            /\ set => Given(s, args, c) = 1
            /\ ~value /\ ~set /\ ~place => Given(s, args, c) = Given(r, args, c)
<1> DEFINE s == On(r, a, b, role)
           value == role = "value" /\ c \in Takes(args, words[b])
           set == role = "option" /\ c \in SetBy(args, b + 1)
           place == role = "positional" /\ HasTurn(r, args, c)
<1>1. /\ \A i : i \in ValuesFor(s, args, c) <=> i \in ValuesFor(r, args, c) \/ (value /\ i = b + 1)
      /\ \A i : i \in SetsFor(s, args, c) <=> i \in SetsFor(r, args, c) \/ (set /\ i = b + 1)
      /\ \A i : i \in PlacesFor(s, args, c) <=> i \in PlacesFor(r, args, c) \/ (place /\ i = b + 1)
  BY ForOn
<1>2. s \in [a .. b + 1 -> Roles] /\ b + 1 \in Nat
  BY DEF On
<1>3. SetsFor(s, args, c) # {} => ValuesFor(s, args, c) = {} /\ PlacesFor(s, args, c) = {}
  <2>1. \A i \in DOMAIN s : s[i] \in Roles /\ IsWord(words[i])
    BY <1>2
  <2>2. a <= b + 2 /\ b + 1 + 1 = b + 2
    OBVIOUS
  <2> HIDE DEF s
  <2>3. IsReading(s, args)
    BY DEF s
  <2>4. PlacesFor(s, args, c) # {} => args[c].positional
    BY <1>2, <2>2, OwnPlace
  <2>5. QED  BY <2>1, <2>3, <2>4, OwnWay
<1>4. /\ GivenBy(s, args, c) \in SUBSET (0 .. b + 2)
      /\ Given(s, args, c) \in GivenBy(s, args, c)
      /\ \A j \in GivenBy(s, args, c) : j <= Given(s, args, c)
  <2>1. b + 1 + 1 = b + 2
    OBVIOUS
  <2> HIDE DEF s
  <2>2. QED  BY <1>2, <2>1, GivenIs
<1>5. GivenBy(r, args, c) \in SUBSET (0 .. b + 1)
  BY GivenIs
<1> HIDE DEF s, value, set, place
<1>6. ASSUME value \/ place
      PROVE  Given(s, args, c) = b + 1
  <2>1. b + 1 \in GivenBy(s, args, c)
    BY <1>1, <1>6 DEF GivenBy
  <2>2. \A j \in GivenBy(s, args, c) : j \in GivenBy(r, args, c) \/ j = b + 1 \/ j = 1
    BY <1>1 DEF GivenBy
  <2>3. \A j \in GivenBy(s, args, c) : j <= b + 1
    BY <2>2, <1>5
  <2>4. QED  BY <2>1, <2>3, <1>4
<1>7. ASSUME set
      PROVE  Given(s, args, c) = 1
  <2>1. SetsFor(s, args, c) # {}
    BY <1>1, <1>7
  <2>2. GivenBy(s, args, c) = {0, 1}
    BY <2>1, <1>3 DEF GivenBy
  <2>3. QED  BY <2>2, <1>4
<1>8. ASSUME ~value, ~set, ~place
      PROVE  Given(s, args, c) = Given(r, args, c)
  <2>1. /\ ValuesFor(s, args, c) = ValuesFor(r, args, c)
        /\ SetsFor(s, args, c) = SetsFor(r, args, c)
        /\ PlacesFor(s, args, c) = PlacesFor(r, args, c)
    BY <1>1, <1>8
  <2>2. QED  BY <2>1 DEF Given
<1>9. QED  BY <1>6, <1>7, <1>8 DEF s, value, set, place

\* The default is kept by those that no word is for.
LEMMA NothingGiven ==
  ASSUME NEW args, NEW a \in Nat \ {0}, NEW b \in Nat, NEW r \in [a .. b -> Roles], NEW c
  PROVE  Given(r, args, c) = 0 <=>
           ValuesFor(r, args, c) = {} /\ SetsFor(r, args, c) = {} /\ PlacesFor(r, args, c) = {}
<1> DEFINE V == ValuesFor(r, args, c)
           M == PlacesFor(r, args, c)
           G == GivenBy(r, args, c)
<1>1. V \in SUBSET (a .. b) /\ M \in SUBSET (a .. b)
  BY DEF ValuesFor, PlacesFor, PlacesOf
<1>2. /\ G \in SUBSET (0 .. b + 1)
      /\ Given(r, args, c) \in G
      /\ \A j \in G : j <= Given(r, args, c)
  BY GivenIs
<1>3. G = ({0} \union V \union {1 : i \in SetsFor(r, args, c)} \union M)
  BY DEF GivenBy
<1> HIDE DEF V, M, G
<1>4. ASSUME NEW j \in G, j # 0
      PROVE  Given(r, args, c) # 0
  BY <1>2, <1>4
<1>5. (\E j \in G : j # 0) <=> V # {} \/ SetsFor(r, args, c) # {} \/ M # {}
  <2>1. \A j \in V \union M : j # 0
    BY <1>1
  <2>2. \A j : j \in {1 : i \in SetsFor(r, args, c)} <=> j = 1 /\ SetsFor(r, args, c) # {}
    OBVIOUS
  <2>3. \A j : j \in G <=> j = 0 \/ j \in V \/ j \in M \/ (j = 1 /\ SetsFor(r, args, c) # {})
    BY <1>3, <2>2
  <2>4. QED  BY <2>1, <2>3
<1>6. (\A j \in G : j = 0) => Given(r, args, c) = 0
  BY <1>2
<1>7. QED  BY <1>4, <1>5, <1>6 DEF V, M

-----------------------------------------------------------------------------
(* What the words of a line name.                                          *)

\* A letter that is alone takes a value if the group stops at it.
LEMMA LettersTake ==
  ASSUME NEW args, IsParser(args), NEW w, IsWord(w), w.kind = "short"
  PROVE  /\ Len(w.letters) = 1 => Takes(args, w) = StopsAt(args, w)
         /\ Len(w.letters) # 1 => Takes(args, w) = {}
         /\ Unknown(args, w) => StopsAt(args, w) = {}
<1>1. ASSUME Len(w.letters) = 1
      PROVE  Takes(args, w) = StopsAt(args, w)
  <2>1. DOMAIN w.letters = {1}
    BY <1>1 DEF IsWord
  <2>2. Obeyed(args, w, 0)
    BY DEF Obeyed
  <2>3. Obeyed(args, w, 1) <=>
          Letter(args, w, 1) # {} /\ \A i \in Letter(args, w, 1) : IsFlag(args, i)
    BY DEF Obeyed
  <2>4. StopsAt(args, w) = IF Obeyed(args, w, 1) THEN {} ELSE Letter(args, w, 1)
    <3>1. Stops(args, w) = IF Obeyed(args, w, 1) THEN {} ELSE {1}
      BY <2>1, <2>2 DEF Stops
    <3>2. QED  BY <3>1 DEF StopsAt
  <2>5. \A i, j \in Letter(args, w, 1) : i = j
    BY NamedIsOne DEF Letter, ByShort
  <2>6. Takes(args, w) = {i \in Letter(args, w, 1) : ~IsFlag(args, i)}
    BY <1>1 DEF Takes, Letter
  <2>7. QED  BY <2>3, <2>4, <2>5, <2>6
<1>2. ASSUME Len(w.letters) # 1
      PROVE  Takes(args, w) = {}
  BY <1>2 DEF Takes
<1>3. QED  BY <1>1, <1>2 DEF Unknown

\* What an option word sets, or lets wait, is mentioned by it.
LEMMA NamesAreMentioned ==
  ASSUME NEW args, IsParser(args), NEW i, IsWord(words[i]), words[i].kind \in {"long", "short"}
  PROVE  Takes(args, words[i]) \subseteq Mentions(args, i) /\ SetBy(args, i) \subseteq Mentions(args, i)
<1>1. CASE words[i].kind = "long"
  BY <1>1 DEF Takes, SetBy, Mentions
<1>2. CASE words[i].kind = "short"
  <2>1. Takes(args, words[i]) \subseteq StopsAt(args, words[i])
    BY <1>2, LettersTake
  <2>2. QED  BY <1>2, <2>1 DEF SetBy, Mentions
<1>3. QED  BY <1>1, <1>2

\* What a line means is not changed by a step that leaves it alone.
LEMMA SameWords ==
  ASSUME words' = words, NEW args, NEW r, NEW a, NEW b, NEW c
  PROVE  /\ IsReading(r, args)' <=> IsReading(r, args)
         /\ Reading(args, a, b)' = Reading(args, a, b)
         /\ Mentioned(r, args)' = Mentioned(r, args)
         /\ Given(r, args, c)' = Given(r, args, c)
         /\ IsUnknown(args, a)' <=> IsUnknown(args, a)
         /\ IsCombined(args, a)' <=> IsCombined(args, a)
<1>1. \A s : IsReading(s, args)' <=> IsReading(s, args)
  BY DEF IsReading
<1>2. Reading(args, a, b)' = Reading(args, a, b)
  BY <1>1 DEF Reading
<1>3. \A i : Mentions(args, i)' = Mentions(args, i)
  BY DEF Mentions
<1>4. Mentioned(r, args)' = Mentioned(r, args)
  BY <1>3 DEF Mentioned
<1>5. \A i : SetBy(args, i)' = SetBy(args, i)
  BY DEF SetBy
<1>6. Given(r, args, c)' = Given(r, args, c)
  <2>1. ValuesFor(r, args, c)' = ValuesFor(r, args, c) /\ SetsFor(r, args, c)' = SetsFor(r, args, c)
    BY <1>5 DEF ValuesFor, SetsFor
  <2>2. QED  BY <2>1 DEF Given
<1>7. QED  BY <1>1, <1>2, <1>4, <1>6 DEF IsUnknown, IsCombined

-----------------------------------------------------------------------------
(* The inductive invariant: where the parser is, said of the reading of    *)
(* what it has read.                                                       *)

\* The option that waits for the word after `to`.
Awaited(r, args, to) == IF to \in PlacesOf(r, "option") THEN Takes(args, words[to]) ELSE {}

StateInv ==
  /\ TypeOK
  /\ words \in Seq(Words) /\ start \in Seq(Nat) /\ start # <<>>
  /\ err = [q \in DOMAIN chain |-> err[q]]
  /\ dst = [q \in DOMAIN chain |-> [i \in DOMAIN chain[q] |-> dst[q][i]]]

\* The parsers behind the running one are untouched.
NextInv ==
  \A q \in DOMAIN chain : q > p => err[q] = "" /\ \A i \in DOMAIN chain[q] : dst[q][i] = 0

\* The locals of run() are what the words so far have made of them.
LocalsInv ==
  LET r == Read
      known == Mentioned(r, Args)
  IN /\ r \in [start[p] .. Last -> Roles] /\ IsReading(r, Args)
     /\ IF awaiting = 0 THEN Awaited(r, Args, Last) = {} ELSE awaiting \in Awaited(r, Args, Last)
     /\ optionsEnded <=> PlacesOf(r, "end") # {}
     /\ posIndex = Cardinality(PlacesOf(r, "positional"))
     /\ longSeen = {Args[i].long : i \in known}
     /\ shortSeen = {Args[i].short : i \in known} \ {NoShort}

\* The loop has stopped, or will, behind the last positional word of a
\* command, and otherwise where a word is left that is one too many.
StopInv ==
  /\ IF lastArg THEN MoreFollow /\ posIndex = Len(Positionals(Args)) /\ Last \in PlacesOf(Read, "positional")
     ELSE MoreFollow => posIndex < Len(Positionals(Args)) \/ posIndex = 0
  /\ pc = "finished" => index > Len(words) \/ lastArg \/
       (awaiting = 0 /\ posIndex = Len(Positionals(Args)) /\ (Word.kind = "plain" \/ optionsEnded))

\* The error that the loop has left is one of its options'.
LoopErrors ==
  pc = "loop" =>
    LET options == PlacesOf(Read, "option") IN
    /\ err[p] \in {"", "unknown", "combined"}
    /\ err[p] = "unknown" => \E i \in options : IsUnknown(Args, i)
    /\ err[p] = "combined" => \E i \in options : IsCombined(Args, i)
    /\ err[p] = "" => \A i \in options : ~IsUnknown(Args, i) /\ ~IsCombined(Args, i)

ArgInv == StateInv /\ NextInv /\ LocalsInv /\ StopInv /\ LoopErrors /\ AssignedAsRead

\* The running parser, and the words it runs over.
LEMMA Running ==
  ASSUME StateInv
  PROVE  /\ IsChain(chain) /\ Len(chain) \in Nat /\ DOMAIN chain = 1 .. Len(chain)
         /\ p \in Nat \ {0} /\ p \in DOMAIN chain /\ p \in DOMAIN start /\ IsParser(Args)
         /\ start[p] \in Nat \ {0} /\ start[p] <= index
         /\ Len(words) \in Nat /\ index \in Nat \ {0} /\ index <= Len(words) + 1
         /\ Last \in Nat /\ Last + 1 = index /\ start[p] <= Last + 1
         /\ \A i \in 1 .. Len(words) : IsWord(words[i])
<1>1. /\ chain \in Chains /\ p \in DOMAIN chain /\ index \in 1 .. Len(words) + 1
      /\ \A q \in DOMAIN start : start[q] \in 1 .. index
      /\ words \in Seq(Words) /\ start \in Seq(Nat) /\ start # <<>>
  BY DEF StateInv, TypeOK
<1>2. IsChain(chain)
  BY <1>1, ArgAssumption
<1>3. Len(chain) \in Nat /\ DOMAIN chain = 1 .. Len(chain) /\ IsParser(Args)
  BY <1>1, <1>2 DEF IsChain, Args
<1>4. p \in Nat \ {0} /\ p \in DOMAIN start
  BY <1>1 DEF p
<1>5. Len(words) \in Nat /\ index \in Nat \ {0} /\ index <= Len(words) + 1
  BY <1>1
<1>6. start[p] \in Nat \ {0} /\ start[p] <= index
  BY <1>1, <1>4, <1>5
<1>7. Last \in Nat /\ Last + 1 = index
  BY <1>5 DEF Last
<1>8. \A i \in 1 .. Len(words) : IsWord(words[i])
  BY <1>1, ArgAssumption
<1>9. QED  BY <1>1, <1>2, <1>3, <1>4, <1>5, <1>6, <1>7, <1>8

-----------------------------------------------------------------------------
(* One more word.                                                          *)

\* The parser waits for a value, or has seen the end of options, as its
\* words say.
LEMMA ReadsAs ==
  ASSUME StateInv, LocalsInv
  PROVE  /\ awaiting # 0 <=> IsValue(Read, Args, Last)
         /\ optionsEnded <=> HasEnd(Read)
         /\ words[Last + 1] = Word
<1>1. awaiting # 0 <=> Awaited(Read, Args, Last) # {}
  BY DEF LocalsInv
<1>2. Last \in PlacesOf(Read, "option") <=> Last \in DOMAIN Read /\ Read[Last] = "option"
  BY DEF PlacesOf
<1>3. awaiting # 0 <=> IsValue(Read, Args, Last)
  BY <1>1, <1>2 DEF Awaited, IsValue
<1>4. optionsEnded <=> HasEnd(Read)
  BY DEF LocalsInv, HasEnd, PlacesOf
<1>5. Last + 1 = index
  BY Running
<1>6. QED  BY <1>3, <1>4, <1>5 DEF Word

\* A word that is read is the next of the reading, and what is said of the
\* reading changes by this word.
LEMMA WordRead ==
  ASSUME StateInv, LocalsInv, index <= Len(words), NEW role \in Roles,
         Continues(Read, Args, Last, role),
         index' = index + 1, UNCHANGED <<chain, words, start>>
  PROVE  LET s == On(Read, start[p], Last, role)
             Places(x) == PlacesOf(Read, x) \union (IF x = role THEN {index} ELSE {})
         IN /\ p' = p /\ Args' = Args /\ Last' = index /\ (MoreFollow' <=> MoreFollow)
            /\ Read' = s /\ s \in [start[p] .. index -> Roles] /\ IsReading(s, Args)
            /\ \A x : PlacesOf(s, x) = Places(x)
            /\ Cardinality(Places("positional")) =
                 Cardinality(PlacesOf(Read, "positional")) + IF role = "positional" THEN 1 ELSE 0
<1> DEFINE r == Read
           Places(x) == PlacesOf(r, x) \union (IF x = role THEN {index} ELSE {})
<1>1. /\ start[p] \in Nat /\ Last \in Nat /\ Last + 1 = index /\ start[p] <= Last + 1
      /\ index \in Nat
  BY Running
<1>2. PICK a \in Nat, b \in Nat : a = start[p] /\ b = Last
  BY <1>1
<1>3. /\ r \in [a .. b -> Roles] /\ IsReading(r, Args) /\ a <= b + 1 /\ b + 1 = index
      /\ Continues(r, Args, b, role)
  BY <1>1, <1>2 DEF LocalsInv
<1> DEFINE s == On(r, a, b, role)
<1> HIDE DEF r
<1>4. p' = p /\ Args' = Args /\ Last' = index /\ (MoreFollow' <=> MoreFollow)
  <2>1. p' = p
    BY DEF p
  <2>2. Args' = Args /\ (MoreFollow' <=> MoreFollow)
    BY <2>1 DEF Args, MoreFollow
  <2>3. Last' = index
    BY <1>1 DEF Last
  <2>4. QED  BY <2>1, <2>2, <2>3
<1>5. /\ s \in [a .. b + 1 -> Roles] /\ IsReading(s, Args)
      /\ Reading(Args, a, b + 1) = s
  BY <1>3, ReadsOn
<1>6. Read' = s
  <2>1. Reading(Args, start[p], Last)' = Reading(Args, start[p], index)
    BY <1>4, SameWords
  <2>2. Reading(Args, start[p], index) = s
    BY <1>2, <1>3, <1>5
  <2> HIDE DEF s
  <2>3. QED  BY <2>1, <2>2 DEF Read
<1>7. \A x : PlacesOf(s, x) = Places(x)
  <2>1. \A x : PlacesOf(s, x) = IF x = role THEN PlacesOf(r, x) \union {b + 1} ELSE PlacesOf(r, x)
    BY <1>3, PlacesOn
  <2> HIDE DEF s
  <2>2. QED  BY <2>1, <1>3
<1>8. Cardinality(Places("positional")) =
        Cardinality(PlacesOf(r, "positional")) + IF role = "positional" THEN 1 ELSE 0
  <2>1. CASE role = "positional"
    <3>1. Cardinality(PlacesOf(s, "positional")) = Cardinality(PlacesOf(r, "positional")) + 1
      BY <1>3, <2>1, RankOn
    <3> HIDE DEF s
    <3>2. QED  BY <3>1, <1>7, <2>1
  <2>2. CASE role # "positional"
    <3>1. "positional" \in Roles
      BY DEF Roles
    <3>2. Cardinality(PlacesOf(r, "positional")) \in Nat
      BY <1>3, <3>1, RankOn
    <3>3. Places("positional") = PlacesOf(r, "positional")
      BY <2>2
    <3> HIDE DEF Places
    <3>4. QED  BY <3>2, <3>3, <2>2
  <2>3. QED  BY <2>1, <2>2
<1>9. s = On(Read, start[p], Last, role) /\ r = Read
  BY <1>2 DEF r
<1>10. s \in [start[p] .. index -> Roles]
  BY <1>2, <1>3, <1>5
<1> HIDE DEF s
<1>11. QED  BY <1>4, <1>5, <1>6, <1>7, <1>8, <1>9, <1>10

\* The locals follow.
LEMMA LocalsFollow ==
  ASSUME StateInv, LocalsInv, index <= Len(words), NEW role \in Roles,
         Continues(Read, Args, Last, role),
         index' = index + 1, UNCHANGED <<chain, words, start>>,
         NEW named, named = IF role = "option" THEN Mentions(Args, index) ELSE {},
         NEW takes, takes = IF role = "option" THEN Takes(Args, Word) ELSE {},
         IF awaiting' = 0 THEN takes = {} ELSE awaiting' \in takes,
         optionsEnded' <=> optionsEnded \/ role = "end",
         posIndex' = posIndex + IF role = "positional" THEN 1 ELSE 0,
         longSeen' = longSeen \union {Args[i].long : i \in named},
         shortSeen' = shortSeen \union ({Args[i].short : i \in named} \ {NoShort})
  PROVE  LocalsInv'
<1> DEFINE r == Read
           s == On(r, start[p], Last, role)
           Places(x) == PlacesOf(r, x) \union (IF x = role THEN {index} ELSE {})
<1>1. /\ p' = p /\ Args' = Args /\ Last' = index
      /\ Read' = s /\ s \in [start[p] .. index -> Roles] /\ IsReading(s, Args)
      /\ \A x : PlacesOf(s, x) = Places(x)
      /\ Cardinality(Places("positional")) =
           Cardinality(PlacesOf(r, "positional")) + IF role = "positional" THEN 1 ELSE 0
  BY WordRead
<1> HIDE DEF r, s
<1>2. Mentioned(s, Args) = Mentioned(r, Args) \union named
  <2>1. PlacesOf(s, "option") = Places("option")
    BY <1>1
  <2>2. QED  BY <2>1 DEF Mentioned
<1>3. Awaited(s, Args, index) = takes
  <2>1. PlacesOf(s, "option") = Places("option") /\ index \notin PlacesOf(r, "option")
    <3>1. r \in [start[p] .. Last -> Roles] /\ Last + 1 = index /\ index \in Nat /\ start[p] \in Nat
      BY Running DEF LocalsInv, r
    <3>2. index \notin DOMAIN r
      <4>1. DOMAIN r = start[p] .. Last /\ Last \in Int
        BY <3>1 DEF Last
      <4>2. ~(index <= Last)
        BY <3>1, <4>1
      <4>3. QED  BY <3>1, <4>1, <4>2
    <3>3. QED  BY <3>2, <1>1 DEF PlacesOf
  <2>2. QED  BY <2>1 DEF Awaited, Word
<1>4. Mentioned(Read, Args)' = Mentioned(s, Args) /\ (IsReading(Read, Args)' <=> IsReading(s, Args))
  BY <1>1, SameWords
<1>5. Awaited(Read, Args, Last)' = Awaited(s, Args, index)
  BY <1>1 DEF Awaited
<1>6. (Read \in [start[p] .. Last -> Roles] /\ IsReading(Read, Args))'
  BY <1>1, <1>4
<1>7. IF awaiting' = 0 THEN Awaited(Read, Args, Last)' = {} ELSE awaiting' \in Awaited(Read, Args, Last)'
  BY <1>3, <1>5
<1>8. /\ (optionsEnded <=> PlacesOf(r, "end") # {})
      /\ posIndex = Cardinality(PlacesOf(r, "positional"))
      /\ longSeen = {Args[i].long : i \in Mentioned(r, Args)}
      /\ shortSeen = {Args[i].short : i \in Mentioned(r, Args)} \ {NoShort}
  BY DEF LocalsInv, r
<1>9. optionsEnded' <=> PlacesOf(Read', "end") # {}
  <2>1. PlacesOf(s, "end") = Places("end")
    BY <1>1
  <2>2. PlacesOf(s, "end") # {} <=> PlacesOf(r, "end") # {} \/ role = "end"
    BY <2>1
  <2>3. QED  BY <2>2, <1>1, <1>8
<1>10. posIndex' = Cardinality(PlacesOf(Read', "positional"))
  <2>1. PlacesOf(s, "positional") = Places("positional")
    BY <1>1
  <2>2. QED  BY <2>1, <1>1, <1>8
<1>11. longSeen' = {Args'[i].long : i \in Mentioned(Read, Args)'}
  BY <1>1, <1>2, <1>4, <1>8
<1>12. shortSeen' = {Args'[i].short : i \in Mentioned(Read, Args)'} \ {NoShort}
  BY <1>1, <1>2, <1>4, <1>8
<1>13. QED  BY <1>6, <1>7, <1>9, <1>10, <1>11, <1>12 DEF LocalsInv

\* What the arguments are given follows.
LEMMA GivenFollows ==
  ASSUME StateInv, LocalsInv, index <= Len(words), NEW role \in Roles,
         Continues(Read, Args, Last, role),
         index' = index + 1, UNCHANGED <<chain, words, start>>,
         NEW c \in DOMAIN Args
  PROVE  LET pos == Positionals(Args)
             value == role = "value" /\ c \in Takes(Args, words[Last])
             set == role = "option" /\ c \in SetBy(Args, index)
             place == role = "positional" /\ posIndex + 1 <= Len(pos) /\ pos[posIndex + 1] = c
         IN /\ value \/ place => Given(Read, Args, c)' = index
            /\ set => Given(Read, Args, c)' = 1
            /\ ~value /\ ~set /\ ~place => Given(Read, Args, c)' = Given(Read, Args, c)
<1> DEFINE r == Read
<1>1. /\ start[p] \in Nat \ {0} /\ Last \in Nat /\ Last + 1 = index /\ start[p] <= Last + 1
      /\ IsParser(Args) /\ index \in Nat /\ Len(words) \in Nat
      /\ \A i \in 1 .. Len(words) : IsWord(words[i])
  BY Running
<1>2. PICK a \in Nat, b \in Nat : a = start[p] /\ b = Last
  BY <1>1
<1> DEFINE s == On(r, a, b, role)
<1>3. /\ r \in [a .. b -> Roles] /\ a <= b + 1 /\ b + 1 = index
      /\ \A i \in a .. b + 1 : IsWord(words[i])
  BY <1>1, <1>2 DEF LocalsInv
<1>4. Read' = s /\ IsReading(s, Args) /\ Args' = Args
  <2>1. s = On(Read, start[p], Last, role)
    BY <1>2
  <2>2. QED  BY <2>1, WordRead
<1>5. posIndex = Cardinality(PlacesOf(r, "positional"))
  BY DEF LocalsInv
<1>6. Given(Read, Args, c)' = Given(s, Args, c)
  BY <1>4, SameWords
<1> HIDE DEF r
<1> DEFINE value == role = "value" /\ c \in Takes(Args, words[b])
           set == role = "option" /\ c \in SetBy(Args, b + 1)
           place == role = "positional" /\ HasTurn(r, Args, c)
<1>7. /\ value \/ place => Given(s, Args, c) = b + 1
      /\ set => Given(s, Args, c) = 1
      /\ ~value /\ ~set /\ ~place => Given(s, Args, c) = Given(r, Args, c)
  BY <1>1, <1>3, <1>4, GivenOn
<1> HIDE DEF s
<1>8. HasTurn(r, Args, c) <=>
        posIndex + 1 <= Len(Positionals(Args)) /\ Positionals(Args)[posIndex + 1] = c
  BY <1>5 DEF HasTurn
<1>9. b + 1 = index /\ b = Last /\ r = Read
  BY <1>2, <1>3 DEF r
<1>10. QED  BY <1>6, <1>7, <1>8, <1>9

\* The error in the loop follows.
LEMMA ErrorFollows ==
  ASSUME StateInv, LocalsInv, LoopErrors, index <= Len(words), pc = "loop", NEW role \in Roles,
         Continues(Read, Args, Last, role),
         index' = index + 1, UNCHANGED <<chain, words, start, pc>>,
         LET option == role = "option"
         IN /\ option /\ IsUnknown(Args, index) => err'[p] = "unknown"
            /\ option /\ ~IsUnknown(Args, index) /\ IsCombined(Args, index) => err'[p] = "combined"
            /\ ~option \/ (~IsUnknown(Args, index) /\ ~IsCombined(Args, index)) => err'[p] = err[p]
  PROVE  LoopErrors'
<1> DEFINE r == Read
           options == PlacesOf(r, "option")
           all == options \union (IF role = "option" THEN {index} ELSE {})
<1>1. /\ p' = p /\ Args' = Args /\ PlacesOf(Read', "option") = all
  <2>1. /\ p' = p /\ Args' = Args /\ Read' = On(Read, start[p], Last, role)
        /\ PlacesOf(On(Read, start[p], Last, role), "option") = all
    BY WordRead, Zenon
  <2>2. QED  BY <2>1
<1>2. \A i : (IsUnknown(Args, i)' <=> IsUnknown(Args, i)) /\ (IsCombined(Args, i)' <=> IsCombined(Args, i))
  BY <1>1, SameWords
<1>3. /\ err[p] \in {"", "unknown", "combined"}
      /\ err[p] = "unknown" => \E i \in options : IsUnknown(Args, i)
      /\ err[p] = "combined" => \E i \in options : IsCombined(Args, i)
      /\ err[p] = "" => \A i \in options : ~IsUnknown(Args, i) /\ ~IsCombined(Args, i)
  BY DEF LoopErrors
<1> HIDE DEF r, options
<1>4. /\ err'[p] \in {"", "unknown", "combined"}
      /\ err'[p] = "unknown" => \E i \in all : IsUnknown(Args, i)
      /\ err'[p] = "combined" => \E i \in all : IsCombined(Args, i)
      /\ err'[p] = "" => \A i \in all : ~IsUnknown(Args, i) /\ ~IsCombined(Args, i)
  <2>1. CASE role = "option"
    <3>1. \A i : i \in all <=> i \in options \/ i = index
      BY <2>1
    <3> HIDE DEF all
    <3>2. QED  BY <2>1, <3>1, <1>3
  <2>2. CASE role # "option"
    <3>1. all = options
      BY <2>2
    <3> HIDE DEF all
    <3>2. QED  BY <2>2, <3>1, <1>3
  <2>3. QED  BY <2>1, <2>2
<1> HIDE DEF all
<1>5. QED  BY <1>1, <1>2, <1>4 DEF LoopErrors

\* The other parsers, and the types, when only this one's results change.
LEMMA StateFollows ==
  ASSUME StateInv, NextInv, index <= Len(words),
         index' = index + 1, UNCHANGED <<chain, words, start, pc>>,
         NEW f \in [DOMAIN Args -> 0 .. Len(words)], dst' = [dst EXCEPT ![p] = f],
         err' = [err EXCEPT ![p] = err'[p]],
         err'[p] \in Errors,
         posIndex' \in 0 .. Len(Positionals(Args)),
         awaiting' \in {0} \union {i \in DOMAIN Args : ~IsFlag(Args, i)},
         optionsEnded' \in BOOLEAN, lastArg' \in BOOLEAN
  PROVE  StateInv' /\ NextInv'
<1>1. p' = p /\ Args' = Args /\ p \in DOMAIN chain /\ Args = chain[p]
  <2>1. p' = p
    BY DEF p
  <2>2. QED  BY <2>1, Running DEF Args
<1>2. TypeOK'
  <2>1. chain' \in Chains /\ p' \in DOMAIN chain' /\ pc' \in {"loop", "finished", "thrown"}
    BY <1>1 DEF StateInv, TypeOK
  <2>2. index' \in 1 .. Len(words') + 1 /\ \A q \in DOMAIN start' : start'[q] \in 1 .. index'
    <3>1. index \in Nat \ {0} /\ Len(words) \in Nat
      BY Running
    <3>2. \A q \in DOMAIN start : start[q] \in 1 .. index
      BY DEF StateInv, TypeOK
    <3>3. words' = words /\ start' = start
      OBVIOUS
    <3>4. index + 1 \in 1 .. Len(words) + 1 /\ \A q \in DOMAIN start : start[q] \in 1 .. index + 1
      BY <3>1, <3>2
    <3>5. QED  BY <3>3, <3>4
  <2>3. \A q \in DOMAIN chain : \A i \in DOMAIN chain[q] : dst'[q][i] \in 0 .. Len(words)
    <3>1. \A q \in DOMAIN chain : \A i \in DOMAIN chain[q] : dst[q][i] \in 0 .. Len(words)
      BY DEF StateInv, TypeOK
    <3>2. DOMAIN dst = DOMAIN chain
      BY DEF StateInv
    <3>3. \A q \in DOMAIN chain : q # p => dst'[q] = dst[q]
      BY <3>2
    <3>4. dst'[p] = f
      BY <3>2, <1>1
    <3>5. QED  BY <3>1, <3>3, <3>4, <1>1
  <2>4. \A q \in DOMAIN chain : err'[q] \in Errors
    <3>1. \A q \in DOMAIN chain : err[q] \in Errors
      BY DEF StateInv, TypeOK
    <3>2. DOMAIN err = DOMAIN chain
      BY DEF StateInv
    <3>3. QED  BY <3>1, <3>2
  <2>5. /\ posIndex' \in 0 .. Len(Positionals(Args'))
        /\ awaiting' \in {0} \union {i \in DOMAIN Args' : ~IsFlag(Args', i)}
    BY <1>1
  <2>6. QED  BY <2>1, <2>2, <2>3, <2>4, <2>5 DEF TypeOK
<1>3. /\ words' \in Seq(Words) /\ start' \in Seq(Nat) /\ start' # <<>>
  BY DEF StateInv
<1>4. err' = [q \in DOMAIN chain' |-> err'[q]]
  <2>1. err = [q \in DOMAIN chain |-> err[q]]
    BY DEF StateInv
  <2>2. QED  BY <2>1
<1>5. dst' = [q \in DOMAIN chain' |-> [i \in DOMAIN chain'[q] |-> dst'[q][i]]]
  <2>1. /\ dst = [q \in DOMAIN chain |-> dst[q]]
        /\ \A q \in DOMAIN chain : dst[q] = [i \in DOMAIN chain[q] |-> dst[q][i]]
    BY DEF StateInv
  <2>2. dst' = [q \in DOMAIN chain |-> dst'[q]]
    BY <2>1
  <2>3. \A q \in DOMAIN chain : dst'[q] = [i \in DOMAIN chain[q] |-> dst'[q][i]]
    <3>1. \A q \in DOMAIN chain : q # p => dst'[q] = dst[q]
      BY <2>1
    <3>2. dst'[p] = f /\ f = [i \in DOMAIN chain[p] |-> f[i]]
      BY <2>1, <1>1
    <3>3. \A q \in DOMAIN chain : q = p => dst'[q] = [i \in DOMAIN chain[q] |-> dst'[q][i]]
      BY <3>2
    <3>4. QED  BY <2>1, <3>1, <3>3
  <2>4. QED  BY <2>2, <2>3
<1>6. NextInv'
  <2>1. \A q \in DOMAIN chain : q > p => q # p
    <3>1. p \in Nat
      BY Running
    <3>2. ~(p > p)
      BY <3>1
    <3>3. QED  BY <3>2
  <2>2. \A q \in DOMAIN chain : q # p => err'[q] = err[q] /\ dst'[q] = dst[q]
    BY DEF StateInv
  <2>3. \A q \in DOMAIN chain : q > p => err'[q] = "" /\ \A i \in DOMAIN chain[q] : dst'[q][i] = 0
    BY <2>1, <2>2 DEF NextInv
  <2>4. p' = p /\ chain' = chain
    BY <1>1
  <2>5. QED  BY <2>3, <2>4 DEF NextInv
<1>7. QED  BY <1>2, <1>3, <1>4, <1>5, <1>6 DEF StateInv

\* What the word at index, read as role, does to argument c.
Gives(role, c) ==
  \/ role = "value" /\ c \in Takes(Args, words[Last])
  \/ role = "positional" /\ posIndex + 1 <= Len(Positionals(Args)) /\ Positionals(Args)[posIndex + 1] = c
Sets(role, c) == role = "option" /\ c \in SetBy(Args, index)

\* The destinations follow.
LEMMA AssignedFollows ==
  ASSUME StateInv, LocalsInv, AssignedAsRead, index <= Len(words), NEW role \in Roles,
         Continues(Read, Args, Last, role),
         index' = index + 1, UNCHANGED <<chain, words, start>>,
         NEW f, dst' = [dst EXCEPT ![p] = f],
         \A c \in DOMAIN Args :
           f[c] = IF Gives(role, c) THEN index ELSE IF Sets(role, c) THEN 1 ELSE dst[p][c]
  PROVE  AssignedAsRead'
<1>1. p' = p /\ Args' = Args
  BY WordRead, Zenon
<1>2. dst'[p] = f
  <2>1. p \in DOMAIN chain
    BY Running
  <2>2. QED  BY <2>1 DEF StateInv
<1>3. ASSUME NEW c \in DOMAIN Args
      PROVE  f[c] = Given(Read, Args, c)'
  <2>1. /\ Gives(role, c) => Given(Read, Args, c)' = index
        /\ Sets(role, c) => Given(Read, Args, c)' = 1
        /\ ~Gives(role, c) /\ ~Sets(role, c) => Given(Read, Args, c)' = Given(Read, Args, c)
    BY GivenFollows DEF Gives, Sets
  <2>2. dst[p][c] = Given(Read, Args, c)
    BY DEF AssignedAsRead
  <2>3. f[c] = IF Gives(role, c) THEN index ELSE IF Sets(role, c) THEN 1 ELSE dst[p][c]
    OBVIOUS
  <2>4. QED  BY <2>1, <2>2, <2>3
<1>4. \A c \in DOMAIN Args' : dst'[p'][c] = Given(Read, Args, c)'
  BY <1>1, <1>2, <1>3
<1>5. QED  BY <1>4 DEF AssignedAsRead

\* Where the loop stops follows.
LEMMA StopFollows ==
  ASSUME StateInv, LocalsInv, index <= Len(words), pc = "loop", NEW role \in Roles,
         Continues(Read, Args, Last, role),
         index' = index + 1, UNCHANGED <<chain, words, start, pc>>,
         IF lastArg' THEN MoreFollow /\ posIndex' = Len(Positionals(Args)) /\ role = "positional"
         ELSE MoreFollow => posIndex' < Len(Positionals(Args)) \/ posIndex' = 0
  PROVE  StopInv'
<1> DEFINE s == On(Read, start[p], Last, role)
<1>1. /\ p' = p /\ Args' = Args /\ Last' = index /\ (MoreFollow' <=> MoreFollow) /\ Read' = s
      /\ PlacesOf(s, "positional") =
           PlacesOf(Read, "positional") \union (IF "positional" = role THEN {index} ELSE {})
  BY WordRead
<1> HIDE DEF s
<1>2. pc' # "finished"
  OBVIOUS
<1>3. lastArg' => index \in PlacesOf(s, "positional")
  BY <1>1
<1>4. /\ IF lastArg' THEN MoreFollow' /\ posIndex' = Len(Positionals(Args')) /\ Last' \in PlacesOf(Read', "positional")
         ELSE MoreFollow' => posIndex' < Len(Positionals(Args')) \/ posIndex' = 0
  BY <1>1, <1>3
<1>5. QED  BY <1>2, <1>4 DEF StopInv

\* A word that is read as what it is keeps the invariant, if the step does
\* with it what is done with such a word.
LEMMA WordKeeps ==
  ASSUME ArgInv, InLoop, NEW role \in Roles, Continues(Read, Args, Last, role),
         index' = index + 1, UNCHANGED <<chain, words, start, pc>>,
         NEW named, named = IF role = "option" THEN Mentions(Args, index) ELSE {},
         NEW takes, takes = IF role = "option" THEN Takes(Args, Word) ELSE {},
         IF awaiting' = 0 THEN takes = {} ELSE awaiting' \in takes,
         optionsEnded' = (optionsEnded \/ role = "end"),
         posIndex' = posIndex + IF role = "positional" THEN 1 ELSE 0,
         posIndex' <= Len(Positionals(Args)),
         lastArg' = (role = "positional" /\ MoreFollow /\ posIndex' = Len(Positionals(Args))),
         longSeen' = longSeen \union {Args[i].long : i \in named},
         shortSeen' = shortSeen \union ({Args[i].short : i \in named} \ {NoShort}),
         NEW f, dst' = [dst EXCEPT ![p] = f], DOMAIN f = DOMAIN Args, f = [c \in DOMAIN f |-> f[c]],
         \A c \in DOMAIN Args :
           f[c] = IF Gives(role, c) THEN index ELSE IF Sets(role, c) THEN 1 ELSE dst[p][c],
         NEW e \in Errors, err' = [err EXCEPT ![p] = e],
         e = IF role = "option" /\ IsUnknown(Args, index) THEN "unknown"
             ELSE IF role = "option" /\ IsCombined(Args, index) THEN "combined" ELSE err[p]
  PROVE  ArgInv'
<1>1. StateInv /\ LocalsInv /\ AssignedAsRead /\ StopInv /\ LoopErrors /\ NextInv /\ pc = "loop"
      /\ index <= Len(words) /\ ~lastArg
  BY DEF ArgInv, InLoop
<1>2. /\ IsParser(Args) /\ index \in Nat \ {0} /\ Len(words) \in Nat /\ p \in DOMAIN chain /\ Args = chain[p]
  BY <1>1, Running DEF Args
<1>3. /\ posIndex \in 0 .. Len(Positionals(Args)) /\ optionsEnded \in BOOLEAN
      /\ DOMAIN err = DOMAIN chain
      /\ \A c \in DOMAIN Args : dst[p][c] \in 0 .. Len(words)
  BY <1>1, <1>2 DEF StateInv, TypeOK
<1>4. err'[p] = e /\ err' = [err EXCEPT ![p] = err'[p]]
  BY <1>2, <1>3
<1>5. LocalsInv'
  BY <1>1, LocalsFollow
<1>6. AssignedAsRead'
  BY <1>1, AssignedFollows
<1>7. LoopErrors'
  <2>1. e = (IF role = "option" /\ IsUnknown(Args, index) THEN "unknown"
             ELSE IF role = "option" /\ IsCombined(Args, index) THEN "combined" ELSE err[p])
    OBVIOUS
  <2>2. LET option == role = "option"
        IN /\ option /\ IsUnknown(Args, index) => err'[p] = "unknown"
           /\ option /\ ~IsUnknown(Args, index) /\ IsCombined(Args, index) => err'[p] = "combined"
           /\ ~option \/ (~IsUnknown(Args, index) /\ ~IsCombined(Args, index)) => err'[p] = err[p]
    BY <2>1, <1>4
  <2>3. QED  BY <1>1, <2>2, ErrorFollows
<1>8. StopInv'
  <2>1. MoreFollow => posIndex < Len(Positionals(Args)) \/ posIndex = 0
    BY <1>1 DEF StopInv
  <2>2. Len(Positionals(Args)) \in Nat
    BY <1>2, PositionalsAre
  <2>3. IF lastArg' THEN MoreFollow /\ posIndex' = Len(Positionals(Args)) /\ role = "positional"
        ELSE MoreFollow => posIndex' < Len(Positionals(Args)) \/ posIndex' = 0
    <3>1. CASE role = "positional"
      <4>1. posIndex' = posIndex + 1 /\ posIndex' <= Len(Positionals(Args))
        BY <3>1
      <4>2. lastArg' <=> MoreFollow /\ posIndex' = Len(Positionals(Args))
        BY <3>1, Zenon
      <4>3. posIndex' # Len(Positionals(Args)) => posIndex' < Len(Positionals(Args))
        BY <4>1, <2>2, <1>3
      <4>4. QED  BY <3>1, <4>2, <4>3, Zenon
    <3>2. CASE role # "positional"
      <4>1. posIndex' = posIndex + 0
        BY <3>2
      <4>2. posIndex' = posIndex
        BY <4>1, <1>3
      <4>3. ~lastArg'
        BY <3>2, Zenon
      <4>4. QED  BY <4>2, <4>3, <2>1, Zenon
    <3>3. QED  BY <3>1, <3>2
  <2>4. QED  BY <1>1, <2>3, StopFollows
<1>9. StateInv' /\ NextInv'
  <2>1. f \in [DOMAIN Args -> 0 .. Len(words)]
    <3>1. index \in 0 .. Len(words) /\ 1 \in 0 .. Len(words)
      BY <1>1, <1>2
    <3>2. \A c \in DOMAIN Args : f[c] \in 0 .. Len(words)
      BY <3>1, <1>3
    <3>3. QED  BY <3>2
  <2>2. posIndex' \in 0 .. Len(Positionals(Args))
    <3>1. Len(Positionals(Args)) \in Nat
      BY <1>2, PositionalsAre
    <3>2. QED  BY <3>1, <1>3
  <2>3. awaiting' \in {0} \union {i \in DOMAIN Args : ~IsFlag(Args, i)}
    BY <1>2, TakesIsOne
  <2>4. optionsEnded' \in BOOLEAN /\ lastArg' \in BOOLEAN
    BY <1>3
  <2>5. err'[p] \in Errors
    BY <1>4
  <2>6. QED  BY <1>1, <1>4, <2>1, <2>2, <2>3, <2>4, <2>5, StateFollows
<1>10. QED  BY <1>5, <1>6, <1>7, <1>8, <1>9 DEF ArgInv

\* What any word that is read as role does.
Names(role) == IF role = "option" THEN Mentions(Args, index) ELSE {}
Waits(role) == IF role = "option" THEN Takes(Args, Word) ELSE {}
Results(role) ==
  [c \in DOMAIN Args |-> IF Gives(role, c) THEN index ELSE IF Sets(role, c) THEN 1 ELSE dst[p][c]]
Says(role) ==
  IF role = "option" /\ IsUnknown(Args, index) THEN "unknown"
  ELSE IF role = "option" /\ IsCombined(Args, index) THEN "combined" ELSE err[p]
Obey(role) ==
  /\ index' = index + 1 /\ UNCHANGED <<chain, words, start, pc>>
  /\ IF awaiting' = 0 THEN Waits(role) = {} ELSE awaiting' \in Waits(role)
  /\ optionsEnded' = (optionsEnded \/ role = "end")
  /\ posIndex' = posIndex + IF role = "positional" THEN 1 ELSE 0
  /\ posIndex' <= Len(Positionals(Args))
  /\ lastArg' = (role = "positional" /\ MoreFollow /\ posIndex' = Len(Positionals(Args)))
  /\ longSeen' = longSeen \union {Args[i].long : i \in Names(role)}
  /\ shortSeen' = shortSeen \union ({Args[i].short : i \in Names(role)} \ {NoShort})
  /\ dst' = [dst EXCEPT ![p] = Results(role)]
  /\ err' = [err EXCEPT ![p] = Says(role)]

\* It keeps the invariant.
LEMMA ObeyKeeps ==
  ASSUME ArgInv, InLoop, NEW role \in Roles, Continues(Read, Args, Last, role), Obey(role)
  PROVE  ArgInv'
<1>1. PICK named, takes, f, e :
        named = Names(role) /\ takes = Waits(role) /\ f = Results(role) /\ e = Says(role)
  OBVIOUS
<1>2. /\ index' = index + 1 /\ UNCHANGED <<chain, words, start, pc>>
      /\ IF awaiting' = 0 THEN takes = {} ELSE awaiting' \in takes
      /\ optionsEnded' = (optionsEnded \/ role = "end")
      /\ posIndex' = posIndex + IF role = "positional" THEN 1 ELSE 0
      /\ posIndex' <= Len(Positionals(Args))
      /\ lastArg' = (role = "positional" /\ MoreFollow /\ posIndex' = Len(Positionals(Args)))
      /\ longSeen' = longSeen \union {Args[i].long : i \in named}
      /\ shortSeen' = shortSeen \union ({Args[i].short : i \in named} \ {NoShort})
      /\ dst' = [dst EXCEPT ![p] = f]
      /\ err' = [err EXCEPT ![p] = e]
  BY <1>1 DEF Obey
<1>3. /\ named = IF role = "option" THEN Mentions(Args, index) ELSE {}
      /\ takes = IF role = "option" THEN Takes(Args, Word) ELSE {}
  BY <1>1 DEF Names, Waits
<1>4. /\ DOMAIN f = DOMAIN Args /\ f = [c \in DOMAIN f |-> f[c]]
      /\ \A c \in DOMAIN Args :
           f[c] = IF Gives(role, c) THEN index ELSE IF Sets(role, c) THEN 1 ELSE dst[p][c]
  BY <1>1 DEF Results
<1>5. e = IF role = "option" /\ IsUnknown(Args, index) THEN "unknown"
          ELSE IF role = "option" /\ IsCombined(Args, index) THEN "combined" ELSE err[p]
  BY <1>1 DEF Says
<1>6. e \in Errors
  <2>1. err[p] \in Errors
    BY Running DEF ArgInv, StateInv, TypeOK
  <2>2. QED  BY <2>1, <1>5 DEF Errors
<1>7. QED  BY <1>2, <1>3, <1>4, <1>5, <1>6, WordKeeps

-----------------------------------------------------------------------------
(* The actions.                                                            *)

\* The types of what a step of the loop leaves as it is.
LEMMA Kept ==
  ASSUME ArgInv, InLoop
  PROVE  /\ StateInv /\ LocalsInv /\ pc = "loop" /\ index <= Len(words) /\ ~lastArg
         /\ IsParser(Args) /\ p \in DOMAIN chain /\ index \in Nat
         /\ err = [err EXCEPT ![p] = err[p]]
         /\ dst = [dst EXCEPT ![p] = dst[p]] /\ dst[p] = [c \in DOMAIN Args |-> dst[p][c]]
         /\ DOMAIN dst = DOMAIN chain
         /\ posIndex \in Nat /\ posIndex <= Len(Positionals(Args)) /\ Len(Positionals(Args)) \in Nat
         /\ optionsEnded \in BOOLEAN /\ lastArg = FALSE
         /\ IsWord(Word)
<1>1. StateInv /\ LocalsInv /\ pc = "loop" /\ index <= Len(words) /\ ~lastArg
  BY DEF ArgInv, InLoop
<1>2. IsParser(Args) /\ p \in DOMAIN chain /\ index \in Nat /\ Args = chain[p] /\ IsWord(Word)
  BY <1>1, Running DEF Args, Word
<1>3. /\ err = [q \in DOMAIN chain |-> err[q]]
      /\ dst = [q \in DOMAIN chain |-> [i \in DOMAIN chain[q] |-> dst[q][i]]]
  BY <1>1 DEF StateInv
<1>4. err = [err EXCEPT ![p] = err[p]]
  BY <1>3
<1>5. DOMAIN dst = DOMAIN chain /\ dst[p] = [c \in DOMAIN Args |-> dst[p][c]]
  BY <1>3, <1>2
<1>6. dst = [dst EXCEPT ![p] = dst[p]]
  BY <1>3
<1>7. /\ posIndex \in Nat /\ posIndex <= Len(Positionals(Args)) /\ Len(Positionals(Args)) \in Nat
      /\ optionsEnded \in BOOLEAN /\ lastArg = FALSE
  <2>1. posIndex \in 0 .. Len(Positionals(Args)) /\ optionsEnded \in BOOLEAN /\ lastArg \in BOOLEAN
    BY <1>1 DEF StateInv, TypeOK
  <2>2. Len(Positionals(Args)) \in Nat
    BY <1>2, PositionalsAre
  <2>3. QED  BY <2>1, <2>2, <1>1
<1>8. QED  BY <1>1, <1>2, <1>4, <1>5, <1>6, <1>7

\* A word that is a value goes to the argument that waits for it.
LEMMA ReadValueKeeps ==
  ASSUME ArgInv, ReadValue
  PROVE  ArgInv'
<1>1. InLoop /\ awaiting # 0 /\ Advance /\ Give(awaiting) /\ awaiting' = 0
      /\ UNCHANGED <<posIndex, longSeen, shortSeen, optionsEnded, lastArg, err>>
  BY DEF ReadValue
<1> USE Kept
<1>2. "value" \in Roles /\ Continues(Read, Args, Last, "value")
  BY <1>1, ReadsAs DEF Continues, Roles
<1>3. awaiting \in Takes(Args, words[Last])
  BY <1>1 DEF LocalsInv, Awaited
<1>4. \A c : Gives("value", c) <=> c = awaiting
  BY <1>1, <1>3, TakesIsOne DEF Gives
<1>5. Results("value") = [dst[p] EXCEPT ![awaiting] = index]
  <2>1. Results("value") = [c \in DOMAIN Args |-> IF c = awaiting THEN index ELSE dst[p][c]]
    BY <1>4 DEF Results, Sets
  <2>2. QED  BY <2>1, <1>1
<1>6. dst' = [dst EXCEPT ![p] = Results("value")]
  BY <1>5, <1>1 DEF Give
<1>7. Names("value") = {} /\ Waits("value") = {} /\ Says("value") = err[p]
  BY DEF Names, Waits, Says
<1>8. Obey("value")
  <2>1. index' = index + 1 /\ UNCHANGED <<chain, words, start, pc>> /\ awaiting' = 0
    BY <1>1 DEF Advance
  <2>2. optionsEnded' = (optionsEnded \/ "value" = "end")
    BY <1>1, Zenon
  <2>3. lastArg' = ("value" = "positional" /\ MoreFollow /\ posIndex' = Len(Positionals(Args)))
    BY <1>1, Zenon
  <2>4. /\ posIndex' = posIndex + IF "value" = "positional" THEN 1 ELSE 0
        /\ posIndex' <= Len(Positionals(Args))
    BY <1>1
  <2>5. /\ longSeen' = longSeen \union {Args[i].long : i \in Names("value")}
        /\ shortSeen' = shortSeen \union ({Args[i].short : i \in Names("value")} \ {NoShort})
    BY <1>1, <1>7
  <2>6. err' = [err EXCEPT ![p] = Says("value")]
    BY <1>1, <1>7
  <2>7. QED  BY <2>1, <2>2, <2>3, <2>4, <2>5, <2>6, <1>6, <1>7 DEF Obey
<1>9. QED  BY <1>1, <1>2, <1>8, ObeyKeeps

\* A word among the positional ones goes to the next positional argument.
LEMMA ReadPositionalKeeps ==
  ASSUME ArgInv, ReadPositional
  PROVE  ArgInv'
<1> DEFINE a == Positionals(Args)[posIndex + 1]
<1>1. /\ AtPositional /\ posIndex < Len(Positionals(Args)) /\ Give(a) /\ posIndex' = posIndex + 1
      /\ lastArg' = (MoreFollow /\ posIndex' = Len(Positionals(Args))) /\ Advance
      /\ UNCHANGED <<longSeen, shortSeen, awaiting, optionsEnded, err>>
  BY DEF ReadPositional
<1>2. InLoop /\ awaiting = 0 /\ ReadAsPositional
  BY <1>1 DEF AtPositional
<1> USE Kept
<1>3. "positional" \in Roles /\ Continues(Read, Args, Last, "positional")
  BY <1>2, ReadsAs DEF Continues, Roles, ReadAsPositional
<1>4. \A c : Gives("positional", c) <=> c = a
  <2>1. posIndex + 1 <= Len(Positionals(Args))
    BY <1>1, <1>2
  <2>2. QED  BY <2>1 DEF Gives
<1> HIDE DEF a
<1>5. dst' = [dst EXCEPT ![p] = Results("positional")]
  <2>1. Results("positional") = [c \in DOMAIN Args |-> IF c = a THEN index ELSE dst[p][c]]
    BY <1>4 DEF Results, Sets
  <2>2. Results("positional") = [dst[p] EXCEPT ![a] = index]
    BY <2>1, <1>2
  <2>3. QED  BY <2>2, <1>1 DEF Give
<1>6. Names("positional") = {} /\ Waits("positional") = {} /\ Says("positional") = err[p]
  BY DEF Names, Waits, Says
<1>7. Obey("positional")
  <2>1. index' = index + 1 /\ UNCHANGED <<chain, words, start, pc>> /\ awaiting' = 0
    BY <1>1, <1>2 DEF Advance
  <2>2. optionsEnded' = (optionsEnded \/ "positional" = "end")
    <3>1. optionsEnded' = optionsEnded /\ "positional" # "end"
      BY <1>1
    <3>2. optionsEnded \in BOOLEAN
      BY <1>2
    <3>3. QED  BY <3>1, <3>2, Zenon
  <2>3. lastArg' = ("positional" = "positional" /\ MoreFollow /\ posIndex' = Len(Positionals(Args)))
    BY <1>1, Zenon
  <2>4. posIndex' = (posIndex + IF "positional" = "positional" THEN 1 ELSE 0) /\ posIndex' <= Len(Positionals(Args))
    BY <1>1, <1>2
  <2>5. /\ longSeen' = longSeen \union {Args[i].long : i \in Names("positional")}
        /\ shortSeen' = shortSeen \union ({Args[i].short : i \in Names("positional")} \ {NoShort})
    BY <1>1, <1>6
  <2>6. err' = [err EXCEPT ![p] = Says("positional")]
    BY <1>1, <1>2, <1>6
  <2>7. QED  BY <2>1, <2>2, <2>3, <2>4, <2>5, <2>6, <1>5, <1>6 DEF Obey
<1>8. QED  BY <1>2, <1>3, <1>7, ObeyKeeps

\* What the steps of a dashed word have in common.
LEMMA OptionFacts ==
  ASSUME ArgInv, NEW kind \in {"ends", "long", "short"}, AtOption(kind)
  PROVE  /\ InLoop /\ awaiting = 0 /\ ~optionsEnded /\ Word.kind = kind /\ words[index] = Word
         /\ kind = "ends" => "end" \in Roles /\ Continues(Read, Args, Last, "end")
         /\ kind # "ends" => "option" \in Roles /\ Continues(Read, Args, Last, "option")
<1>1. InLoop /\ awaiting = 0 /\ ~ReadAsPositional /\ Word.kind = kind
  BY DEF AtOption
<1>2. ~optionsEnded /\ Word.kind # "plain"
  BY <1>1 DEF ReadAsPositional
<1>3. ~IsValue(Read, Args, Last) /\ ~HasEnd(Read) /\ words[Last + 1] = Word
  BY <1>1, <1>2, Kept, ReadsAs
<1>4. QED  BY <1>1, <1>2, <1>3 DEF Continues, Roles, Word

\* The word that ends the options does only that.
LEMMA EndOptionsKeeps ==
  ASSUME ArgInv, EndOptions
  PROVE  ArgInv'
<1>1. /\ AtOption("ends") /\ optionsEnded' = TRUE /\ Advance
      /\ UNCHANGED <<posIndex, longSeen, shortSeen, awaiting, lastArg, err, dst>>
  BY DEF EndOptions
<1>2. InLoop /\ awaiting = 0 /\ "end" \in Roles /\ Continues(Read, Args, Last, "end")
  BY <1>1, OptionFacts
<1> USE Kept
<1>3. Results("end") = dst[p]
  <2>1. Results("end") = [c \in DOMAIN Args |-> dst[p][c]]
    BY DEF Results, Sets, Gives
  <2>2. QED  BY <2>1, <1>2
<1>4. Names("end") = {} /\ Waits("end") = {} /\ Says("end") = err[p]
  BY DEF Names, Waits, Says
<1>5. Obey("end")
  <2>1. index' = index + 1 /\ UNCHANGED <<chain, words, start, pc>> /\ awaiting' = 0
    BY <1>1, <1>2 DEF Advance
  <2>2. optionsEnded' = (optionsEnded \/ "end" = "end")
    BY <1>1, Zenon
  <2>3. lastArg' = ("end" = "positional" /\ MoreFollow /\ posIndex' = Len(Positionals(Args)))
    <3>1. lastArg' = FALSE
      BY <1>1, <1>2
    <3>2. QED  BY <3>1, Zenon
  <2>4. posIndex' = (posIndex + IF "end" = "positional" THEN 1 ELSE 0) /\ posIndex' <= Len(Positionals(Args))
    BY <1>1, <1>2
  <2>5. /\ longSeen' = longSeen \union {Args[i].long : i \in Names("end")}
        /\ shortSeen' = shortSeen \union ({Args[i].short : i \in Names("end")} \ {NoShort})
    BY <1>1, <1>4
  <2>6. err' = [err EXCEPT ![p] = Says("end")] /\ dst' = [dst EXCEPT ![p] = Results("end")]
    BY <1>1, <1>2, <1>3, <1>4
  <2>7. QED  BY <2>1, <2>2, <2>3, <2>4, <2>5, <2>6, <1>4 DEF Obey
<1>6. QED  BY <1>2, <1>5, ObeyKeeps

\* An option keeps the invariant, if its word counts what it names as
\* specified, sets its flags and lets its option wait.
LEMMA OptionObeys ==
  ASSUME ArgInv, InLoop, ~optionsEnded,
         Advance, UNCHANGED <<posIndex, optionsEnded, lastArg>>,
         Specified(Mentions(Args, index)), Trigger(SetBy(Args, index)),
         awaiting' \in IF Takes(Args, Word) = {} THEN {0} ELSE Takes(Args, Word),
         err' = IF Says("option") = err[p] THEN err ELSE [err EXCEPT ![p] = Says("option")]
  PROVE  Obey("option")
<1> USE Kept
<1>1. /\ Names("option") = Mentions(Args, index) /\ Waits("option") = Takes(Args, Word)
  BY DEF Names, Waits
<1>2. \A i \in Takes(Args, Word) : i # 0
  <2>1. DOMAIN Args = 1 .. Len(Args)
    BY DEF IsParser
  <2>2. QED  BY <2>1, TakesIsOne
<1>3. index' = index + 1 /\ UNCHANGED <<chain, words, start, pc>>
  BY DEF Advance
<1>4. optionsEnded' = (optionsEnded \/ "option" = "end")
  <2>1. optionsEnded' = optionsEnded /\ "option" # "end" /\ optionsEnded \in BOOLEAN
    OBVIOUS
  <2>2. QED  BY <2>1, Zenon
<1>5. lastArg' = ("option" = "positional" /\ MoreFollow /\ posIndex' = Len(Positionals(Args)))
  <2>1. lastArg' = FALSE
    OBVIOUS
  <2>2. QED  BY <2>1, Zenon
<1>6. posIndex' = (posIndex + IF "option" = "positional" THEN 1 ELSE 0) /\ posIndex' <= Len(Positionals(Args))
  OBVIOUS
<1>7. /\ longSeen' = longSeen \union {Args[i].long : i \in Names("option")}
      /\ shortSeen' = shortSeen \union ({Args[i].short : i \in Names("option")} \ {NoShort})
  BY <1>1 DEF Specified
<1>8. IF awaiting' = 0 THEN Waits("option") = {} ELSE awaiting' \in Waits("option")
  BY <1>1, <1>2
<1>9. dst' = [dst EXCEPT ![p] = Results("option")]
  <2>1. Results("option") = [c \in DOMAIN Args |-> IF c \in SetBy(Args, index) THEN 1 ELSE dst[p][c]]
    BY DEF Results, Gives, Sets
  <2>2. QED  BY <2>1 DEF Trigger
<1>10. err' = [err EXCEPT ![p] = Says("option")]
  <2> DEFINE e == Says("option")
  <2> HIDE DEF e
  <2>1. err' = IF e = err[p] THEN err ELSE [err EXCEPT ![p] = e]
    BY DEF e
  <2>2. err = [err EXCEPT ![p] = err[p]]
    OBVIOUS
  <2>3. err' = [err EXCEPT ![p] = e]
    BY <2>1, <2>2
  <2>4. QED  BY <2>3 DEF e
<1>11. QED  BY <1>3, <1>4, <1>5, <1>6, <1>7, <1>8, <1>9, <1>10 DEF Obey

\* An option given by its long name.
LEMMA ReadLongKeeps ==
  ASSUME ArgInv, ReadLong
  PROVE  ArgInv'
<1> DEFINE option == ByLong(Args, Word.name)
           flag == {i \in option : IsFlag(Args, i)}
<1>1. /\ AtOption("long") /\ Specified(option) /\ Trigger(flag)
      /\ awaiting' \in (IF option = flag THEN {0} ELSE option)
      /\ err' = (IF option = {} THEN [err EXCEPT ![p] = "unknown"] ELSE err)
      /\ Advance /\ UNCHANGED <<posIndex, optionsEnded, lastArg>>
  BY DEF ReadLong
<1>2. /\ InLoop /\ ~optionsEnded /\ Word.kind = "long" /\ words[index] = Word
      /\ "option" \in Roles /\ Continues(Read, Args, Last, "option")
  BY <1>1, OptionFacts
<1>3. IsParser(Args) /\ err = [err EXCEPT ![p] = err[p]]
  BY <1>2, Kept
<1>4. /\ Mentions(Args, index) = option /\ SetBy(Args, index) = flag
      /\ Takes(Args, Word) = {i \in option : ~IsFlag(Args, i)}
      /\ IsUnknown(Args, index) <=> option = {}
      /\ ~IsCombined(Args, index)
  BY <1>2 DEF Mentions, SetBy, Takes, IsUnknown, IsCombined
<1>5. \A i, j \in option : i = j
  BY <1>3, NamedIsOne DEF ByLong
<1>6. awaiting' \in IF Takes(Args, Word) = {} THEN {0} ELSE Takes(Args, Word)
  <2>1. option = flag <=> Takes(Args, Word) = {}
    BY <1>4
  <2>2. Takes(Args, Word) # {} => Takes(Args, Word) = option
    BY <1>4, <1>5
  <2>3. QED  BY <2>1, <2>2, <1>1
<1>7. Says("option") = IF option = {} THEN "unknown" ELSE err[p]
  BY <1>4 DEF Says
<1> HIDE DEF option, flag
<1>8. err' = IF Says("option") = err[p] THEN err ELSE [err EXCEPT ![p] = Says("option")]
  <2>1. CASE option = {}
    <3>1. Says("option") = "unknown" /\ err' = [err EXCEPT ![p] = "unknown"]
      BY <2>1, <1>1, <1>7
    <3>2. QED  BY <3>1, <1>3
  <2>2. CASE option # {}
    BY <2>2, <1>1, <1>7
  <2>3. QED  BY <2>1, <2>2
<1>9. Specified(Mentions(Args, index)) /\ Trigger(SetBy(Args, index))
  BY <1>1, <1>4
<1>10. Obey("option")
  BY <1>1, <1>2, <1>6, <1>8, <1>9, OptionObeys
<1>11. QED  BY <1>2, <1>10, ObeyKeeps

\* Options given by their letters.
LEMMA ReadShortKeeps ==
  ASSUME ArgInv, ReadShort
  PROVE  ArgInv'
<1> DEFINE valued == StopsAt(Args, Word)
           alone == Len(Word.letters) = 1
           awaited == IF alone THEN valued ELSE {}
           error == CASE Unknown(Args, Word) -> "unknown"
                      [] valued # {} /\ ~alone -> "combined"
                      [] OTHER -> ""
<1>1. ReadLetters(awaited, error)
  BY DEF ReadShort
<1>2. /\ AtOption("short") /\ Specified(Flags(Args, Word) \union valued) /\ Trigger(Flags(Args, Word))
      /\ awaiting' \in (IF awaited = {} THEN {0} ELSE awaited)
      /\ err' = (IF error = "" THEN err ELSE [err EXCEPT ![p] = error])
      /\ Advance /\ UNCHANGED <<posIndex, optionsEnded, lastArg>>
  <2> HIDE DEF awaited, error, valued
  <2>1. QED  BY <1>1 DEF ReadLetters, valued
<1>3. /\ InLoop /\ ~optionsEnded /\ Word.kind = "short" /\ words[index] = Word
      /\ "option" \in Roles /\ Continues(Read, Args, Last, "option")
  BY <1>2, OptionFacts
<1>4. IsParser(Args) /\ err = [err EXCEPT ![p] = err[p]] /\ IsWord(Word)
  BY <1>3, Kept
<1>5. Takes(Args, Word) = awaited /\ (Unknown(Args, Word) => valued = {})
  BY <1>3, <1>4, LettersTake
<1>6. /\ Mentions(Args, index) = Flags(Args, Word) \union valued /\ SetBy(Args, index) = Flags(Args, Word)
      /\ IsUnknown(Args, index) <=> Unknown(Args, Word)
      /\ IsCombined(Args, index) <=> valued # {} /\ awaited = {}
  BY <1>3, <1>5 DEF Mentions, SetBy, IsUnknown, IsCombined
<1>7. valued # {} /\ awaited = {} <=> valued # {} /\ ~alone
  OBVIOUS
<1>8. /\ Unknown(Args, Word) => error = "unknown"
      /\ ~Unknown(Args, Word) /\ valued # {} /\ ~alone => error = "combined"
      /\ ~Unknown(Args, Word) /\ ~(valued # {} /\ ~alone) => error = ""
  <2>1. Unknown(Args, Word) => valued = {}
    BY <1>5
  <2> HIDE DEF valued, alone
  <2>2. QED  BY <2>1
<1> HIDE DEF valued, alone, awaited, error
<1>9. Says("option") = IF error = "" THEN err[p] ELSE error
  BY <1>6, <1>7, <1>8 DEF Says
<1>10. err' = IF Says("option") = err[p] THEN err ELSE [err EXCEPT ![p] = Says("option")]
  <2>1. CASE error = ""
    BY <2>1, <1>2, <1>9
  <2>2. CASE error # ""
    <3>1. Says("option") = error /\ err' = [err EXCEPT ![p] = error]
      BY <2>2, <1>2, <1>9
    <3>2. QED  BY <3>1, <1>4
  <2>3. QED  BY <2>1, <2>2
<1>11. /\ Specified(Mentions(Args, index)) /\ Trigger(SetBy(Args, index))
       /\ awaiting' \in IF Takes(Args, Word) = {} THEN {0} ELSE Takes(Args, Word)
  BY <1>2, <1>5, <1>6
<1>12. Obey("option")
  BY <1>2, <1>3, <1>10, <1>11, OptionObeys
<1>13. QED  BY <1>3, <1>12, ObeyKeeps

\* What is said of the reading does not change when nothing is read.
LEMMA NothingRead ==
  ASSUME ArgInv, UNCHANGED <<chain, words, start, index, locals, dst>>
  PROVE  /\ p' = p /\ Args' = Args /\ Last' = Last /\ (MoreFollow' <=> MoreFollow) /\ Read' = Read
         /\ (Complaints' = Complaints) /\ LocalsInv' /\ AssignedAsRead'
<1>1. p' = p /\ Args' = Args /\ Last' = Last /\ (MoreFollow' <=> MoreFollow)
  BY DEF p, Args, Last, MoreFollow
<1>2. Read' = Read
  <2>1. Reading(Args, start[p], Last)' = Reading(Args, start[p], Last)
    BY <1>1, SameWords
  <2>2. QED  BY <2>1 DEF Read
<1>3. LocalsInv'
  <2>1. /\ (IsReading(Read, Args)' <=> IsReading(Read, Args)) /\ Mentioned(Read, Args)' = Mentioned(Read, Args)
    BY <1>1, <1>2, SameWords
  <2>2. QED  BY <1>1, <1>2, <2>1 DEF ArgInv, LocalsInv, Awaited, locals
<1>4. AssignedAsRead'
  <2>1. \A i : Given(Read, Args, i)' = Given(Read, Args, i)
    BY <1>1, <1>2, SameWords
  <2>2. QED  BY <1>1, <2>1 DEF ArgInv, AssignedAsRead
<1>5. Complaints' = Complaints
  BY <1>1 DEF Complaints, Mandatory, locals, MoreFollow
<1>6. QED  BY <1>1, <1>2, <1>3, <1>4, <1>5

\* A word that cannot be parsed ends the run there.
LEMMA ConsumeThrowsKeeps ==
  ASSUME ArgInv, ConsumeThrows
  PROVE  ArgInv'
<1>1. pc' = "thrown" /\ UNCHANGED <<chain, words, start, index, locals, err, dst>>
  BY DEF ConsumeThrows
<1>2. pc = "loop" /\ TypeOK
  BY DEF ConsumeThrows, AtPositional, InLoop, ArgInv, StateInv
<1>3. /\ p' = p /\ Args' = Args /\ Last' = Last /\ (MoreFollow' <=> MoreFollow) /\ Read' = Read
      /\ LocalsInv' /\ AssignedAsRead'
  BY <1>1, NothingRead
<1>4. StateInv' /\ NextInv'
  BY <1>1, <1>2, <1>3 DEF ArgInv, StateInv, NextInv, TypeOK, locals
<1>5. StopInv'
  BY <1>1, <1>3 DEF ArgInv, StopInv, locals
<1>6. LoopErrors'
  BY <1>1 DEF LoopErrors
<1>7. QED  BY <1>3, <1>4, <1>5, <1>6 DEF ArgInv

\* The checks after the loop change the error to that of the first that
\* applies.
LEMMA FinishSays ==
  ASSUME ArgInv, Finish
  PROVE  /\ (\A k \in 1 .. 5 : ~Complaints[k].holds) => err' = err
         /\ (\E k \in 1 .. 5 : Complaints[k].holds) =>
              \E k \in 1 .. 5 : /\ Complaints[k].holds /\ err' = [err EXCEPT ![p] = Complaints[k].what]
                                /\ \A j \in 1 .. 5 : Complaints[j].holds => k <= j
<1> DEFINE said == {k \in 1 .. 5 : Complaints[k].holds}
           first == CHOOSE k \in said : \A j \in said : k <= j
<1>1. DOMAIN Complaints = 1 .. 5
  BY DEF Complaints
<1>2. err' = IF said = {} THEN err ELSE [err EXCEPT ![p] = Complaints[first].what]
  BY <1>1 DEF Finish
<1>3. ASSUME said # {}
      PROVE  first \in said /\ \A j \in said : first <= j
  <2>1. said \in SUBSET Nat
    OBVIOUS
  <2> HIDE DEF said
  <2>2. \E k \in said : \A j \in said : k <= j
    BY <1>3, <2>1, LeastOf
  <2>3. QED  BY <2>2
<1> HIDE DEF first
<1>4. QED  BY <1>2, <1>3

\* What is left of the error kinds.
LEMMA ComplaintsAre ==
  /\ Complaints[1].what = "value" /\ Complaints[2].what = "positional"
  /\ Complaints[3].what = "option" /\ Complaints[4].what = "option" /\ Complaints[5].what = "extra"
BY DEF Complaints

\* The checks change the error only.
LEMMA FinishKeeps ==
  ASSUME ArgInv, Finish
  PROVE  ArgInv'
<1>1. pc = "loop" /\ pc' = "finished" /\ UNCHANGED <<chain, words, start, index, locals, dst>> /\ LoopOver
  BY DEF Finish, LoopOver
<1>2. /\ p' = p /\ Args' = Args /\ Last' = Last /\ (MoreFollow' <=> MoreFollow) /\ Read' = Read
      /\ LocalsInv' /\ AssignedAsRead'
  BY <1>1, NothingRead
<1>3. /\ TypeOK /\ StateInv /\ NextInv /\ StopInv
      /\ p \in DOMAIN chain /\ DOMAIN err = DOMAIN chain
  BY Running DEF ArgInv, StateInv
<1>4. /\ \A q \in DOMAIN chain : q # p => err'[q] = err[q]
      /\ err'[p] \in Errors /\ err' = [q \in DOMAIN chain |-> err'[q]]
  <2>1. CASE \A k \in 1 .. 5 : ~Complaints[k].holds
    <3>1. err' = err
      BY <2>1, FinishSays
    <3>2. QED  BY <3>1, <1>3 DEF TypeOK, StateInv
  <2>2. CASE \E k \in 1 .. 5 : Complaints[k].holds
    <3>1. PICK k \in 1 .. 5 : err' = [err EXCEPT ![p] = Complaints[k].what]
      BY <2>2, FinishSays
    <3>2. k = 1 \/ k = 2 \/ k = 3 \/ k = 4 \/ k = 5
      OBVIOUS
    <3>3. Complaints[k].what \in Errors
      BY <3>2, ComplaintsAre DEF Errors
    <3>4. QED  BY <3>1, <3>3, <1>3 DEF StateInv
  <2>3. QED  BY <2>1, <2>2
<1>5. StateInv'
  <2>1. \A q \in DOMAIN chain : err'[q] \in Errors
    BY <1>3, <1>4 DEF TypeOK
  <2>2. TypeOK'
    BY <1>1, <1>2, <1>3, <2>1 DEF TypeOK, locals
  <2>3. QED  BY <1>1, <1>2, <1>3, <1>4, <2>2 DEF StateInv
<1>6. NextInv'
  <2>1. \A q \in DOMAIN chain : q > p => q # p
    BY <1>3, Running
  <2>2. QED  BY <1>1, <1>2, <1>3, <1>4, <2>1 DEF NextInv
<1>7. StopInv'
  <2>1. Word' = Word /\ posIndex' = posIndex /\ lastArg' = lastArg /\ awaiting' = awaiting
        /\ optionsEnded' = optionsEnded
    BY <1>1 DEF Word, locals
  <2>2. index > Len(words) \/ lastArg \/
          (awaiting = 0 /\ posIndex = Len(Positionals(Args)) /\ (Word.kind = "plain" \/ optionsEnded))
    BY <1>1 DEF LoopOver, AtPositional, ReadAsPositional
  <2>3. QED  BY <1>1, <1>2, <1>3, <2>1, <2>2 DEF StopInv
<1>8. LoopErrors'
  BY <1>1 DEF LoopErrors
<1>9. QED  BY <1>2, <1>5, <1>6, <1>7, <1>8 DEF ArgInv

-----------------------------------------------------------------------------
(* A parser that begins.                                                   *)

Begins ==
  /\ StateInv /\ NextInv /\ pc = "loop" /\ start[p] = index
  /\ posIndex = 0 /\ awaiting = 0 /\ longSeen = {} /\ shortSeen = {}
  /\ ~optionsEnded /\ ~lastArg
  /\ err[p] = "" /\ \A i \in DOMAIN Args : dst[p][i] = 0

\* It has read nothing, and that means nothing.
LEMMA BeginsRight ==
  Begins => ArgInv
<1> SUFFICES ASSUME Begins PROVE ArgInv
  OBVIOUS
<1>1. /\ start[p] = index /\ index \in Nat \ {0} /\ Last \in Nat /\ Last + 1 = index
  BY Running DEF Begins
<1>2. PICK a \in Nat \ {0}, b \in Nat : a = index /\ b = Last /\ b + 1 = a
  BY <1>1
<1> DEFINE r == [i \in a .. b |-> "value"]
<1>3. a .. b = {}
  BY <1>2
<1>4. r \in [a .. b -> Roles] /\ IsReading(r, Args) /\ DOMAIN r = {}
  BY <1>3 DEF IsReading, Roles
<1>5. Read = r
  <2>1. Reading(Args, a, b) = r
    BY <1>4, ReadingIs
  <2> HIDE DEF r
  <2>2. QED  BY <2>1, <1>1, <1>2 DEF Read
<1> HIDE DEF r
<1>6. /\ \A role : PlacesOf(r, role) = {}
      /\ Mentioned(r, Args) = {} /\ Awaited(r, Args, Last) = {}
  BY <1>4 DEF PlacesOf, Mentioned, Awaited
<1>7. LocalsInv
  <2>1. Cardinality(PlacesOf(r, "positional")) = 0
    BY <1>6, FS_EmptySet
  <2>2. r \in [start[p] .. Last -> Roles]
    BY <1>1, <1>2, <1>4
  <2>3. QED  BY <1>4, <1>5, <1>6, <2>1, <2>2 DEF LocalsInv, Begins
<1>8. AssignedAsRead
  <2>1. \A i : ValuesFor(r, Args, i) = {} /\ SetsFor(r, Args, i) = {} /\ PlacesFor(r, Args, i) = {}
    BY <1>6 DEF ValuesFor, SetsFor, PlacesFor
  <2>2. \A i : Given(r, Args, i) = 0
    BY <1>4, <2>1, NothingGiven
  <2>3. QED  BY <1>5, <2>2 DEF AssignedAsRead, Begins
<1>9. LoopErrors /\ StopInv
  BY <1>5, <1>6 DEF LoopErrors, StopInv, Begins
<1>10. QED  BY <1>7, <1>8, <1>9 DEF ArgInv, Begins

\* The parser of the subcommand begins where the one before it stopped.
LEMMA RunNextKeeps ==
  ASSUME ArgInv, RunNext
  PROVE  ArgInv'
<1>1. /\ pc = "finished" /\ MoreFollow /\ start' = Append(start, index) /\ pc' = "loop"
      /\ posIndex' = 0 /\ awaiting' = 0 /\ longSeen' = {} /\ shortSeen' = {}
      /\ optionsEnded' = FALSE /\ lastArg' = FALSE
      /\ UNCHANGED <<chain, words, index, err, dst>>
  BY DEF RunNext, FreshLocals
<1>2. /\ StateInv /\ TypeOK /\ NextInv /\ p \in Nat \ {0} /\ start \in Seq(Nat) /\ index \in Nat \ {0}
      /\ Len(chain) \in Nat /\ DOMAIN chain = 1 .. Len(chain) /\ IsChain(chain) /\ p = Len(start)
  BY Running DEF ArgInv, StateInv, p
<1>3. /\ p' = p + 1 /\ start' \in Seq(Nat) /\ start' # <<>> /\ DOMAIN start' = 1 .. p + 1
      /\ start'[p + 1] = index /\ \A q \in 1 .. p : start'[q] = start[q]
  BY <1>1, <1>2 DEF p
<1>4. p' \in DOMAIN chain /\ p' > p
  <2>1. p < Len(chain)
    BY <1>1 DEF MoreFollow
  <2>2. QED  BY <2>1, <1>2, <1>3
<1>5. Args' = chain[p'] /\ IsParser(Args')
  BY <1>1, <1>2, <1>4 DEF Args, IsChain
<1>6. Len(Positionals(Args')) \in Nat
  BY <1>5, PositionalsAre
<1>7. TypeOK'
  <2>1. \A q \in DOMAIN start' : start'[q] \in 1 .. index
    <3>1. \A q \in 1 .. p : start[q] \in 1 .. index
      BY <1>2 DEF TypeOK
    <3>2. QED  BY <3>1, <1>2, <1>3
  <2>2. posIndex' \in 0 .. Len(Positionals(Args'))
    BY <1>1, <1>6
  <2>3. QED  BY <1>1, <1>2, <1>4, <2>1, <2>2 DEF TypeOK
<1>8. StateInv'
  BY <1>1, <1>2, <1>3, <1>7 DEF StateInv
<1>9. /\ err'[p'] = "" /\ \A i \in DOMAIN Args' : dst'[p'][i] = 0
      /\ NextInv'
  <2>1. \A q \in DOMAIN chain : q > p' => q > p
    BY <1>2, <1>3
  <2>2. QED  BY <1>1, <1>2, <1>4, <1>5, <2>1 DEF NextInv
<1>10. Begins'
  BY <1>1, <1>3, <1>8, <1>9 DEF Begins
<1>11. Begins' => ArgInv'
  BY BeginsRight, PTL
<1>12. QED  BY <1>10, <1>11

-----------------------------------------------------------------------------
(* What is wrong with a line, and what the checks after the loop find.     *)

\* The positional arguments that nothing is for are those behind the last
\* one read.
LEMMA PositionalGiven ==
  ASSUME NEW args, IsParser(args), NEW a \in Nat \ {0}, NEW b \in Nat, a <= b + 1,
         NEW r \in [a .. b -> Roles], IsReading(r, args), \A i \in a .. b : IsWord(words[i]),
         NEW k \in 1 .. Len(Positionals(args))
  PROVE  Given(r, args, Positionals(args)[k]) = 0 <=> k > Cardinality(PlacesOf(r, "positional"))
<1> DEFINE c == Positionals(args)[k]
           places == PlacesOf(r, "positional")
<1>1. c \in DOMAIN args /\ args[c].positional /\ k \in Nat
  BY PositionalsAre
<1>2. places \in SUBSET (0 .. b) /\ Cardinality(places) \in Nat
  <2>1. "positional" \in Roles
    BY DEF Roles
  <2>2. places \in SUBSET (a .. b) /\ Cardinality(places) \in Nat
    BY <2>1, PlacesOn, RankOn
  <2> HIDE DEF places
  <2>3. QED  BY <2>2
<1> HIDE DEF c, places
<1>3. Given(r, args, c) = 0 <=> PlacesFor(r, args, c) = {}
  <2>1. \A i \in DOMAIN r : r[i] \in Roles /\ IsWord(words[i])
    OBVIOUS
  <2>2. ValuesFor(r, args, c) = {} /\ SetsFor(r, args, c) = {}
    BY <1>1, <2>1, OwnWay
  <2>3. QED  BY <2>2, NothingGiven
<1>4. k > Cardinality(places) => PlacesFor(r, args, c) = {}
  BY <1>1, OwnPlace DEF c, places
<1>5. ASSUME ~(k > Cardinality(places))
      PROVE  PlacesFor(r, args, c) # {}
  <2>1. k \in 1 .. Cardinality(places)
    BY <1>1, <1>2, <1>5
  <2>2. Nth(places, k) \in places /\ Rank(places, Nth(places, k)) = k
    BY <1>2, <2>1, NthIs
  <2>3. Nth(places, k) \in PlacesFor(r, args, c)
    BY <2>2 DEF PlacesFor, places, c
  <2>4. QED  BY <2>3
<1>6. QED  BY <1>3, <1>4, <1>5 DEF c, places

\* Only options are mentioned.
LEMMA MentionedAre ==
  ASSUME NEW args, IsParser(args), NEW r, IsReading(r, args),
         \A i \in DOMAIN r : r[i] \in Roles /\ IsWord(words[i])
  PROVE  \A c \in Mentioned(r, args) : c \in DOMAIN args /\ ~args[c].positional
<1> SUFFICES ASSUME NEW c \in Mentioned(r, args)
             PROVE  c \in DOMAIN args /\ ~args[c].positional
  OBVIOUS
<1>1. PICK i \in PlacesOf(r, "option") : c \in Mentions(args, i)
  BY DEF Mentioned
<1>2. i \in DOMAIN r /\ IsWord(words[i]) /\ words[i].kind \in {"long", "short"}
  BY OptionWords DEF PlacesOf
<1>3. CASE words[i].kind = "long"
  BY <1>1, <1>3, NamedIsOne DEF Mentions, ByLong
<1>4. CASE words[i].kind = "short"
  <2>1. c \in Flags(args, words[i]) \/ c \in StopsAt(args, words[i])
    BY <1>1, <1>4 DEF Mentions
  <2>2. CASE c \in Flags(args, words[i])
    BY <1>2, <1>4, <2>2, FlagsAreFlags
  <2>3. CASE c \in StopsAt(args, words[i])
    BY <2>3, NamedIsOne DEF StopsAt, Letter, ByShort
  <2>4. QED  BY <2>1, <2>2, <2>3
<1>5. QED  BY <1>2, <1>3, <1>4

\* An option that is given a value is mentioned.
LEMMA GivenIsMentioned ==
  ASSUME NEW args, IsParser(args), NEW r, IsReading(r, args),
         \A i \in DOMAIN r : r[i] \in Roles /\ IsWord(words[i]), NEW c
  PROVE  ValuesFor(r, args, c) # {} \/ SetsFor(r, args, c) # {} => c \in Mentioned(r, args)
<1>1. ASSUME NEW i \in ValuesFor(r, args, c)
      PROVE  c \in Mentioned(r, args)
  <2>1. i \in DOMAIN r /\ r[i] = "value" /\ c \in Takes(args, words[i - 1])
    BY DEF ValuesFor, PlacesOf
  <2>2. i - 1 \in DOMAIN r /\ r[i - 1] = "option"
    BY <2>1 DEF IsReading
  <2>3. IsWord(words[i - 1]) /\ words[i - 1].kind \in {"long", "short"}
    BY <2>2, OptionWords
  <2>4. c \in Mentions(args, i - 1)
    BY <2>1, <2>3, NamesAreMentioned
  <2>5. QED  BY <2>2, <2>4 DEF Mentioned, PlacesOf
<1>2. ASSUME NEW i \in SetsFor(r, args, c)
      PROVE  c \in Mentioned(r, args)
  <2>1. i \in PlacesOf(r, "option") /\ i \in DOMAIN r /\ r[i] = "option" /\ c \in SetBy(args, i)
    BY DEF SetsFor, PlacesOf
  <2>2. IsWord(words[i]) /\ words[i].kind \in {"long", "short"}
    BY <2>1, OptionWords
  <2>3. c \in Mentions(args, i)
    BY <2>1, <2>2, NamesAreMentioned
  <2>4. QED  BY <2>1, <2>3 DEF Mentioned
<1>3. QED  BY <1>1, <1>2

\* What is wrong, kind by kind.
LEMMA ProblemsAre ==
  ASSUME NEW r, NEW args, NEW to, NEW more
  PROVE  LET options == PlacesOf(r, "option")
             ungiven == {a \in DOMAIN args : args[a].mandatory /\ Given(r, args, a) = 0}
             wrong == Problems(r, args, to, more)
         IN /\ "unknown" \in wrong <=> \E i \in options : IsUnknown(args, i)
            /\ "combined" \in wrong <=> \E i \in options : IsCombined(args, i)
            /\ "value" \in wrong <=> to \in options /\ Takes(args, words[to]) # {}
            /\ "positional" \in wrong <=> \E a \in ungiven : args[a].positional
            /\ "option" \in wrong <=> \E a \in ungiven \ Mentioned(r, args) : ~args[a].positional
            /\ "extra" \in wrong <=> ~more /\ to < Len(words)
            /\ wrong \subseteq {"unknown", "combined", "value", "positional", "option", "extra"}
BY DEF Problems

\* The checks find it.
LEMMA ChecksFind ==
  ASSUME ArgInv
  PROVE  LET wrong == Problems(Read, Args, Last, MoreFollow)
         IN /\ Complaints[1].holds <=> "value" \in wrong
            /\ Complaints[2].holds <=> "positional" \in wrong
            /\ Complaints[3].holds \/ Complaints[4].holds <=> "option" \in wrong
            /\ Complaints[5].holds <=> "extra" \in wrong
<1> DEFINE r == Read
           wrong == Problems(r, Args, Last, MoreFollow)
           pos == Positionals(Args)
           ungiven == {a \in DOMAIN Args : Args[a].mandatory /\ Given(r, Args, a) = 0}
<1>1. StateInv /\ LocalsInv
  BY DEF ArgInv
<1>2. /\ start[p] \in Nat \ {0} /\ Last \in Nat /\ Last + 1 = index /\ start[p] <= Last + 1
      /\ IsParser(Args) /\ index \in Nat /\ index <= Len(words) + 1 /\ Len(words) \in Nat
      /\ \A i \in 1 .. Len(words) : IsWord(words[i])
      /\ p \in DOMAIN chain /\ chain \in Chains /\ Args = chain[p]
  BY <1>1, Running DEF StateInv, TypeOK, Args
<1>3. PICK a \in Nat \ {0}, b \in Nat : a = start[p] /\ b = Last
  BY <1>2
<1>4. /\ r \in [a .. b -> Roles] /\ a <= b + 1 /\ IsReading(r, Args)
      /\ \A i \in a .. b : IsWord(words[i]) /\ i \in 1 .. Len(words)
      /\ \A i \in DOMAIN r : r[i] \in Roles /\ IsWord(words[i])
  <2>1. r \in [a .. b -> Roles] /\ a <= b + 1 /\ IsReading(r, Args) /\ b <= Len(words)
    BY <1>1, <1>2, <1>3 DEF LocalsInv
  <2>2. \A i \in a .. b : i \in 1 .. Len(words)
    BY <2>1, <1>2
  <2> HIDE DEF r
  <2>3. QED  BY <2>1, <2>2, <1>2
<1>5. /\ IF awaiting = 0 THEN Awaited(r, Args, Last) = {} ELSE awaiting \in Awaited(r, Args, Last)
      /\ posIndex = Cardinality(PlacesOf(r, "positional")) /\ posIndex \in Nat
      /\ longSeen = {Args[i].long : i \in Mentioned(r, Args)}
      /\ shortSeen = {Args[i].short : i \in Mentioned(r, Args)} \ {NoShort}
  <2>1. posIndex \in Nat
    BY <1>1, <1>2, PositionalsAre DEF StateInv, TypeOK
  <2>2. QED  BY <1>1, <2>1 DEF LocalsInv
<1> HIDE DEF r
<1>6. Complaints[1].holds <=> "value" \in wrong
  <2>1. Complaints[1].holds <=> awaiting # 0
    BY DEF Complaints
  <2>2. "value" \in wrong <=> Last \in PlacesOf(r, "option") /\ Takes(Args, words[Last]) # {}
    BY ProblemsAre
  <2>3. QED  BY <2>1, <2>2, <1>5 DEF Awaited
<1>7. Complaints[2].holds <=> "positional" \in wrong
  <2>1. Complaints[2].holds <=> \E k \in posIndex + 1 .. Len(pos) : Args[pos[k]].mandatory
    BY DEF Complaints, Mandatory
  <2>2. "positional" \in wrong <=>
          \E c \in DOMAIN Args : Args[c].mandatory /\ Given(r, Args, c) = 0 /\ Args[c].positional
    BY ProblemsAre
  <2>3. /\ Len(pos) \in Nat
        /\ \A k \in 1 .. Len(pos) : pos[k] \in DOMAIN Args /\ Args[pos[k]].positional
        /\ \A c \in DOMAIN Args : Args[c].positional => \E k \in 1 .. Len(pos) : pos[k] = c
    <3>1. PICK args : args = Args /\ IsParser(args)
      BY <1>2
    <3>2. Len(Positionals(args)) \in Nat
      BY <3>1, PositionalsAre
    <3>3. \A k \in 1 .. Len(Positionals(args)) :
            Positionals(args)[k] \in DOMAIN args /\ args[Positionals(args)[k]].positional
      BY <3>1, PositionalsAre
    <3>4. \A c \in DOMAIN args :
            args[c].positional => \E k \in 1 .. Len(Positionals(args)) : Positionals(args)[k] = c
      BY <3>1, PositionalsAre
    <3>5. QED  BY <3>1, <3>2, <3>3, <3>4
  <2>4. \A k \in 1 .. Len(pos) : Given(r, Args, pos[k]) = 0 <=> k > posIndex
    BY <1>2, <1>4, <1>5, PositionalGiven
  <2> HIDE DEF pos, wrong
  <2>5. \A k : k \in posIndex + 1 .. Len(pos) <=> k \in 1 .. Len(pos) /\ k > posIndex
    BY <2>3, <1>5
  <2>6. QED  BY <2>1, <2>2, <2>3, <2>4, <2>5
<1>8. Complaints[3].holds \/ Complaints[4].holds <=> "option" \in wrong
  <2> DEFINE options == {i \in DOMAIN Args : ~Args[i].positional}
             left == {i \in options : Args[i].mandatory /\ i \notin Mentioned(r, Args)}
  <2>1. \A i \in Mentioned(r, Args) : i \in options
    BY <1>2, <1>4, MentionedAre
  <2>2. \A i, j \in options : Args[i].long = Args[j].long => i = j
    BY <1>2, NamesAssumption
  <2>3. \A i \in options : i \in ByLong(Args, Args[i].long)
    <3>1. \A i \in DOMAIN Args : i \in Nat /\ i <= i
      BY <1>2 DEF IsParser
    <3>2. QED  BY <2>2, <3>1 DEF ByLong, Named
  <2>4. Complaints[3].holds <=> left # {}
    <3>1. Complaints[3].holds <=>
            \E i \in options : i \in ByLong(Args, Args[i].long) /\ Args[i].long \notin longSeen /\ Args[i].mandatory
      BY DEF Complaints, Mandatory
    <3>2. \A i \in options : Args[i].long \notin longSeen <=> i \notin Mentioned(r, Args)
      BY <2>1, <2>2, <1>5
    <3>3. QED  BY <3>1, <3>2, <2>3
  <2>5. Complaints[4].holds => left # {}
    <3>1. Complaints[4].holds =>
            \E i \in options : Args[i].short \notin shortSeen \union {NoShort} /\ Args[i].mandatory
      BY DEF Complaints, Mandatory
    <3>2. \A i \in Mentioned(r, Args) : Args[i].short \in shortSeen \union {NoShort}
      BY <1>5
    <3>3. QED  BY <3>1, <3>2
  <2>6. "option" \in wrong <=>
          \E c \in DOMAIN Args : Args[c].mandatory /\ Given(r, Args, c) = 0 /\ c \notin Mentioned(r, Args) /\ ~Args[c].positional
    BY ProblemsAre
  <2>7. \A c \in left : Given(r, Args, c) = 0
    <3>1. ASSUME NEW c \in left PROVE Given(r, Args, c) = 0
      <4>1. ValuesFor(r, Args, c) = {} /\ SetsFor(r, Args, c) = {}
        BY <1>2, <1>4, <3>1, GivenIsMentioned
      <4>2. PlacesFor(r, Args, c) = {}
        BY <1>2, <1>4, <3>1, OwnPlace
      <4>3. QED  BY <4>1, <4>2, <1>4, NothingGiven
    <3>2. QED  BY <3>1
  <2>8. left # {} <=> "option" \in wrong
    BY <2>6, <2>7
  <2>9. QED  BY <2>4, <2>5, <2>8
<1>9. Complaints[5].holds <=> "extra" \in wrong
  <2>1. Complaints[5].holds <=> ~MoreFollow /\ index <= Len(words)
    BY DEF Complaints
  <2>2. "extra" \in wrong <=> ~MoreFollow /\ Last < Len(words)
    BY ProblemsAre
  <2>3. index <= Len(words) <=> Last < Len(words)
    BY <1>2
  <2>4. QED  BY <2>1, <2>2, <2>3
<1>10. QED  BY <1>6, <1>7, <1>8, <1>9 DEF r

\* The error that Finish leaves is true.
LEMMA FinishTrue ==
  ASSUME ArgInv, Finish
  PROVE  ErrorsAreTrue'
<1> DEFINE wrong == Problems(Read, Args, Last, MoreFollow)
<1>1. pc = "loop" /\ UNCHANGED <<chain, words, start, index, locals, dst>>
  BY DEF Finish, LoopOver
<1>2. p' = p /\ Args' = Args /\ Last' = Last /\ (MoreFollow' <=> MoreFollow) /\ Read' = Read
  BY <1>1, NothingRead
<1>3. p \in DOMAIN err
  BY Running DEF ArgInv, StateInv
<1>4. /\ Complaints[1].holds <=> "value" \in wrong
      /\ Complaints[2].holds <=> "positional" \in wrong
      /\ Complaints[3].holds \/ Complaints[4].holds <=> "option" \in wrong
      /\ Complaints[5].holds <=> "extra" \in wrong
  BY ChecksFind
<1>5. /\ "unknown" \in wrong <=> \E i \in PlacesOf(Read, "option") : IsUnknown(Args, i)
      /\ "combined" \in wrong <=> \E i \in PlacesOf(Read, "option") : IsCombined(Args, i)
      /\ wrong \subseteq {"unknown", "combined", "value", "positional", "option", "extra"}
  BY ProblemsAre
<1>6. /\ err[p] \in {"", "unknown", "combined"}
      /\ err[p] = "unknown" => \E i \in PlacesOf(Read, "option") : IsUnknown(Args, i)
      /\ err[p] = "combined" => \E i \in PlacesOf(Read, "option") : IsCombined(Args, i)
      /\ err[p] = "" => \A i \in PlacesOf(Read, "option") : ~IsUnknown(Args, i) /\ ~IsCombined(Args, i)
  BY <1>1 DEF ArgInv, LoopErrors
<1> HIDE DEF wrong
<1>7. IF wrong = {} THEN err'[p] = "" ELSE err'[p] \in wrong
  <2>1. CASE \A k \in 1 .. 5 : ~Complaints[k].holds
    <3>1. err' = err
      BY <2>1, FinishSays
    <3>2. wrong \subseteq {"unknown", "combined"}
      BY <2>1, <1>4, <1>5
    <3>3. err[p] # "" => err[p] \in wrong
      BY <1>5, <1>6
    <3>4. err[p] = "" => wrong = {}
      BY <3>2, <1>5, <1>6
    <3>5. QED  BY <3>1, <3>3, <3>4
  <2>2. CASE \E k \in 1 .. 5 : Complaints[k].holds
    <3>1. PICK k \in 1 .. 5 : Complaints[k].holds /\ err' = [err EXCEPT ![p] = Complaints[k].what]
      BY <2>2, FinishSays
    <3>2. k = 1 \/ k = 2 \/ k = 3 \/ k = 4 \/ k = 5
      OBVIOUS
    <3>3. Complaints[k].what \in wrong
      BY <3>1, <3>2, <1>4, ComplaintsAre
    <3>4. err'[p] = Complaints[k].what
      BY <3>1, <1>3
    <3>5. QED  BY <3>3, <3>4
  <2>3. QED  BY <2>1, <2>2
<1>8. Problems(Read, Args, Last, MoreFollow)' = wrong
  <2>1. /\ \A i : Given(Read, Args, i)' = Given(Read, Args, i)
        /\ \A i : (IsUnknown(Args, i)' <=> IsUnknown(Args, i)) /\ (IsCombined(Args, i)' <=> IsCombined(Args, i))
        /\ Mentioned(Read, Args)' = Mentioned(Read, Args)
    BY <1>1, <1>2, SameWords
  <2>2. words' = words
    BY <1>1
  <2>3. QED  BY <1>2, <2>1, <2>2 DEF Problems, wrong
<1>9. QED  BY <1>2, <1>7, <1>8 DEF ErrorsAreTrue

\* Steps of the loop, and the start of the next parser, do not finish; a
\* step that changes nothing leaves the error as true as it was.
LEMMA StillTrue ==
  ASSUME ArgInv, ErrorsAreTrue, UNCHANGED vars
  PROVE  ArgInv' /\ ErrorsAreTrue'
<1>1. UNCHANGED <<chain, words, start, index, locals, dst, err, pc>>
  BY DEF vars
<1>2. /\ p' = p /\ Args' = Args /\ Last' = Last /\ (MoreFollow' <=> MoreFollow) /\ Read' = Read
      /\ LocalsInv' /\ AssignedAsRead'
  BY <1>1, NothingRead
<1>3. /\ \A i : Given(Read, Args, i)' = Given(Read, Args, i)
      /\ \A i : (IsUnknown(Args, i)' <=> IsUnknown(Args, i)) /\ (IsCombined(Args, i)' <=> IsCombined(Args, i))
      /\ Mentioned(Read, Args)' = Mentioned(Read, Args)
  BY <1>1, <1>2, SameWords
<1>4. StateInv' /\ NextInv'
  BY <1>1, <1>2 DEF ArgInv, StateInv, NextInv, TypeOK, locals
<1>5. StopInv'
  BY <1>1, <1>2 DEF ArgInv, StopInv, locals, Word
<1>6. LoopErrors'
  BY <1>1, <1>2, <1>3 DEF ArgInv, LoopErrors
<1>7. Problems(Read, Args, Last, MoreFollow)' = Problems(Read, Args, Last, MoreFollow)
  BY <1>1, <1>2, <1>3 DEF Problems
<1>8. ErrorsAreTrue'
  BY <1>1, <1>2, <1>7 DEF ErrorsAreTrue
<1>9. QED  BY <1>2, <1>4, <1>5, <1>6, <1>8 DEF ArgInv

\* The first parser begins at the first word.
LEMMA InitBegins ==
  ASSUME Init
  PROVE  ArgInv
<1>0. /\ chain \in Chains /\ start = <<1>> /\ index = 1
      /\ posIndex = 0 /\ awaiting = 0 /\ longSeen = {} /\ shortSeen = {}
      /\ optionsEnded = FALSE /\ lastArg = FALSE /\ pc = "loop"
      /\ err = [q \in DOMAIN chain |-> ""]
      /\ dst = [q \in DOMAIN chain |-> [i \in DOMAIN chain[q] |-> 0]]
  BY Zenon DEF Init
<1>1. PICK n \in 0 .. MaxWords : words \in [1 .. n -> Words]
  BY DEF Init
<1>2. n \in Nat /\ words \in Seq(Words) /\ Len(words) = n
  BY <1>1, ArgAssumption, SeqDef, LenProperties
<1>3. /\ start = <<1>> /\ index = 1 /\ p = 1 /\ start[p] = 1 /\ start \in Seq(Nat) /\ start # <<>>
      /\ DOMAIN start = {1}
  <2>1. start = <<1>> /\ index = 1
    BY <1>0, Zenon
  <2>2. QED  BY <2>1 DEF p
<1>4. chain \in Chains /\ IsChain(chain)
  BY <1>0, ArgAssumption
<1>5. p \in DOMAIN chain /\ Args = chain[p] /\ IsParser(Args)
  BY <1>3, <1>4 DEF IsChain, Args
<1>6. Len(Positionals(Args)) \in Nat
  BY <1>5, PositionalsAre
<1>7. TypeOK
  <2>1. posIndex \in 0 .. Len(Positionals(Args))
    <3>1. posIndex = 0
      BY <1>0, Zenon
    <3>2. QED  BY <3>1, <1>6
  <2>2. \A q \in DOMAIN chain : err[q] \in Errors /\ \A i \in DOMAIN chain[q] : dst[q][i] \in 0 .. Len(words)
    <3>1. /\ err = [q \in DOMAIN chain |-> ""]
          /\ dst = [q \in DOMAIN chain |-> [i \in DOMAIN chain[q] |-> 0]]
      BY <1>0, Zenon
    <3>2. \A q \in DOMAIN chain : err[q] = "" /\ \A i \in DOMAIN chain[q] : dst[q][i] = 0
      BY <3>1
    <3>3. 0 \in 0 .. Len(words) /\ "" \in Errors
      BY <1>2 DEF Errors
    <3>4. QED  BY <3>2, <3>3, Zenon
  <2>3. index \in 1 .. Len(words) + 1 /\ \A q \in DOMAIN start : start[q] \in 1 .. index
    BY <1>2, <1>3
  <2>4. QED  BY <1>0, <1>4, <1>5, <2>1, <2>2, <2>3 DEF TypeOK
<1>8. StateInv
  BY <1>0, <1>2, <1>3, <1>7 DEF StateInv
<1>9. NextInv /\ err[p] = "" /\ \A i \in DOMAIN Args : dst[p][i] = 0
  BY <1>0, <1>5 DEF NextInv
<1>10. Begins
  BY <1>0, <1>3, <1>8, <1>9 DEF Begins
<1>11. QED  BY <1>10, BeginsRight

\* The parser is where its words have brought it, and its errors are true:
\* the invariant holds of every run.
THEOREM ArgInvHolds == Spec => [](ArgInv /\ ErrorsAreTrue)
<1>1. Init => ArgInv /\ ErrorsAreTrue
  BY InitBegins DEF Init, ErrorsAreTrue
<1>2. ArgInv /\ ErrorsAreTrue /\ [Next]_vars => (ArgInv /\ ErrorsAreTrue)'
  <2> SUFFICES ASSUME ArgInv, ErrorsAreTrue, [Next]_vars
               PROVE  ArgInv' /\ ErrorsAreTrue'
    OBVIOUS
  <2>1. ASSUME pc' # "finished" PROVE ErrorsAreTrue'
    BY <2>1 DEF ErrorsAreTrue
  <2>2. CASE ReadValue
    BY <2>1, <2>2, ReadValueKeeps DEF ReadValue, Advance, InLoop
  <2>3. CASE ReadPositional
    BY <2>1, <2>3, ReadPositionalKeeps DEF ReadPositional, AtPositional, Advance, InLoop
  <2>4. CASE ConsumeThrows
    BY <2>1, <2>4, ConsumeThrowsKeeps DEF ConsumeThrows
  <2>5. CASE EndOptions
    BY <2>1, <2>5, EndOptionsKeeps DEF EndOptions, AtOption, Advance, InLoop
  <2>6. CASE ReadLong
    BY <2>1, <2>6, ReadLongKeeps DEF ReadLong, AtOption, Advance, InLoop
  <2>7. CASE ReadShort
    BY <2>1, <2>7, ReadShortKeeps DEF ReadShort, ReadLetters, AtOption, Advance, InLoop
  <2>8. CASE Finish
    BY <2>8, FinishKeeps, FinishTrue
  <2>9. CASE RunNext
    BY <2>1, <2>9, RunNextKeeps DEF RunNext
  <2>10. CASE UNCHANGED vars
    BY <2>10, StillTrue
  <2>11. QED
    BY <2>2, <2>3, <2>4, <2>5, <2>6, <2>7, <2>8, <2>9, <2>10 DEF Next
<1>3. QED  BY <1>1, <1>2, PTL DEF Spec

\* At every moment the parser is where the words so far have brought it, and
\* its destinations hold what they mean (command_line_args.cpp:142-172).
THEOREM LinesAreRead == Spec => []LineAsRead
<1>1. ArgInv => LineAsRead
  BY DEF ArgInv, StateInv, LineAsRead
<1>2. QED  BY <1>1, ArgInvHolds, PTL

\* run() reports an error exactly when the line is wrong, and then something
\* that is wrong (command_line_args.cpp:84-86 and 174-208).
THEOREM ErrorsTrue == Spec => []ErrorsAreTrue
BY ArgInvHolds, PTL

\* What it leaves to the parsers behind it follows from where it stopped.
LEMMA StopsRight == ArgInv => LeavesTheRest
<1> SUFFICES ASSUME ArgInv, pc = "finished", MoreFollow, Last < Len(words)
             PROVE  IF Positionals(Args) # <<>>
                    THEN /\ Cardinality(PlacesOf(Read, "positional")) = Len(Positionals(Args))
                         /\ Read[Last] = "positional"
                    ELSE Reading(Args, start[p], index)[index] = "positional"
  BY DEF LeavesTheRest
<1> DEFINE places == PlacesOf(Read, "positional")
<1>1. StateInv /\ LocalsInv /\ StopInv
  BY DEF ArgInv
<1>2. /\ start[p] \in Nat \ {0} /\ Last \in Nat /\ Last + 1 = index /\ start[p] <= Last + 1
      /\ IsParser(Args) /\ index \in Nat /\ Len(words) \in Nat
  BY <1>1, Running
<1>3. Len(Positionals(Args)) \in Nat /\ DOMAIN Positionals(Args) = 1 .. Len(Positionals(Args))
  BY <1>2, PositionalsAre
<1>4. posIndex = Cardinality(places) /\ posIndex \in Nat
  BY <1>1, <1>3 DEF LocalsInv, StateInv, TypeOK
<1>5. ~(index > Len(words))
  BY <1>2
<1>6. \/ lastArg /\ posIndex = Len(Positionals(Args)) /\ Last \in places
      \/ /\ awaiting = 0 /\ posIndex = Len(Positionals(Args)) /\ posIndex = 0
         /\ Word.kind = "plain" \/ optionsEnded
  BY <1>1, <1>3, <1>4, <1>5 DEF StopInv
<1>7. Positionals(Args) = <<>> <=> Len(Positionals(Args)) = 0
  <2>1. \E S : Positionals(Args) \in Seq(S)
    <3>1. Positionals(Args) \in [1 .. Len(Positionals(Args)) -> {Positionals(Args)[n] : n \in DOMAIN Positionals(Args)}]
      BY <1>3 DEF Positionals
    <3>2. QED  BY <3>1, <1>3, SeqDef
  <2>2. QED  BY <2>1, EmptySeq
<1>8. CASE lastArg /\ posIndex = Len(Positionals(Args)) /\ Last \in places
  <2>1. Read[Last] = "positional"
    BY <1>8 DEF PlacesOf
  <2>2. IsFiniteSet(places)
    <3>1. PICK a \in Nat, b \in Nat : a = start[p] /\ b = Last
      BY <1>2
    <3>2. Read \in [a .. b -> Roles] /\ a <= b + 1 /\ "positional" \in Roles
      BY <1>1, <1>2, <3>1 DEF LocalsInv, Roles
    <3> HIDE DEF places
    <3>3. IsFiniteSet(PlacesOf(Read, "positional"))
      BY <3>2, RankOn
    <3>4. QED  BY <3>3 DEF places
  <2>3. Cardinality(places) # 0
    BY <1>8, <2>2, FS_EmptySet
  <2>4. QED  BY <1>4, <1>7, <1>8, <2>1, <2>3
<1>9. CASE /\ awaiting = 0 /\ posIndex = Len(Positionals(Args)) /\ posIndex = 0
           /\ Word.kind = "plain" \/ optionsEnded
  <2>1. PICK a \in Nat, b \in Nat : a = start[p] /\ b = Last
    BY <1>2
  <2>2. "positional" \in Roles /\ Continues(Read, Args, b, "positional")
    BY <1>1, <1>9, <2>1, ReadsAs DEF Continues, Roles
  <2>3. Read \in [a .. b -> Roles] /\ IsReading(Read, Args) /\ a <= b + 1
    BY <1>1, <1>2, <2>1 DEF LocalsInv
  <2>4. Reading(Args, a, b + 1) = On(Read, a, b, "positional")
    BY <2>2, <2>3, ReadsOn
  <2>5. On(Read, a, b, "positional")[b + 1] = "positional"
    BY <2>3 DEF On
  <2>6. QED  BY <1>2, <1>7, <1>9, <2>1, <2>4, <2>5
<1>10. QED  BY <1>6, <1>8, <1>9

\* A parser takes the words up to its last positional one and no more, or
\* those before the first one if it declares none (command_line_args.cpp:153-164).
THEOREM RestIsLeft == Spec => []LeavesTheRest
BY ArgInvHolds, StopsRight, PTL

=============================================================================
