-------------------------------- MODULE Numbers --------------------------------
(***************************************************************************)
(* floor2, ceil2 (util/pow2.hpp) and binomial (util/binomial.hpp) on an    *)
(* unsigned type of w bits.                                                *)
(***************************************************************************)
EXTENDS Integers, FiniteSets, FiniteSetsExt

CONSTANT W  \* w

ASSUME WidthAssumption == W \in Nat \ {0}

VARIABLE asked  \* the call: a function, its arguments and what it returned

TwoTo[i \in 0 .. W] == IF i = 0 THEN 1 ELSE 2 * TwoTo[i - 1]
Modulus == TwoTo[W]

\* floor2 clears bit after bit from below while another than the next is left:
\* after i turns the lowest i bits are gone, and the next is 2 ^ i.
Cleared(x, i) == x - (x % TwoTo[i])
Floor2(x) == Cleared(x, Min({i \in 0 .. W : Cleared(x, i) \in {0, TwoTo[i]}}))

\* Mutant: a power of two is doubled as well.
Ceil2Always(x) == (2 * Floor2(x)) % Modulus

Ceil2(x) == IF x = Floor2(x) THEN x ELSE (2 * Floor2(x)) % Modulus

\* Mutant: a row that adds an element to itself.
RowDoubled(v) == [j \in DOMAIN v |-> IF j = 0 THEN 1 ELSE (2 * v[j - 1]) % Modulus]

\* One turn of binomial's loop over the rows: v2 from v1.
Row(v) == [j \in DOMAIN v |-> IF j = 0 THEN 1 ELSE (v[j - 1] + v[j]) % Modulus]

\* Row i is 1, then sums, then 1, which is what the sums over a first row of
\* one 1 give; the rest of the vectors is not read.
Binomial(n, k) ==
  LET row[i \in 0 .. n] ==
        IF i = 0 THEN [j \in 0 .. n |-> IF j = 0 THEN 1 ELSE 0] ELSE Row(row[i - 1])
  IN row[n][k]

Call(f, x, y, z) == [f |-> f, x |-> x, y |-> y, z |-> z]

NumbersInit == asked = Call("floor2", 0, 0, 0)

\* binomial of the largest n never returns: its loop is over i <= n.
NumbersNext ==
  \E x \in 0 .. Modulus - 1 :
    \/ asked' = Call("floor2", x, 0, Floor2(x))
    \/ asked' = Call("ceil2", x, 0, Ceil2(x))
    \/ /\ x # Modulus - 1
       /\ \E k \in 0 .. x : asked' = Call("binomial", x, k, Binomial(x, k))

-----------------------------------------------------------------------------
(* Properties.                                                             *)

IsPower(x) == \E i \in 0 .. W - 1 : x = TwoTo[i]

\* floor2 and ceil2 are the nearest powers of two; above the largest one
\* ceil2 wraps to 0, and both keep 0.
PowersAreNearest ==
  /\ asked.f = "floor2" /\ asked.x # 0 =>
       IsPower(asked.z) /\ asked.z <= asked.x /\ asked.x < 2 * asked.z
  /\ asked.f = "ceil2" /\ asked.x # 0 =>
       IF asked.x > Modulus \div 2 THEN asked.z = 0
       ELSE IsPower(asked.z) /\ asked.x <= asked.z /\ asked.z < 2 * asked.x

\* binomial(n, k) is the number of subsets, modulo the width of the type,
\* however many of the sums overflow on the way.
BinomialCounts == asked.f = "binomial" => asked.z = Cardinality(kSubset(asked.y, 1 .. asked.x)) % Modulus

\* Each function gives what mathematics says, modulo the width of its type.
NumbersAreRight == PowersAreNearest /\ BinomialCounts
=============================================================================
