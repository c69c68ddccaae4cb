------------------------------ MODULE ItemLists ------------------------------
(***************************************************************************)
(* What linked_list.hpp promises: every list is a sequence of items, an    *)
(* item is in at most one list, and changing one item's membership leaves  *)
(* the order of all the others as it was.                                  *)
(***************************************************************************)
EXTENDS SequencesExt

CONSTANTS Items, Roots

VARIABLE lists

Leave(n) == lists' = [r \in Roots |-> RemoveFirst(lists[r], n)]

AppendTo(n, r) ==
  lists' = [q \in Roots |-> LET s == RemoveFirst(lists[q], n)
                            IN IF q = r THEN Append(s, n) ELSE s]

InsertBefore(n, m) ==
  /\ n # m
  /\ lists' = [r \in Roots |->
                 LET s == RemoveFirst(lists[r], n)
                     place == {k \in DOMAIN s : s[k] = m}
                 IN IF place = {} THEN s
                                  ELSE InsertAt(s, CHOOSE k \in place : TRUE, n)]

\* n, removed from where it was, stands where m stood.
TakePlace(n, m) ==
  /\ n # m
  /\ lists' = [r \in Roots |-> ReplaceAll(RemoveFirst(lists[r], n), m, n)]

\* What was in q is now in r; what was in r is in no list.
TakeOver(r, q) ==
  /\ r # q
  /\ lists' = [lists EXCEPT ![r] = lists[q], ![q] = <<>>]

Drop(r) == lists' = [lists EXCEPT ![r] = <<>>]

Init == lists = [r \in Roots |-> <<>>]

Next ==
  \/ \E n \in Items :
       \/ Leave(n)
       \/ \E r \in Roots : AppendTo(n, r)
       \/ \E m \in Items : InsertBefore(n, m) \/ TakePlace(n, m)
  \/ \E r \in Roots : Drop(r) \/ \E q \in Roots : TakeOver(r, q)

Spec == Init /\ [][Next]_lists
=============================================================================
