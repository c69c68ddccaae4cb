------------------------------ MODULE LinkedList ------------------------------
(***************************************************************************)
(* The intrusive doubly linked list of util/linked_list.hpp.  A list is a  *)
(* ring of nodes through its root_; a node in no list is a ring of its     *)
(* own.  Nodes are objects with a lifetime: they unlink themselves when    *)
(* they end, and moving one puts the new object into the old one's place.  *)
(***************************************************************************)
EXTENDS Integers, FiniteSets

CONSTANTS
  Items,        \* LinkedListConnectivity objects of the program
  Roots,        \* the root_ of each IntrusiveLinkedList
  MoveUnlinked  \* TRUE: an item of no list, or an empty list, may be moved

Nodes == Items \union Roots

ASSUME ListAssumption ==
  /\ IsFiniteSet(Nodes)
  /\ Items \intersect Roots = {}
  /\ MoveUnlinked \in BOOLEAN

VARIABLES
  alive,  \* nodes whose constructor has run and destructor has not
  prev,   \* prev_
  next    \* next_

listVars == <<alive, prev, next>>

(***************************************************************************)
(* The pointers after unlink() of n.                                       *)
(***************************************************************************)
\* Mutant: unlink() that leaves the node before n pointing at n.
UnlinkedNextKeepsBefore(n) == [next EXCEPT ![n] = n]

UnlinkedNext(n) ==
  IF prev[n] = n THEN next ELSE [next EXCEPT ![prev[n]] = next[n], ![n] = n]
UnlinkedPrev(n) ==
  IF prev[n] = n THEN prev ELSE [prev EXCEPT ![next[n]] = prev[n], ![n] = n]

(***************************************************************************)
(* The pointers after `to` has taken over those of `from`, in the order of *)
(* the statements; nx and pv are the pointers before.                      *)
(***************************************************************************)
\* Mutant: the moved-from node is left with a null pointer.
TakenNextNull(nx, pv, to, from) ==
  [nx EXCEPT ![to] = nx[from], ![pv[from]] = to, ![from] = "null"]

TakenNext(nx, pv, to, from) ==
  [nx EXCEPT ![to] = nx[from], ![pv[from]] = to, ![from] = from]

\* Mutant: a move after which the neighbour still points at the old object.
TakenPrevKeepsOld(nx, pv, to, from) ==
  [pv EXCEPT ![to] = pv[from], ![from] = from]

TakenPrev(nx, pv, to, from) ==
  [pv EXCEPT ![to] = pv[from], ![nx[from]] = to, ![from] = from]

\* The caller's side: what is moved is in a ring with others.
Movable(pv, from) == MoveUnlinked \/ pv[from] # from

SameKind(n, m) == n \in Items <=> m \in Items

-----------------------------------------------------------------------------
Construct(n) ==
  /\ n \notin alive
  /\ alive' = alive \union {n}
  /\ prev' = [prev EXCEPT ![n] = n]
  /\ next' = [next EXCEPT ![n] = n]

Destroy(n) ==
  /\ n \in alive
  /\ alive' = alive \ {n}
  /\ prev' = UnlinkedPrev(n)
  /\ next' = UnlinkedNext(n)

\* root_ is private: only items are unlinked by name.
Unlink(n) ==
  /\ n \in alive \intersect Items
  /\ prev' = UnlinkedPrev(n)
  /\ next' = UnlinkedNext(n)
  /\ UNCHANGED alive

\* Mutant: link_to() that puts the node after `that`.
LinkAfter(n, that) ==
  LET pv == UnlinkedPrev(n)
      nx == UnlinkedNext(n)
      s == nx[that]
  IN /\ n \in alive \intersect Items /\ that \in alive
     /\ next' = [nx EXCEPT ![n] = s, ![that] = n]
     /\ prev' = [pv EXCEPT ![n] = that, ![s] = n]
     /\ UNCHANGED alive

\* link_to(that): unlink(), then in between that.prev_ and that.
\* IntrusiveLinkedList::link(n) is this with its root_.
Link(n, that) ==
  LET pv == UnlinkedPrev(n)
      p == pv[that]
      nx == [UnlinkedNext(n) EXCEPT ![n] = that, ![p] = n]
  IN /\ n \in alive \intersect Items /\ that \in alive
     /\ next' = nx
     /\ prev' = [pv EXCEPT ![n] = p, ![nx[n]] = n]
     /\ UNCHANGED alive

MoveConstruct(n, that) ==
  /\ n \notin alive /\ that \in alive /\ SameKind(n, that)
  /\ Movable(prev, that)
  /\ alive' = alive \union {n}
  /\ prev' = TakenPrev(next, prev, n, that)
  /\ next' = TakenNext(next, prev, n, that)

MoveAssign(n, that) ==
  LET pv == UnlinkedPrev(n)
      nx == UnlinkedNext(n)
  IN /\ n \in alive /\ that \in alive /\ SameKind(n, that)
     /\ n # that                    \* self-assignment does nothing
     /\ Movable(pv, that)
     /\ prev' = TakenPrev(nx, pv, n, that)
     /\ next' = TakenNext(nx, pv, n, that)
     /\ UNCHANGED alive

Alone(n) == Construct(n) \/ Destroy(n) \/ Unlink(n)
Move(n, that) == MoveConstruct(n, that) \/ MoveAssign(n, that)

Init ==
  /\ alive = {}
  /\ prev = [n \in Nodes |-> n]
  /\ next = [n \in Nodes |-> n]

Next ==
  \E n \in Nodes :
    \/ Alone(n)
    \/ \E that \in Nodes : Link(n, that) \/ Move(n, that)

Spec == Init /\ [][Next]_listVars

-----------------------------------------------------------------------------
(* Properties.                                                             *)

TypeOK ==
  /\ alive \subseteq Nodes
  /\ prev \in [Nodes -> Nodes]
  /\ next \in [Nodes -> Nodes]

\* "Intrusive doubly-linked list" (linked_list.hpp:2): the two directions
\* mirror each other and never lead to an object that has ended.
DoublyLinked ==
  \A n \in alive :
    /\ next[n] \in alive /\ prev[next[n]] = n
    /\ prev[n] \in alive /\ next[prev[n]] = n

-----------------------------------------------------------------------------
(* What a loop over a list meets, and that every operation on the          *)
(* pointers is an operation on the sequences of ItemLists.                 *)

\* The nodes that operator++ reaches from r in 0, 1, 2, ... steps.
After(r) ==
  LET node[k \in 0 .. Cardinality(Nodes)] ==
        IF k = 0 THEN r ELSE next[node[k - 1]]
  IN node

\* The items from begin() to end() of a live list; if r is never met again,
\* as many as there are nodes, which no list has.
Traversal(r) ==
  LET back == {k \in 1 .. Cardinality(Nodes) : After(r)[k] = r}
      n == IF back = {} THEN Cardinality(Nodes)
                        ELSE (CHOOSE k \in back : \A j \in back : k <= j) - 1
  IN IF r \in alive THEN [k \in 1 .. n |-> After(r)[k]] ELSE <<>>

Lists == INSTANCE ItemLists WITH lists <- [r \in Roots |-> Traversal(r)]

\* Each call is the very operation its name says: linking to a list appends,
\* linking to an item inserts before it, a moved object stands where the
\* old one stood.
EachCallAgrees ==
  [][\A n, that \in Nodes :
       /\ Link(n, that) => CASE that \in Roots -> Lists!AppendTo(n, that)
                             [] that = n -> Lists!Leave(n)
                             [] OTHER -> Lists!InsertBefore(n, that)
       /\ Unlink(n) => Lists!Leave(n)
       /\ Destroy(n) => IF n \in Roots THEN Lists!Drop(n) ELSE Lists!Leave(n)
       /\ Move(n, that) => IF n \in Roots THEN Lists!TakeOver(n, that)
                                          ELSE Lists!TakePlace(n, that)
    ]_listVars

\* Each operation changes the lists as ItemLists says: the place and the
\* order of every item the operation does not name stay as they were, also
\* when the item is the last of its list or neighbours are moved onto each
\* other.
ImplementsLists == Lists!Spec /\ EachCallAgrees
=============================================================================
