------------------------------- MODULE ListWalk -------------------------------
(***************************************************************************)
(* A range-for loop over an IntrusiveLinkedList whose body changes lists:  *)
(* begin() and end() are taken once, the iterator holds a node address,    *)
(* and anything the body links, unlinks, moves or destroys happens between *)
(* one operator++ and the next.  The body leaves alone the item it is at   *)
(* (unlinked, that item would be its own successor) and the list object.   *)
(***************************************************************************)
EXTENDS LinkedList

CONSTANT NoNode  \* no node: there is no loop

ASSUME WalkAssumption == NoNode \notin Nodes

VARIABLES
  list,  \* the list being walked, or NoNode
  at,    \* the iterator's node_
  seen,  \* items the loop has been at
  stay   \* items in the list since the loop began, never touched by name

walkVars == <<alive, prev, next, list, at, seen, stay>>

Walking == list # NoNode
ItemsOf(r) == {Traversal(r)[k] : k \in DOMAIN Traversal(r)}

StartWalk(r) ==
  /\ ~Walking /\ r \in alive \intersect Roots
  /\ list' = r
  /\ at' = next[r]
  /\ seen' = {}
  /\ stay' = ItemsOf(r)
  /\ UNCHANGED listVars

\* Mutant: an iterator that was one node ahead (taken before the body ran).
AdvanceSkips ==
  /\ Walking /\ at # list
  /\ seen' = seen \union {at}
  /\ at' = IF next[at] = list THEN list ELSE next[next[at]]
  /\ UNCHANGED <<alive, prev, next, list, stay>>

\* Mutant: a loop that also enters its body at end().
AdvancePastEnd ==
  /\ Walking
  /\ seen' = seen \union {at}
  /\ at' = next[at]
  /\ UNCHANGED <<alive, prev, next, list, stay>>

\* The body has run for the item at `at`; operator++ follows its next_.
Advance ==
  /\ Walking /\ at # list
  /\ seen' = seen \union {at}
  /\ at' = next[at]
  /\ UNCHANGED <<alive, prev, next, list, stay>>

\* The iterator compares equal to end().
EndWalk ==
  /\ Walking /\ at = list
  /\ list' = NoNode /\ at' = NoNode /\ seen' = {} /\ stay' = {}
  /\ UNCHANGED listVars

\* An operation of the body, or of the program outside the loop, that names
\* the nodes S.
Body(S) ==
  /\ Walking => list \notin S /\ at \notin S
  /\ stay' = stay \ S
  /\ UNCHANGED <<list, at, seen>>

Relink ==
  \E n, that \in Nodes :
    \/ Link(n, that) /\ Body({n})
    \/ Move(n, that) /\ Body({n, that})

Change ==
  \/ \E n \in Nodes : Alone(n) /\ Body({n})
  \/ Relink

WalkInit ==
  /\ Init
  /\ list = NoNode /\ at = NoNode /\ seen = {} /\ stay = {}

WalkNext ==
  \/ \E r \in Roots : StartWalk(r)
  \/ Advance \/ EndWalk
  \/ Change

\* A body returns, so the loop advances and ends: that much is fair.
WalkSpec == WalkInit /\ [][WalkNext]_walkVars /\ WF_walkVars(Advance \/ EndWalk)

-----------------------------------------------------------------------------
(* Properties.                                                             *)

WalkTypeOK ==
  /\ list \in Roots \union {NoNode}
  /\ at \in Nodes \union {NoNode}
  /\ seen \subseteq Items /\ stay \subseteq Items

\* The loop is at a live member of its list, or at end(), whatever the body
\* did to the other items: the iterator never follows a pointer into an item
\* that has left the list or ended.
OnList == Walking => at = list \/ at \in ItemsOf(list)

\* When the loop ends it has been at every item that was in the list all
\* along: no change of the neighbours makes it skip one.
NoneMissed == Walking /\ at = list => stay \subseteq seen

\* A loop finds what it should, and follows no pointer that has become stale.
LoopFindsAll == TypeOK /\ WalkTypeOK /\ OnList /\ NoneMissed

\* A loop whose body in the end stops linking and moving items ends: what is
\* unlinked meanwhile never turns the loop into a circle without end().
WalkEnds == <>[][~Relink]_walkVars => (Walking ~> ~Walking)
=============================================================================
