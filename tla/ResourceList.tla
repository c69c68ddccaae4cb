----------------------------- MODULE ResourceList -----------------------------
(***************************************************************************)
(* ResourceList of util/resource_list.hpp: resources of any type that are  *)
(* released together, the newest first, because a newer one may use an     *)
(* older one.  clear() empties the entries of the list one by one and      *)
(* leaves them in it.  A move hands the whole list over.                   *)
(***************************************************************************)
EXTENDS Integers, Sequences, SequencesExt

CONSTANTS
  Owners,          \* objects of the class
  Resources,       \* what is made, each once
  Gone,            \* an empty shared_ptr
  AssignOverHeld   \* TRUE: a list that holds resources is assigned to

ASSUME ResourcesAssumption == Gone \notin Resources /\ AssignOverHeld \in BOOLEAN

VARIABLES
  lists,    \* data_ of each object
  releasing,\* where the reverse iterator of clear() stands, 0 outside
  uses,     \* ghost: the resources that were in the list when one was made
  freed     \* ghost: the released resources, in order

resourceVars == <<lists, releasing, uses, freed>>

Alive == (UNION {ToSet(lists[o]) : o \in Owners}) \ {Gone}
Quiet(o) == releasing[o] = 0

ResourcesInit ==
  /\ lists = [o \in Owners |-> <<>>]
  /\ releasing = [o \in Owners |-> 0]
  /\ uses = [r \in {} |-> {}]
  /\ freed = <<>>

\* make() and operator()
MakeResource(o, r) ==
  /\ Quiet(o) /\ r \notin DOMAIN uses
  /\ lists' = [lists EXCEPT ![o] = Append(@, r)]
  /\ uses' = [q \in DOMAIN uses \union {r} |-> IF q = r THEN ToSet(lists[o]) \ {Gone} ELSE uses[q]]
  /\ UNCHANGED <<releasing, freed>>

\* clear() and the destructor, one entry at a time.
BeginClear(o) ==
  /\ Quiet(o)
  /\ releasing' = [releasing EXCEPT ![o] = Len(lists[o])]
  /\ UNCHANGED <<lists, uses, freed>>

\* Mutant: clear() from front to back.
ResetFront(o) ==
  LET at == Len(lists[o]) + 1 - releasing[o]
  IN  /\ ~Quiet(o)
      /\ lists' = [lists EXCEPT ![o][at] = Gone]
      /\ freed' = IF lists[o][at] = Gone THEN freed ELSE Append(freed, lists[o][at])
      /\ releasing' = [releasing EXCEPT ![o] = @ - 1]
      /\ UNCHANGED uses

ResetNext(o) ==
  LET at == releasing[o]
  IN  /\ ~Quiet(o)
      /\ lists' = [lists EXCEPT ![o][at] = Gone]
      /\ freed' = IF lists[o][at] = Gone THEN freed ELSE Append(freed, lists[o][at])
      /\ releasing' = [releasing EXCEPT ![o] = @ - 1]
      /\ UNCHANGED uses

\* Mutant: a move that leaves the entries in the source.
MoveListCopies(o, p) ==
  /\ o # p /\ Quiet(o) /\ Quiet(p)
  /\ AssignOverHeld \/ ToSet(lists[p]) \subseteq {Gone}
  /\ lists' = [lists EXCEPT ![p] = lists[o]]
  /\ UNCHANGED <<freed, releasing, uses>>

\* Move construction, and move assignment over a list without resources.
\* The defaulted assignment over a list with some drops them first, from
\* front to back.
MoveList(o, p) ==
  /\ o # p /\ Quiet(o) /\ Quiet(p)
  /\ AssignOverHeld \/ ToSet(lists[p]) \subseteq {Gone}
  /\ lists' = [lists EXCEPT ![o] = <<>>, ![p] = lists[o]]
  /\ freed' = IF ToSet(lists[p]) \subseteq {Gone} THEN freed
              ELSE freed \o SelectSeq(lists[p], LAMBDA r : r # Gone)
  /\ UNCHANGED <<releasing, uses>>

ResourcesNext ==
  \E o \in Owners :
    \/ \E r \in Resources : MakeResource(o, r)
    \/ BeginClear(o) \/ ResetNext(o)
    \/ \E p \in Owners : MoveList(o, p)

-----------------------------------------------------------------------------
(* Properties.                                                             *)

\* A resource outlives those made after it in its list, at every moment of
\* a release and wherever the list has moved; a later clear() passes over
\* the empty entries an earlier one left.
OlderOutlivesNewer == \A r \in Alive : uses[r] \subseteq Alive

\* Each resource is released once, and none is lost in a move.
ReleasedOnce ==
  /\ IsInjective(freed)
  /\ Alive \intersect ToSet(freed) = {}
  /\ Alive \union ToSet(freed) = DOMAIN uses

\* Everything is released, once, and in an order nobody is hurt by.
ReleasedInOrder == OlderOutlivesNewer /\ ReleasedOnce
=============================================================================
