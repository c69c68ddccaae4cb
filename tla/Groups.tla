-------------------------------- MODULE Groups --------------------------------
(***************************************************************************)
(* Grouped<T> of strong/grouped.hpp: one vector with the values of all     *)
(* groups, and the offsets at which groups end, after a first 0.  Offsets  *)
(* are uint32_t.                                                           *)
(***************************************************************************)
EXTENDS Integers, Sequences, SequencesExt

CONSTANTS
  Members,    \* values of T
  OffsetMod,  \* 2^32
  MaxGroups   \* bound: the largest group_count()

ASSUME OffsetAssumption == OffsetMod \in Nat \ {0} /\ MaxGroups \in Nat

VARIABLES
  values, groups,  \* the two vectors
  closed, open     \* ghost: the groups ended by next_group(), and the rest

groupVars == <<values, groups, closed, open>>

GroupCount == Len(groups) - 1

\* Mutant: a group that starts at the offset that ends it.
GroupFromEnd(g) == SubSeq(values, groups[g + 2] + 1, groups[g + 2])

\* group() and operator<<, which prints every group.
Group(g) == SubSeq(values, groups[g + 1] + 1, groups[g + 2])

GroupsInit == values = <<>> /\ groups = <<0>> /\ closed = <<>> /\ open = <<>>

\* No more values than an offset can tell apart, the caller's duty.
AddToLastGroup(v) ==
  /\ Len(values) < OffsetMod - 1
  /\ values' = Append(values, v)
  /\ open' = Append(open, v)
  /\ UNCHANGED <<groups, closed>>

NextGroup ==
  /\ GroupCount < MaxGroups
  /\ groups' = Append(groups, Len(values) % OffsetMod)
  /\ closed' = Append(closed, open)
  /\ open' = <<>>
  /\ UNCHANGED values

\* A fresh Grouped is assigned.
StartOver == values' = <<>> /\ groups' = <<0>> /\ closed' = <<>> /\ open' = <<>>

GroupsNext == NextGroup \/ StartOver \/ \E v \in Members : AddToLastGroup(v)

-----------------------------------------------------------------------------
(* Properties.                                                             *)

\* The groups are the values as they were separated by next_group(), empty
\* groups included.  The values after the last next_group() are in none,
\* although add_to_last_group (grouped.hpp:40) is what put them there.
GroupsAsClosed ==
  /\ GroupCount = Len(closed)
  /\ \A g \in 0 .. GroupCount - 1 : Group(g) = closed[g + 1]
  /\ values = FlattenSeq(closed) \o open
=============================================================================
