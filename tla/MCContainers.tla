----------------------------- MODULE MCContainers -----------------------------
(* The ring buffer and the small containers, one of them at a time: the    *)
(* subject moves, and the others stay as they are.                         *)
EXTENDS RingIterator, ByteBuffer, FixedArrays, IndexBits, Groups, RangeWalk, Numbers,
        ResourceList, ScratchDirs

VARIABLE subject

MCChunks == {<<1>>, <<2, 1>>}
MCGiven == {{0}, {2}, {4}, {1, 3}}
MCFlags == <<"Foo", "Bar", "Baz", "Far">>

\* The same indices without a stray bit, in a Storage that is shifted as it is.
Full == INSTANCE IndexBits WITH Width <- Count, IntBits <- Count

ContainersInit ==
  /\ ItInit /\ BufInit /\ VecInit /\ BitsInit /\ FlagsInit /\ GroupsInit /\ RangeInit /\ NumbersInit
  /\ FixedInit /\ ResourcesInit /\ ScratchInit
  /\ subject \in {"ring", "bytes", "vector", "bits", "full", "flags", "groups", "range", "numbers",
                 "text", "resources", "scratch"}

ByteVars == <<bufVars, vecVars>>
SetVars == <<bitVars, flagVars>>
OtherVars == <<groupVars, rangeVars, asked>>
OwnerVars == <<fixedVars, resourceVars, scratchVars>>

ContainersNext ==
  /\ subject' = subject
  /\ \/ subject = "ring" /\ ItNext /\ UNCHANGED <<ByteVars, SetVars, OtherVars, OwnerVars>>
     \/ /\ UNCHANGED <<itVars, SetVars, OtherVars, OwnerVars>>
        /\ \/ subject = "bytes" /\ BufNext /\ UNCHANGED vecVars
           \/ subject = "vector" /\ VecNext /\ UNCHANGED bufVars
     \/ /\ UNCHANGED <<itVars, ByteVars, OtherVars, OwnerVars>>
        /\ \/ subject = "bits" /\ BitsNext /\ UNCHANGED flagVars
           \/ subject = "full" /\ Full!BitsNext /\ UNCHANGED flagVars
           \/ subject = "flags" /\ FlagsNext /\ UNCHANGED bitVars
     \/ /\ UNCHANGED <<itVars, ByteVars, SetVars, OwnerVars>>
        /\ \/ subject = "groups" /\ GroupsNext /\ UNCHANGED <<rangeVars, asked>>
           \/ subject = "range" /\ RangeNext /\ UNCHANGED <<groupVars, asked>>
           \/ subject = "numbers" /\ NumbersNext /\ UNCHANGED <<groupVars, rangeVars>>
     \/ /\ UNCHANGED <<itVars, ByteVars, SetVars, OtherVars>>
        /\ \/ subject = "text" /\ FixedNext /\ UNCHANGED <<resourceVars, scratchVars>>
           \/ subject = "resources" /\ ResourcesNext /\ UNCHANGED <<fixedVars, scratchVars>>
           \/ subject = "scratch" /\ ScratchNext /\ UNCHANGED <<fixedVars, resourceVars>>

ContainersSpec ==
  ContainersInit /\
    [][ContainersNext]_<<subject, itVars, ByteVars, SetVars, OtherVars, OwnerVars>>
=============================================================================
