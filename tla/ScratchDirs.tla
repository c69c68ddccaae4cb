------------------------------ MODULE ScratchDirs ------------------------------
(***************************************************************************)
(* ScratchDir of util/scratch_dir.cpp: a directory with a random name that *)
(* its object removes.  Objects of this program and others are made and    *)
(* end at the same time; the random names are few, so they meet.  The file *)
(* system may refuse to remove a directory.                                *)
(***************************************************************************)
EXTENDS Integers, FiniteSets

CONSTANTS
  Makers,    \* objects of the class
  Names,     \* paths the constructor may come upon
  Nowhere,   \* the empty path
  Attempts,  \* names a constructor tries before it gives up
  MoveOverHeld  \* TRUE: programs assign to objects that have a directory

ASSUME AttemptsAssumption == Attempts \in Nat \ {0} /\ Nowhere \notin Names /\ MoveOverHeld \in BOOLEAN

VARIABLES
  dirs,      \* the directories that exist
  path,      \* path_ of each object
  trying,    \* attempts left to a constructor, 0 outside
  orphans,   \* ghost: directories of others, and those given up by detach()
  reported   \* directories an "Error removing directory" was printed for

scratchVars == <<dirs, path, trying, orphans, reported>>

ScratchInit ==
  /\ dirs = {}
  /\ path = [m \in Makers |-> Nowhere]
  /\ trying = [m \in Makers |-> 0]
  /\ orphans = {} /\ reported = {}

Idle(m) == trying[m] = 0

\* The object is constructed in place of an empty one.
BeginConstruct(m) ==
  /\ Idle(m) /\ path[m] = Nowhere
  /\ trying' = [trying EXCEPT ![m] = Attempts]
  /\ UNCHANGED <<dirs, path, orphans, reported>>

\* Mutant: the answer of create_directories() is not looked at.
TryNameAnyway(m, d) ==
  /\ ~Idle(m)
  /\ dirs' = dirs \union {d}
  /\ path' = [path EXCEPT ![m] = d]
  /\ trying' = [trying EXCEPT ![m] = 0]
  /\ UNCHANGED <<orphans, reported>>

\* create_directories() tells whether it made the directory.  The last
\* attempt that meets an existing one makes the constructor throw.
TryName(m, d) ==
  /\ ~Idle(m)
  /\ dirs' = dirs \union {d}
  /\ IF d \in dirs
       THEN trying' = [trying EXCEPT ![m] = @ - 1] /\ UNCHANGED path
       ELSE trying' = [trying EXCEPT ![m] = 0] /\ path' = [path EXCEPT ![m] = d]
  /\ UNCHANGED <<orphans, reported>>

\* Mutant: a destructor that only forgets the path.
DestroyKeepsDir(m) ==
  /\ Idle(m)
  /\ path' = [path EXCEPT ![m] = Nowhere]
  /\ UNCHANGED <<dirs, trying, orphans, reported>>

\* The destructor removes the directory with all that is in it.  If that
\* fails, the exception is caught and printed and the directory stays.
DestroyScratch(m) ==
  /\ Idle(m)
  /\ \/ dirs' = dirs \ {path[m]} /\ UNCHANGED reported
     \/ path[m] # Nowhere /\ reported' = reported \union {path[m]} /\ UNCHANGED dirs
  /\ path' = [path EXCEPT ![m] = Nowhere]
  /\ UNCHANGED <<trying, orphans>>

DetachScratch(m) ==
  /\ Idle(m)
  /\ orphans' = orphans \union ({path[m]} \ {Nowhere})
  /\ path' = [path EXCEPT ![m] = Nowhere]
  /\ UNCHANGED <<dirs, trying, reported>>

\* Move construction and the defaulted move assignment, which forgets the
\* directory the target had and leaves it where it is.
MoveScratch(m, n) ==
  /\ m # n /\ Idle(m) /\ Idle(n)
  /\ MoveOverHeld \/ path[n] = Nowhere
  /\ path' = [path EXCEPT ![m] = Nowhere, ![n] = path[m]]
  /\ UNCHANGED <<dirs, trying, orphans, reported>>

\* The rest of the system makes directories, and cleans up what nobody has.
OutsideMakes(d) ==
  /\ dirs' = dirs \union {d} /\ orphans' = orphans \union ({d} \ dirs)
  /\ UNCHANGED <<path, trying, reported>>

OutsideRemoves(d) ==
  /\ d \in orphans \union reported
  /\ dirs' = dirs \ {d} /\ orphans' = orphans \ {d} /\ reported' = reported \ {d}
  /\ UNCHANGED <<path, trying>>

ScratchNext ==
  \/ \E m \in Makers :
       \/ BeginConstruct(m) \/ DestroyScratch(m) \/ DetachScratch(m)
       \/ \E d \in Names : TryName(m, d)
       \/ \E n \in Makers : MoveScratch(m, n)
  \/ \E d \in Names : OutsideMakes(d) \/ OutsideRemoves(d)

-----------------------------------------------------------------------------
(* Properties.                                                             *)

\* The directory an object will remove exists, is nobody else's, and was
\* made by an object, never found: removing it harms no one.
RemovesItsOwn ==
  \A m \in Makers : path[m] # Nowhere =>
    /\ path[m] \in dirs \ (orphans \union reported)
    /\ \A n \in Makers : path[n] = path[m] => n = m

\* "removed on destruction" (scratch_dir.hpp:2): every directory an object
\* made has an object that will remove it, unless it was detached, or its
\* removal was tried and the error printed.
NothingLeftBehind == dirs \ orphans \subseteq {path[m] : m \in Makers} \union reported

\* Own directories go, and those of others stay.
OwnDirectoriesGo == RemovesItsOwn /\ NothingLeftBehind
=============================================================================
