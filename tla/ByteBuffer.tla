------------------------------ MODULE ByteBuffer ------------------------------
(***************************************************************************)
(* ByteBuf of types/byte_buf.hpp: a vector of bytes that only grows, and   *)
(* two offsets in it.  What lies outside the offsets is old, never         *)
(* cleared.  An integer or enumeration goes in as the bytes it is made of. *)
(***************************************************************************)
EXTENDS Integers, Sequences

CONSTANTS
  Bytes,     \* the values of a byte, 0 among them
  Chunks,    \* the strings of bytes that are loaded, prepended and appended
  MaxStore   \* bound: the largest vector

ASSUME BytesAssumption ==
  /\ 0 \in Bytes
  /\ MaxStore \in Nat
  /\ Chunks \subseteq Seq(Bytes)

VARIABLES
  store,        \* buf_
  first, last,  \* begin_ and end_
  moved         \* TRUE: moved from; the vector is gone, the offsets are not

bufVars == <<store, first, last, moved>>

View == SubSeq(store, first + 1, last)

\* ensure_size
Grown(n) ==
  [i \in 1 .. IF Len(store) < n THEN n ELSE Len(store) |->
     IF i \in DOMAIN store THEN store[i] ELSE 0]

\* memcpy and memmove
Copied(s, at, d) ==
  [i \in DOMAIN s |-> IF i - at \in DOMAIN d THEN d[i - at] ELSE s[i]]

BufInit == store = <<>> /\ first = 0 /\ last = 0 /\ moved = FALSE

\* Construction, load() and clear().
Load(d, o) ==
  /\ o + Len(d) <= MaxStore
  /\ store' = Copied(Grown(o + Len(d)), o, d)
  /\ first' = o /\ last' = o + Len(d) /\ moved' = FALSE

Alloc(n) ==
  /\ store' = Grown(n)
  /\ first' = 0 /\ last' = n /\ moved' = FALSE

\* Throws, and changes nothing, if there is no room.
Prepend(d) ==
  /\ ~moved /\ first >= Len(d)
  /\ store' = Copied(store, first - Len(d), d)
  /\ first' = first - Len(d)
  /\ UNCHANGED <<last, moved>>

\* Mutant: the vector grows by what is appended to the view, not to last.
AppendGrowsShort(d) ==
  /\ ~moved /\ last + Len(d) <= MaxStore
  /\ store' = Copied(Grown(last - first + Len(d)), last, d)
  /\ last' = last + Len(d)
  /\ UNCHANGED <<first, moved>>

AppendTo(d) ==
  /\ ~moved /\ last + Len(d) <= MaxStore
  /\ store' = Copied(Grown(last + Len(d)), last, d)
  /\ last' = last + Len(d)
  /\ UNCHANGED <<first, moved>>

\* The caller's duty: no more than there is.
DiscardPrefix(n) ==
  /\ ~moved /\ n <= last - first
  /\ first' = first + n
  /\ UNCHANGED <<store, last, moved>>

\* Mutant: shrink() that moves the bytes but not the end.
ShrinkKeepsEnd ==
  /\ ~moved
  /\ store' = Copied(store, 0, View)
  /\ first' = 0
  /\ UNCHANGED <<last, moved>>

Shrink ==
  /\ ~moved
  /\ store' = Copied(store, 0, View)
  /\ last' = last - first /\ first' = 0
  /\ UNCHANGED moved

\* Writing through data() and mutable_view().
Overwrite(i, b) ==
  /\ ~moved /\ i < last - first
  /\ store' = [store EXCEPT ![first + i + 1] = b]
  /\ UNCHANGED <<first, last, moved>>

\* The defaulted move takes the vector and leaves the offsets.  A buffer
\* moved from may only be loaded, cleared or allocated again.
MoveOut == store' = <<>> /\ moved' = TRUE /\ UNCHANGED <<first, last>>

BufNext ==
  \/ \E d \in Chunks \union {<<>>}, o \in 0 .. MaxStore : Load(d, o)
  \/ \E n \in 0 .. MaxStore : Alloc(n) \/ DiscardPrefix(n)
  \/ \E d \in Chunks : Prepend(d) \/ AppendTo(d)
  \/ Shrink
  \/ \E i \in 0 .. MaxStore - 1, b \in Bytes : Overwrite(i, b)
  \/ MoveOut

BufSpec == BufInit /\ [][BufNext]_bufVars

-----------------------------------------------------------------------------
(* Properties.                                                             *)

\* The offsets never leave the vector, whatever order of growing, shrinking
\* and discarding led here: view() shows no byte that does not exist.
ViewInStore ==
  /\ store \in Seq(Bytes) /\ Len(store) <= MaxStore
  /\ first \in Nat /\ last \in Nat /\ moved \in BOOLEAN
  /\ first <= last /\ last <= MaxStore
  /\ ~moved => last <= Len(store)

Str == INSTANCE ByteString WITH text <- IF moved THEN <<>> ELSE View,
                                room <- IF moved THEN 0 ELSE first

\* Old bytes on either side of the view never come into it, and what is in
\* it is never lost: each call does to the view what its name says, and
\* leaves the offsets where there are bytes.
BytesAgree ==
  [][ /\ ViewInStore'
      /\ \A d \in Chunks :
           /\ \A o \in 0 .. MaxStore : Load(d, o) => Str!Fill(d, o)
           /\ Prepend(d) => Str!Prefix(d)
           /\ AppendTo(d) => Str!Suffix(d)
      /\ \A n \in 0 .. MaxStore :
           /\ Alloc(n) => Str!Allocated(n)
           /\ DiscardPrefix(n) => Str!Drop(n)
      /\ Shrink => Str!Compact
      /\ \A i \in 0 .. MaxStore - 1, b \in Bytes : Overwrite(i, b) => Str!Poke(i + 1, b)
    ]_bufVars
=============================================================================
