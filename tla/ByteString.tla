------------------------------ MODULE ByteString ------------------------------
(***************************************************************************)
(* What ByteBuf promises: a string of bytes with room in front of it for   *)
(* headers that are prepended later.                                       *)
(***************************************************************************)
EXTENDS Naturals, Sequences

CONSTANTS Bytes, MaxStore, Chunks

VARIABLES text, room

Fill(d, r) == text' = d /\ room' = r

\* The bytes of a string that is only allocated are whatever they are.
Allocated(n) == text' \in [1 .. n -> Bytes] /\ room' = 0

Prefix(d) == Len(d) <= room /\ text' = d \o text /\ room' = room - Len(d)

Suffix(d) == text' = text \o d /\ UNCHANGED room

Drop(n) ==
  /\ n <= Len(text)
  /\ text' = SubSeq(text, n + 1, Len(text))
  /\ room' = room + n

Compact == room' = 0 /\ UNCHANGED text

Poke(i, b) == i \in DOMAIN text /\ text' = [text EXCEPT ![i] = b] /\ UNCHANGED room

Init == text = <<>> /\ room = 0

Next ==
  \/ \E d \in Chunks, n \in 0 .. MaxStore : Fill(d, n) \/ Prefix(d) \/ Suffix(d)
  \/ \E n \in 0 .. MaxStore : Fill(<<>>, 0) \/ Allocated(n) \/ Drop(n)
  \/ Compact
  \/ \E i \in 1 .. MaxStore, b \in Bytes : Poke(i, b)

Spec == Init /\ [][Next]_<<text, room>>
=============================================================================
