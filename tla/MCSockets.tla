------------------------------ MODULE MCSockets ------------------------------
(* Descriptors, datagrams and addresses, one at a time: the subject moves, *)
(* and the others stay as they are.                                        *)
EXTENDS FdOwnership, Datagrams, HostAddress, TLC

VARIABLE subject

Symmetry == Permutations(Threads) \union Permutations(Handles)

MCTexts == {<<>>, <<1>>, <<1, 2>>}
MCDotted == [t \in {"0.0.0.0", "1.0.0.0", "2.0.0.0", "01.0.0.0", "999.0.0.0"} |->
              CASE t = "0.0.0.0" -> 0 [] t \in {"1.0.0.0", "01.0.0.0"} -> 1
                [] t = "2.0.0.0" -> 2 [] OTHER -> Refused]
MCResolved == [t \in {"localhost", "nowhere"} |-> IF t = "localhost" THEN "1.0.0.0" ELSE Refused]
MCShown == [n \in 0 .. 2 |-> CHOOSE t \in {"0.0.0.0", "1.0.0.0", "2.0.0.0"} : MCDotted[t] = n]

SocketsInit ==
  /\ Init /\ DatagramsInit /\ HostInit
  /\ subject \in {"descriptors", "datagrams", "addresses"}
  \* What does not move starts in one way only.
  /\ subject = "descriptors" \/ (open = Fds /\ \A t, u \in Threads : call[t].h = call[u].h)
  /\ subject = "datagrams" \/ \A s \in Sockets : family[s] = "inet"

SocketsNext ==
  /\ subject' = subject
  /\ \/ subject = "descriptors" /\ Next /\ UNCHANGED <<datagramVars, hostVars>>
     \/ subject = "datagrams" /\ DatagramsNext /\ UNCHANGED <<vars, hostVars>>
     \/ subject = "addresses" /\ HostNext /\ UNCHANGED <<vars, datagramVars>>

SocketsSpec == SocketsInit /\ [][SocketsNext]_<<subject, vars, datagramVars, hostVars>>
=============================================================================
