------------------------------ MODULE Datagrams ------------------------------
(***************************************************************************)
(* bind, addr, sendto, recvfrom and read_size of wrap_c, which are written *)
(* twice, in socket.cpp and io.cpp.  Ports are in network byte order below *)
(* the system calls and in host order above them; a host stays in network  *)
(* order on both sides.  Port 0 lets the kernel choose.  The network may   *)
(* drop datagrams.                                                         *)
(***************************************************************************)
EXTENDS Integers, Sequences, FiniteSetsExt

CONSTANTS
  Sockets,     \* sockets with one reader each
  Hosts,       \* IPv4 addresses, as the kernel has them
  Half,        \* a byte of a port has Half values
  Ports,       \* the port numbers programs ask for; the member is an int
  Ephemeral,   \* those the kernel chooses from
  Texts,       \* the datagrams' contents, sequences
  MaxQueued,   \* bound on a receive queue
  MaxSent      \* bound on the datagrams sent

ASSUME DatagramsAssumption ==
  /\ Half \in Nat \ {0} /\ Ports \subseteq Int
  /\ Ephemeral \subseteq 1 .. (Half * Half) - 1
  /\ \A t \in Texts : t \in Seq({t[i] : i \in DOMAIN t})

VARIABLES
  family,   \* family[s]: "inet", or "unix" for socketpair(), whose senders cannot be decoded
  bound,    \* bound[s]: sockaddr_in of the socket, Unbound if none
  queue,    \* queue[s]: what has arrived, each with its sender
  sized,    \* sized[s]: what read_size() said since the last read, -1 if it was not asked
  result,   \* result[s]: what recvfrom() returned or threw last
  asked,    \* ghost: asked[s]: the address given to bind()
  sends     \* datagrams sent so far

datagramVars == <<family, bound, queue, sized, result, asked, sends>>

Unbound == [host |-> 0, port |-> 0]
Addresses == [host : Hosts, port : Ports]
Nothing == [how |-> "none", data |-> <<>>, from |-> Unbound, room |-> 0,
            was |-> [data |-> <<>>, from |-> 0]]

\* htons() narrows to 16 bits; it and ntohs() swap the bytes.
Swapped(p) == ((p % Half) * Half) + (p \div Half)
HostToNet(p) == Swapped(p % (Half * Half))

\* Mutant: the port goes out as it is.
SockaddrUnswapped(a) == [host |-> a.host, port |-> a.port % (Half * Half)]

\* The sockaddr_in that connect(), bind() and sendto() fill in.
Sockaddr(a) == [host |-> a.host, port |-> HostToNet(a.port)]

\* addr_from_sockaddr_in
Decode(sa) == [host |-> sa.host, port |-> Swapped(sa.port)]

\* What the kernel binds a socket to that asks for a.
Assigned(a) ==
  IF Sockaddr(a).port # 0 THEN {Sockaddr(a)}
  ELSE {Sockaddr([host |-> a.host, port |-> p]) : p \in Ephemeral}

Bind(s, a) ==
  /\ family[s] = "inet" /\ bound[s] = Unbound
  /\ \E sa \in Assigned(a) :
       /\ \A t \in Sockets : bound[t] # sa
       /\ bound' = [bound EXCEPT ![s] = sa]
  /\ asked' = [asked EXCEPT ![s] = a]
  /\ UNCHANGED <<family, queue, sized, result, sends>>

\* addr()
BoundTo(s) == Decode(bound[s])

Arrive(r, s, data) ==
  /\ Len(queue[r]) < MaxQueued
  /\ queue' = [queue EXCEPT ![r] = Append(@, [data |-> data, from |-> s])]

\* The receiver is whoever is bound to that sockaddr; nobody there, or a
\* datagram dropped on the way, is no error.  Port 0, which throws, is nobody's.
SendTo(s, a, data) ==
  /\ family[s] = "inet" /\ bound[s] # Unbound /\ sends < MaxSent
  /\ sends' = sends + 1
  /\ \/ UNCHANGED queue
     \/ \E r \in Sockets : bound[r] = Sockaddr(a) /\ Arrive(r, s, data)
  /\ UNCHANGED <<family, bound, sized, result, asked>>

\* write() to the other socket of a socketpair.
WritePair(s, r, data) ==
  /\ family[s] = "unix" /\ s # r /\ sends < MaxSent
  /\ sends' = sends + 1
  /\ Arrive(r, s, data)
  /\ UNCHANGED <<family, bound, sized, result, asked>>

\* Mutant: the size of the datagram that came last.
ReadSizeLast(s) ==
  /\ sized' = [sized EXCEPT ![s] = IF queue[s] = <<>> THEN 0 ELSE Len(queue[s][Len(queue[s])].data)]
  /\ UNCHANGED <<family, bound, queue, result, asked, sends>>

\* FIONREAD: the size of the next datagram, 0 if there is none yet.
ReadSize(s) ==
  /\ sized' = [sized EXCEPT ![s] = IF queue[s] = <<>> THEN 0 ELSE Len(Head(queue[s]).data)]
  /\ UNCHANGED <<family, bound, queue, result, asked, sends>>

\* Mutant: the address returned is the receiver's.
SenderOfSelf(s, d) == Decode(bound[s])

SenderOf(s, d) == Decode(bound[d.from])

\* A datagram longer than the buffer is cut, and the sender's address decoded.
Received(s, d, n) ==
  [how |-> IF n = sized[s] THEN "sized" ELSE "unsized", room |-> n,
   data |-> SubSeq(d.data, 1, Min({n, Len(d.data)})), from |-> SenderOf(s, d), was |-> d]

\* Waits for a datagram.  The address may be refused after the kernel has
\* given the datagram away.
RecvFrom(s, n) ==
  LET d == Head(queue[s])
  IN  /\ queue[s] # <<>>
      /\ queue' = [queue EXCEPT ![s] = Tail(@)]
      /\ result' = [result EXCEPT ![s] =
           IF family[s] = "inet" THEN Received(s, d, n) ELSE [Nothing EXCEPT !.how = "thrown", !.was = d]]
      /\ sized' = [sized EXCEPT ![s] = -1]
      /\ UNCHANGED <<family, bound, asked, sends>>

DatagramsInit ==
  /\ family \in {[s \in Sockets |-> f] : f \in {"inet", "unix"}}
  /\ bound = [s \in Sockets |-> Unbound]
  /\ queue = [s \in Sockets |-> <<>>]
  /\ sized = [s \in Sockets |-> -1]
  /\ result = [s \in Sockets |-> Nothing]
  /\ asked = [s \in Sockets |-> Unbound]
  /\ sends = 0

DatagramsNext ==
  \E s \in Sockets :
    \/ \E a \in Addresses : Bind(s, a)
    \/ \E a \in Addresses \union {BoundTo(r) : r \in Sockets} : \E data \in Texts : SendTo(s, a, data)
    \/ ReadSize(s)
    \/ \E r \in Sockets : \E data \in Texts : WritePair(s, r, data)
    \/ \E n \in {Max({sized[s], 0}), 1} : RecvFrom(s, n)
-----------------------------------------------------------------------------
(* Properties.                                                             *)

\* addr() of a bound socket is the address it was bound to, for every port of
\* 16 bits; a larger int names another port, without an error.  One that left
\* the port to the kernel learns it, "EXPECT_NE(bound.port, 0)"
\* (test_wrap_c.cpp:154), and whoever is told that address reaches the socket.
AddressComesBack ==
  \A s \in Sockets : bound[s] # Unbound =>
    LET port == asked[s].port % (Half * Half)
    IN  /\ BoundTo(s).host = asked[s].host
        /\ BoundTo(s).port # 0 /\ port \in {0, BoundTo(s).port}
        /\ Sockaddr(BoundTo(s)) = bound[s]

\* The address recvfrom() returns is one a sendto() reaches the sender with.
AnswerReachesSender ==
  \A s \in Sockets : result[s].how \in {"sized", "unsized"} => Sockaddr(result[s].from) = bound[result[s].was.from]

\* A buffer of read_size() bytes takes the whole datagram, however many have
\* arrived in between, as long as nobody else reads.  Not so for a size of 0:
\* it may have been said of an empty queue, and the datagram that has come
\* since is cut to nothing.
SizedReadIsWhole ==
  \A s \in Sockets :
    result[s].how = "sized" /\ result[s].room > 0 => result[s].data = result[s].was.data

\* What a socket is told of addresses and sizes fits what was sent, by whom.
DatagramsAgree == AddressComesBack /\ AnswerReachesSender /\ SizedReadIsWhole
=============================================================================
