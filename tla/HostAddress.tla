----------------------------- MODULE HostAddress -----------------------------
(***************************************************************************)
(* HostAddr of wrap_c/host_addr.cpp holds an address as a text, as a       *)
(* number, or both: it is made from one and computes the other when asked. *)
(* 0 and the empty text mean "not known".  SockAddr pairs it with a port,  *)
(* SockAddrLite (sock_addr.hpp) holds the number alone.                    *)
(***************************************************************************)
EXTENDS Integers

CONSTANTS
  AddrHolders,  \* objects of class HostAddr
  Dotted,       \* Dotted[t]: what inet_aton says of a text that looks like an address
  Resolved,     \* Resolved[t]: the text getaddrinfo() finds for a host name
  Refused,      \* what both say when they fail
  EmptyText,
  Shown         \* Shown[n]: what inet_ntoa makes of number n

\* inet_aton reads what inet_ntoa writes, makes numbers inet_ntoa can write,
\* and no number stands for a refusal.
ASSUME HostAssumption ==
  /\ 0 \in DOMAIN Shown /\ Refused \notin DOMAIN Shown
  /\ \A t \in DOMAIN Dotted : Dotted[t] \in DOMAIN Shown \union {Refused}
  /\ \A n \in DOMAIN Shown : Shown[n] \in DOMAIN Dotted /\ Dotted[Shown[n]] = n
  /\ \A t \in DOMAIN Resolved : t \notin DOMAIN Dotted /\ Resolved[t] \in DOMAIN Dotted \union {Refused}
  /\ EmptyText \notin DOMAIN Dotted

VARIABLES
  addrStr,  \* addr_str_
  addrNum,  \* addr_
  meant,    \* ghost: what the object was made from: [text, number], one of them empty
  answer    \* ghost: what the object answered last

hostVars == <<addrStr, addrNum, meant, answer>>

None == [as |-> "none"]

Becomes(h, t, n, from) ==
  /\ addrStr' = [addrStr EXCEPT ![h] = t]
  /\ addrNum' = [addrNum EXCEPT ![h] = n]
  /\ meant' = [meant EXCEPT ![h] = from]
  /\ answer' = [answer EXCEPT ![h] = None]

\* get_ipv4_addr_of: four groups of digits are taken as they are, anything
\* else is looked up, which may throw.
AddrOf(t) == IF t \in DOMAIN Dotted THEN t ELSE Resolved[t]

FromText(h, t) ==
  /\ AddrOf(t) # Refused
  /\ Becomes(h, AddrOf(t), 0, [text |-> AddrOf(t), number |-> 0])

FromNumber(h, n) == Becomes(h, EmptyText, n, [text |-> EmptyText, number |-> n])
FromNothing(h) == FromNumber(h, 0)

\* Mutant: a copy takes the text and keeps its own number.
CopyAddrText(h, g) ==
  /\ h # g
  /\ Becomes(h, addrStr[g], addrNum[h], meant[g])

\* The defaulted copy takes both members.
CopyAddr(h, g) ==
  /\ h # g
  /\ Becomes(h, addrStr[g], addrNum[g], meant[g])

IsEmpty(h) == addrNum[h] = 0 /\ addrStr[h] = EmptyText

\* Mutant: the text is made anew whenever there is a number.
TextOfAlways(h) == IF addrNum[h] # 0 THEN Shown[addrNum[h]] ELSE addrStr[h]

TextOf(h) == IF addrNum[h] # 0 /\ addrStr[h] = EmptyText THEN Shown[addrNum[h]] ELSE addrStr[h]
NumberOf(h) == IF addrNum[h] = 0 /\ addrStr[h] # EmptyText THEN Dotted[addrStr[h]] ELSE addrNum[h]

AsString(h) ==
  /\ addrStr' = [addrStr EXCEPT ![h] = TextOf(h)]
  /\ answer' = [answer EXCEPT ![h] = [as |-> "string", is |-> TextOf(h)]]
  /\ UNCHANGED <<addrNum, meant>>

\* "Bad IP address" is thrown, and the object stays as it was.
AsNumber(h) ==
  /\ addrNum' = [addrNum EXCEPT ![h] = IF NumberOf(h) = Refused THEN @ ELSE NumberOf(h)]
  /\ answer' = [answer EXCEPT ![h] = [as |-> "number", is |-> NumberOf(h)]]
  /\ UNCHANGED <<addrStr, meant>>

\* Mutant: SockAddrLite takes the member without asking for the number.
LiteRaw(h) == addrNum[h]

NumberMeant(h) == IF meant[h].text # EmptyText THEN Dotted[meant[h].text] ELSE meant[h].number

\* The host of SockAddrLite{SockAddr}.
Lite(h) == NumberOf(h)

\* SockAddrLite::sock_addr(): through the number, into another object.
ThroughLite(h, g) ==
  /\ h # g /\ Lite(h) # Refused
  /\ Becomes(g, EmptyText, Lite(h), [text |-> EmptyText, number |-> NumberMeant(h)])

HostInit ==
  /\ addrStr = [h \in AddrHolders |-> EmptyText]
  /\ addrNum = [h \in AddrHolders |-> 0]
  /\ meant = [h \in AddrHolders |-> [text |-> EmptyText, number |-> 0]]
  /\ answer = [h \in AddrHolders |-> None]

HostNext ==
  \E h \in AddrHolders :
    \/ \E t \in DOMAIN Dotted \union DOMAIN Resolved : FromText(h, t)
    \/ \E n \in DOMAIN Shown : FromNumber(h, n)
    \/ FromNothing(h) \/ AsString(h) \/ AsNumber(h)
    \/ \E g \in AddrHolders : CopyAddr(h, g) \/ ThroughLite(h, g)
-----------------------------------------------------------------------------
(* Properties.                                                             *)

\* The two members never tell of different addresses.
CachesAgree ==
  \A h \in AddrHolders : addrNum[h] # 0 /\ addrStr[h] # EmptyText => Dotted[addrStr[h]] = addrNum[h]

\* What an object answers depends on what it was made from and not on what it
\* was asked before or copied from: a text it was given comes back as it was,
\* and as the number inet_aton makes of it or an exception; a number comes
\* back as it was, and as its text, except that 0 has none.  Through
\* SockAddrLite and back the host stays the same.
AnswersAsMade ==
  /\ CachesAgree
  /\ \A h \in AddrHolders :
       /\ answer[h].as = "string" =>
            answer[h].is = IF meant[h].text # EmptyText THEN meant[h].text
                           ELSE IF meant[h].number = 0 THEN EmptyText ELSE Shown[meant[h].number]
       /\ answer[h].as = "number" => answer[h].is = NumberMeant(h)
=============================================================================
