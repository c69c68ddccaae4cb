----------------------------- MODULE SocketProofs -----------------------------
(***************************************************************************)
(* What sockets and host addresses promise, proved for every number of     *)
(* sockets and objects, every address and every content.                   *)
(***************************************************************************)
EXTENDS HostAddress, Datagrams, SequenceTheorems, TLAPS

-----------------------------------------------------------------------------
(* HostAddr: two members, each a cache of the other.                       *)

\* An object with text t and number n can have been made from m: what it was
\* made from is there, and the other member is empty or says the same.
Fits(t, n, m) ==
  /\ m.text # EmptyText =>
       /\ t = m.text /\ m.text \in DOMAIN Dotted
       /\ n \in {0, Dotted[m.text]} /\ n # Refused
  /\ m.text = EmptyText =>
       /\ n = m.number /\ n \in DOMAIN Shown
       /\ t = EmptyText \/ (n # 0 /\ t = Shown[n])

\* Answer a is true of an object made from m.
IsTrue(a, m) ==
  /\ a.as = "string" =>
       a.is = IF m.text # EmptyText THEN m.text
              ELSE IF m.number = 0 THEN EmptyText ELSE Shown[m.number]
  /\ a.as = "number" => a.is = IF m.text # EmptyText THEN Dotted[m.text] ELSE m.number

\* The four variables are functions on the objects.
HostFunctions ==
  /\ addrStr = [h \in AddrHolders |-> addrStr[h]]
  /\ addrNum = [h \in AddrHolders |-> addrNum[h]]
  /\ meant = [h \in AddrHolders |-> meant[h]]
  /\ answer = [h \in AddrHolders |-> answer[h]]

\* The inductive invariant.
HostInv ==
  /\ HostFunctions
  /\ \A h \in AddrHolders : Fits(addrStr[h], addrNum[h], meant[h])
  /\ \A h \in AddrHolders : IsTrue(answer[h], meant[h])

\* as_string() and as_uint32() answer with what the object was made from.
LEMMA AsksTrue ==
  ASSUME HostInv, NEW h \in AddrHolders
  PROVE  /\ NumberOf(h) = NumberMeant(h)
         /\ NumberOf(h) \in DOMAIN Shown \union {Refused}
         /\ TextOf(h) = IF meant[h].text # EmptyText THEN meant[h].text
                        ELSE IF meant[h].number = 0 THEN EmptyText ELSE Shown[meant[h].number]
<1>1. Fits(addrStr[h], addrNum[h], meant[h])
  BY DEF HostInv
<1>2. CASE meant[h].text # EmptyText
  <2>1. /\ addrStr[h] = meant[h].text /\ meant[h].text \in DOMAIN Dotted
        /\ addrNum[h] = 0 \/ addrNum[h] = Dotted[meant[h].text]
    BY <1>1, <1>2 DEF Fits
  <2>2. Dotted[meant[h].text] \in DOMAIN Shown \union {Refused}
    BY <2>1, HostAssumption
  <2>3. NumberOf(h) = Dotted[meant[h].text]
    BY <1>2, <2>1 DEF NumberOf
  <2>4. TextOf(h) = meant[h].text
    BY <1>2, <2>1 DEF TextOf
  <2>5. NumberMeant(h) = Dotted[meant[h].text]
    BY <1>2 DEF NumberMeant
  <2>6. QED  BY <1>2, <2>2, <2>3, <2>4, <2>5
<1>3. CASE meant[h].text = EmptyText
  <2>1. /\ addrNum[h] = meant[h].number /\ addrNum[h] \in DOMAIN Shown
        /\ addrStr[h] = EmptyText \/ (addrNum[h] # 0 /\ addrStr[h] = Shown[addrNum[h]])
    BY <1>1, <1>3 DEF Fits
  <2>2. NumberOf(h) = meant[h].number
    BY <2>1 DEF NumberOf
  <2>3. TextOf(h) = IF meant[h].number = 0 THEN EmptyText ELSE Shown[meant[h].number]
    BY <2>1 DEF TextOf
  <2>4. NumberMeant(h) = meant[h].number
    BY <1>3 DEF NumberMeant
  <2>5. QED  BY <1>3, <2>1, <2>2, <2>3, <2>4
<1>4. QED  BY <1>2, <1>3

\* An object made anew is as good as what it is made from.
LEMMA BecomesKeeps ==
  ASSUME HostInv, NEW h \in AddrHolders, NEW t, NEW n, NEW m, Fits(t, n, m), Becomes(h, t, n, m)
  PROVE  HostInv'
<1>1. HostFunctions'
  BY DEF Becomes, HostInv, HostFunctions
<1>2. ASSUME NEW g \in AddrHolders PROVE Fits(addrStr[g], addrNum[g], meant[g])'
  <2>1. CASE g = h
    <3>1. addrStr'[g] = t /\ addrNum'[g] = n /\ meant'[g] = m
      BY <2>1 DEF Becomes, HostInv, HostFunctions
    <3>2. QED  BY <3>1 DEF Fits
  <2>2. CASE g # h
    <3>1. addrStr'[g] = addrStr[g] /\ addrNum'[g] = addrNum[g] /\ meant'[g] = meant[g]
      BY <2>2 DEF Becomes, HostInv, HostFunctions
    <3>2. QED  BY <3>1 DEF Fits, HostInv
  <2>3. QED  BY <2>1, <2>2
<1>3. ASSUME NEW g \in AddrHolders PROVE IsTrue(answer[g], meant[g])'
  <2>1. CASE g = h
    <3>1. answer'[g] = None
      BY <2>1 DEF Becomes, HostInv, HostFunctions
    <3>2. QED  BY <3>1 DEF IsTrue, None
  <2>2. CASE g # h
    <3>1. answer'[g] = answer[g] /\ meant'[g] = meant[g]
      BY <2>2 DEF Becomes, HostInv, HostFunctions
    <3>2. QED  BY <3>1 DEF IsTrue, HostInv
  <2>3. QED  BY <2>1, <2>2
<1>4. QED  BY <1>1, <1>2, <1>3 DEF HostInv

\* A question changes a cache and nothing else.
LEMMA AskKeeps ==
  ASSUME HostInv, NEW h \in AddrHolders, NEW t, NEW n, NEW a,
         addrStr' = [addrStr EXCEPT ![h] = t], addrNum' = [addrNum EXCEPT ![h] = n],
         answer' = [answer EXCEPT ![h] = a], meant' = meant,
         Fits(t, n, meant[h]), IsTrue(a, meant[h])
  PROVE  HostInv'
<1>1. HostFunctions'
  BY DEF HostInv, HostFunctions
<1>2. ASSUME NEW g \in AddrHolders PROVE Fits(addrStr[g], addrNum[g], meant[g])'
  <2>1. CASE g = h
    <3>1. addrStr'[g] = t /\ addrNum'[g] = n
      BY <2>1 DEF HostInv, HostFunctions
    <3>2. QED  BY <2>1, <3>1 DEF Fits
  <2>2. CASE g # h
    <3>1. addrStr'[g] = addrStr[g] /\ addrNum'[g] = addrNum[g]
      BY <2>2 DEF HostInv, HostFunctions
    <3>2. QED  BY <3>1 DEF Fits, HostInv
  <2>3. QED  BY <2>1, <2>2
<1>3. ASSUME NEW g \in AddrHolders PROVE IsTrue(answer[g], meant[g])'
  <2>1. CASE g = h
    <3>1. answer'[g] = a
      BY <2>1 DEF HostInv, HostFunctions
    <3>2. QED  BY <2>1, <3>1 DEF IsTrue
  <2>2. CASE g # h
    <3>1. answer'[g] = answer[g]
      BY <2>2 DEF HostInv, HostFunctions
    <3>2. QED  BY <3>1 DEF IsTrue, HostInv
  <2>3. QED  BY <2>1, <2>2
<1>4. QED  BY <1>1, <1>2, <1>3 DEF HostInv

\* as_string()
LEMMA AsStringKeeps ==
  ASSUME HostInv, NEW h \in AddrHolders, AsString(h)
  PROVE  HostInv'
<1>1. /\ addrStr' = [addrStr EXCEPT ![h] = TextOf(h)]
      /\ answer' = [answer EXCEPT ![h] = [as |-> "string", is |-> TextOf(h)]]
      /\ addrNum' = addrNum /\ meant' = meant
  BY DEF AsString
<1>2. addrNum' = [addrNum EXCEPT ![h] = addrNum[h]]
  BY <1>1 DEF HostInv, HostFunctions
<1>3. Fits(addrStr[h], addrNum[h], meant[h])
  BY DEF HostInv
<1>4. Fits(TextOf(h), addrNum[h], meant[h])
  BY <1>3, AsksTrue DEF Fits
<1>5. IsTrue([as |-> "string", is |-> TextOf(h)], meant[h])
  BY AsksTrue DEF IsTrue
<1>6. QED  BY <1>1, <1>2, <1>4, <1>5, AskKeeps

\* as_uint32(), which changes nothing when it throws.
LEMMA AsNumberKeeps ==
  ASSUME HostInv, NEW h \in AddrHolders, AsNumber(h)
  PROVE  HostInv'
<1> DEFINE n == IF NumberOf(h) = Refused THEN addrNum[h] ELSE NumberOf(h)
<1>1. /\ addrNum' = [addrNum EXCEPT ![h] = n]
      /\ answer' = [answer EXCEPT ![h] = [as |-> "number", is |-> NumberOf(h)]]
      /\ addrStr' = addrStr /\ meant' = meant
  BY DEF AsNumber
<1>2. addrStr' = [addrStr EXCEPT ![h] = addrStr[h]]
  BY <1>1 DEF HostInv, HostFunctions
<1>3. Fits(addrStr[h], addrNum[h], meant[h])
  BY DEF HostInv
<1>4. Fits(addrStr[h], n, meant[h])
  <2>1. CASE NumberOf(h) = Refused
    BY <1>3, <2>1
  <2>2. CASE NumberOf(h) # Refused
    <3>1. n = NumberMeant(h)
      BY <2>2, AsksTrue
    <3>2. CASE meant[h].text # EmptyText
      <4>1. n = Dotted[meant[h].text] /\ n # Refused
        BY <2>2, <3>1, <3>2 DEF NumberMeant
      <4>2. QED  BY <1>3, <3>2, <4>1 DEF Fits
    <3>3. CASE meant[h].text = EmptyText
      <4>1. n = meant[h].number
        BY <3>1, <3>3 DEF NumberMeant
      <4>2. n = addrNum[h]
        BY <1>3, <3>3, <4>1 DEF Fits
      <4>3. QED  BY <1>3, <4>2
    <3>4. QED  BY <3>2, <3>3
  <2>3. QED  BY <2>1, <2>2
<1>5. IsTrue([as |-> "number", is |-> NumberOf(h)], meant[h])
  BY AsksTrue DEF IsTrue, NumberMeant
<1> HIDE DEF n
<1>6. QED  BY <1>1, <1>2, <1>4, <1>5, AskKeeps

\* The constructors and the copy.
LEMMA MakeKeeps ==
  ASSUME HostInv, NEW h \in AddrHolders,
         \/ \E t \in DOMAIN Dotted \union DOMAIN Resolved : FromText(h, t)
         \/ \E n \in DOMAIN Shown : FromNumber(h, n)
         \/ FromNothing(h)
         \/ \E g \in AddrHolders : CopyAddr(h, g)
  PROVE  HostInv'
<1>1. ASSUME NEW t \in DOMAIN Dotted \union DOMAIN Resolved, FromText(h, t) PROVE HostInv'
  <2>1. AddrOf(t) # Refused /\ Becomes(h, AddrOf(t), 0, [text |-> AddrOf(t), number |-> 0])
    BY <1>1 DEF FromText
  <2>2. AddrOf(t) \in DOMAIN Dotted
    BY <2>1, HostAssumption DEF AddrOf
  <2>3. AddrOf(t) # EmptyText /\ 0 # Refused
    BY <2>2, HostAssumption
  <2>4. Fits(AddrOf(t), 0, [text |-> AddrOf(t), number |-> 0])
    BY <2>2, <2>3 DEF Fits
  <2>5. QED  BY <2>1, <2>4, BecomesKeeps
<1>2. ASSUME NEW n \in DOMAIN Shown, FromNumber(h, n) PROVE HostInv'
  <2>1. Fits(EmptyText, n, [text |-> EmptyText, number |-> n])
    BY DEF Fits
  <2>2. QED  BY <1>2, <2>1, BecomesKeeps DEF FromNumber
<1>3. ASSUME FromNothing(h) PROVE HostInv'
  <2>1. 0 \in DOMAIN Shown /\ FromNumber(h, 0)
    BY <1>3, HostAssumption DEF FromNothing
  <2>2. QED  BY <1>2, <2>1
<1>4. ASSUME NEW g \in AddrHolders, CopyAddr(h, g) PROVE HostInv'
  <2>1. Becomes(h, addrStr[g], addrNum[g], meant[g]) /\ Fits(addrStr[g], addrNum[g], meant[g])
    BY <1>4 DEF CopyAddr, HostInv
  <2>2. QED  BY <2>1, BecomesKeeps
<1>5. QED  BY <1>1, <1>2, <1>3, <1>4

\* SockAddrLite and back.
LEMMA ThroughLiteKeeps ==
  ASSUME HostInv, NEW h \in AddrHolders, NEW g \in AddrHolders, ThroughLite(h, g)
  PROVE  HostInv'
<1>1. /\ NumberOf(h) # Refused
      /\ Becomes(g, EmptyText, NumberOf(h), [text |-> EmptyText, number |-> NumberMeant(h)])
  BY DEF ThroughLite, Lite
<1>2. NumberOf(h) = NumberMeant(h) /\ NumberOf(h) \in DOMAIN Shown
  BY <1>1, AsksTrue
<1>3. Fits(EmptyText, NumberOf(h), [text |-> EmptyText, number |-> NumberMeant(h)])
  BY <1>2 DEF Fits
<1>4. QED  BY <1>1, <1>3, BecomesKeeps

\* HostAddr answers as it was made, whatever it was asked or copied from
\* before (host_addr.cpp:41, 53), and a host survives SockAddrLite.
THEOREM HostsAnswer == HostInit /\ [][HostNext]_hostVars => []AnswersAsMade
<1>1. HostInit => HostInv
  <2> SUFFICES ASSUME HostInit PROVE HostInv
    OBVIOUS
  <2>1. HostFunctions
    BY DEF HostInit, HostFunctions
  <2>2. ASSUME NEW h \in AddrHolders
        PROVE  /\ addrStr[h] = EmptyText /\ addrNum[h] = 0 /\ answer[h] = None
               /\ meant[h] = [text |-> EmptyText, number |-> 0]
    BY DEF HostInit
  <2>3. ASSUME NEW h \in AddrHolders PROVE Fits(addrStr[h], addrNum[h], meant[h])
    BY <2>2, HostAssumption DEF Fits
  <2>4. ASSUME NEW h \in AddrHolders PROVE IsTrue(answer[h], meant[h])
    BY <2>2 DEF IsTrue, None
  <2>5. QED  BY <2>1, <2>3, <2>4 DEF HostInv
<1>2. HostInv /\ [HostNext]_hostVars => HostInv'
  <2> SUFFICES ASSUME HostInv, [HostNext]_hostVars PROVE HostInv'
    OBVIOUS
  <2>1. CASE UNCHANGED hostVars
    BY <2>1 DEF hostVars, HostInv, HostFunctions, Fits, IsTrue
  <2>2. CASE HostNext
    <3>1. PICK h \in AddrHolders :
            \/ \E t \in DOMAIN Dotted \union DOMAIN Resolved : FromText(h, t)
            \/ \E n \in DOMAIN Shown : FromNumber(h, n)
            \/ FromNothing(h) \/ AsString(h) \/ AsNumber(h)
            \/ \E g \in AddrHolders : CopyAddr(h, g) \/ ThroughLite(h, g)
      BY <2>2 DEF HostNext
    <3>2. QED  BY <3>1, MakeKeeps, AsStringKeeps, AsNumberKeeps, ThroughLiteKeeps
  <2>3. QED  BY <2>1, <2>2
<1>3. HostInv => AnswersAsMade
  <2> SUFFICES ASSUME HostInv PROVE AnswersAsMade
    OBVIOUS
  <2>1. ASSUME NEW h \in AddrHolders, addrNum[h] # 0, addrStr[h] # EmptyText
        PROVE  Dotted[addrStr[h]] = addrNum[h]
    <3>1. Fits(addrStr[h], addrNum[h], meant[h])
      BY DEF HostInv
    <3>2. CASE meant[h].text # EmptyText
      BY <2>1, <3>1, <3>2 DEF Fits
    <3>3. CASE meant[h].text = EmptyText
      <4>1. addrStr[h] = Shown[addrNum[h]] /\ addrNum[h] \in DOMAIN Shown
        BY <2>1, <3>1, <3>3 DEF Fits
      <4>2. QED  BY <4>1, HostAssumption
    <3>4. QED  BY <3>2, <3>3
  <2>2. CachesAgree
    BY <2>1 DEF CachesAgree
  <2>3. \A h \in AddrHolders : IsTrue(answer[h], meant[h])
    BY DEF HostInv
  <2>4. QED  BY <2>2, <2>3 DEF AnswersAsMade, IsTrue, NumberMeant
<1>4. QED  BY <1>1, <1>2, <1>3, PTL

-----------------------------------------------------------------------------
(* Ports, whose two bytes the system calls take swapped.                   *)

\* Quotient and remainder of a number.
LEMMA DivMod ==
  ASSUME NEW b \in Nat \ {0}, NEW a \in Int
  PROVE  a % b \in 0 .. b - 1 /\ a \div b \in Int /\ a = b * (a \div b) + (a % b)
<1>1. a % b \in 0 .. b - 1
  OBVIOUS
<1>2. a \div b \in Int
  OBVIOUS
<1>3. a % b = a - b * (a \div b)
  OBVIOUS
<1>5. b * (a \div b) \in Int
  BY <1>2
<1>6. ASSUME NEW x, NEW z, x \in 0 .. b - 1, z \in Int, x = a - z PROVE a = z + x
  BY <1>6
<1>7. a = b * (a \div b) + (a % b)
  BY <1>1, <1>3, <1>5, <1>6
<1>8. QED  BY <1>1, <1>2, <1>7

\* There is one quotient and one remainder.
LEMMA PartsUnique ==
  ASSUME NEW b \in Nat \ {0}, NEW d \in 0 .. b - 1, NEW m \in Int, NEW e \in 0 .. b - 1,
         NEW n \in Int, b * m + d = b * n + e
  PROVE  m = n /\ d = e
<1>1. b * (m - n) = e - d
  OBVIOUS
<1>2. m - n < 1
  OBVIOUS
<1>3. m - n > -1
  OBVIOUS
<1>4. QED BY <1>1, <1>2, <1>3

\* The high half of a number of two halves.
LEMMA HighSmall ==
  ASSUME NEW b \in Nat \ {0}, NEW p \in 0 .. b * b - 1
  PROVE  p \div b \in 0 .. b - 1
<1>1. p = b * (p \div b) + (p % b) /\ p % b \in 0 .. b - 1 /\ p \div b \in Int
  BY DivMod
<1>2. p \div b < b
  BY <1>1
<1>3. p \div b > -1
  BY <1>1
<1>4. QED BY <1>1, <1>2, <1>3

\* Two halves put together come apart again.
LEMMA Pair ==
  ASSUME NEW b \in Nat \ {0}, NEW m \in 0 .. b - 1, NEW d \in 0 .. b - 1
  PROVE  /\ (m * b + d) \div b = m /\ (m * b + d) % b = d
         /\ m * b + d \in 0 .. b * b - 1
<1> DEFINE q == m * b + d
<1>1. q \in Int /\ q = b * m + d
  OBVIOUS
<1>2. m * b + d \in 0 .. b * b - 1
  <2>1. m * b <= (b - 1) * b /\ m * b >= 0
    OBVIOUS
  <2>2. (b - 1) * b = b * b - b
    OBVIOUS
  <2>3. QED  BY <2>1, <2>2
<1> HIDE DEF q
<1>3. q = b * (q \div b) + (q % b) /\ q % b \in 0 .. b - 1 /\ q \div b \in Int
  BY <1>1, DivMod
<1>4. m = q \div b /\ d = q % b
  BY <1>1, <1>3, PartsUnique
<1>5. QED BY <1>2, <1>4 DEF q

\* Swapping the bytes of a port twice gives the port back.
LEMMA SwapTwice ==
  ASSUME NEW p \in 0 .. Half * Half - 1
  PROVE  Swapped(p) \in 0 .. Half * Half - 1 /\ Swapped(Swapped(p)) = p
<1> DEFINE m == p % Half
           d == p \div Half
<1>1. Half \in Nat \ {0} /\ p \in Int
  BY DatagramsAssumption
<1>2. m \in 0 .. Half - 1 /\ d \in 0 .. Half - 1 /\ p = Half * d + m
  <2>1. m \in 0 .. Half - 1 /\ p = Half * d + m
    BY <1>1, DivMod
  <2>2. d \in 0 .. Half - 1
    BY <1>1, HighSmall
  <2>3. QED  BY <2>1, <2>2
<1>3. Swapped(p) = m * Half + d
  BY DEF Swapped
<1> HIDE DEF m, d
<1>4. /\ (m * Half + d) \div Half = m /\ (m * Half + d) % Half = d
      /\ m * Half + d \in 0 .. Half * Half - 1
  BY <1>1, <1>2, Pair
<1>5. Swapped(Swapped(p)) = d * Half + m
  BY <1>3, <1>4 DEF Swapped
<1>6. d * Half = Half * d
  BY <1>1, <1>2
<1>7. QED  BY <1>2, <1>3, <1>4, <1>5, <1>6

\* What htons() is given comes back from ntohs() narrowed to 16 bits, and is
\* what the next htons() makes of it.
LEMMA PortsSurvive ==
  ASSUME NEW p \in Int
  PROVE  /\ Swapped(HostToNet(p)) = p % (Half * Half)
         /\ HostToNet(Swapped(HostToNet(p))) = HostToNet(p)
<1> DEFINE b == Half * Half
           q == p % b
<1>1. b \in Nat \ {0}
  BY DatagramsAssumption
<1>2. q \in 0 .. b - 1
  <2> HIDE DEF b
  <2>1. QED  BY <1>1, DivMod
<1>3. Swapped(Swapped(q)) = q
  BY <1>2, SwapTwice
<1>4. q % b = q
  <2>1. \A x \in Nat, c \in Nat \ {0} : x < c => x % c = x
    OBVIOUS
  <2> HIDE DEF b, q
  <2>2. q \in Nat /\ q < b
    BY <1>1, <1>2
  <2>3. QED  BY <1>1, <2>1, <2>2
<1>5. HostToNet(p) = Swapped(q) /\ HostToNet(q) = Swapped(q)
  BY <1>4 DEF HostToNet
<1> HIDE DEF q
<1>6. HostToNet(Swapped(HostToNet(p))) = HostToNet(p)
  BY <1>3, <1>5
<1>7. QED  BY <1>3, <1>5, <1>6 DEF q

\* The address addr() and recvfrom() decode names the same sockaddr again.
LEMMA AddressesSurvive ==
  ASSUME NEW a, a.port \in Int
  PROVE  /\ Decode(Sockaddr(a)) = [host |-> a.host, port |-> a.port % (Half * Half)]
         /\ Sockaddr(Decode(Sockaddr(a))) = Sockaddr(a)
<1>1. /\ Swapped(HostToNet(a.port)) = a.port % (Half * Half)
      /\ HostToNet(Swapped(HostToNet(a.port))) = HostToNet(a.port)
  BY PortsSurvive
<1>2. QED  BY <1>1 DEF Decode, Sockaddr

\* What bind() makes of an address: its host, with its port or, if that is 0
\* in 16 bits, with one the kernel chose.
LEMMA AssignedIs ==
  ASSUME NEW a \in Addresses, NEW sa \in Assigned(a)
  PROVE  /\ Decode(sa).host = a.host
         /\ Decode(sa).port # 0
         /\ a.port % (Half * Half) \in {0, Decode(sa).port}
         /\ Sockaddr(Decode(sa)) = sa
<1> DEFINE b == Half * Half
<1>1. a.port \in Int /\ b \in Nat \ {0}
  <2>1. a.port \in Int
    BY DatagramsAssumption DEF Addresses
  <2>2. b \in Nat \ {0}
    BY DatagramsAssumption
  <2>3. QED  BY <2>1, <2>2
<1>2. Swapped(0) = 0
  BY DatagramsAssumption DEF Swapped
<1> HIDE DEF b
<1>3. CASE Sockaddr(a).port # 0
  <2>1. sa = Sockaddr(a)
    BY <1>3 DEF Assigned
  <2>2. a.port % b # 0
    <3>1. HostToNet(a.port) # 0
      BY <1>3 DEF Sockaddr
    <3>2. QED  BY <1>2, <3>1 DEF HostToNet, b
  <2>3. QED  BY <1>1, <2>1, <2>2, AddressesSurvive DEF b
<1>4. CASE Sockaddr(a).port = 0
  <2>1. PICK p \in Ephemeral : sa = Sockaddr([host |-> a.host, port |-> p])
    BY <1>4 DEF Assigned
  <2>2. a.port % b = 0
    BY <1>1, <1>2, <1>4, PortsSurvive DEF Sockaddr, b
  <2>3. p \in Nat /\ p # 0 /\ p < b
    BY <1>1, DatagramsAssumption DEF b
  <2>4. p % b = p
    BY <1>1, <2>3
  <2>5. Decode(sa) = [host |-> a.host, port |-> p % b] /\ Sockaddr(Decode(sa)) = sa
    BY <2>1, <2>3, AddressesSurvive DEF b
  <2>6. QED  BY <2>2, <2>3, <2>4, <2>5 DEF b
<1>5. QED  BY <1>3, <1>4

-----------------------------------------------------------------------------
(* Datagrams.                                                              *)

\* The variables are functions on the sockets, of one family.
SocketFunctions ==
  /\ family = [s \in Sockets |-> family[s]] /\ bound = [s \in Sockets |-> bound[s]]
  /\ queue = [s \in Sockets |-> queue[s]] /\ sized = [s \in Sockets |-> sized[s]]
  /\ result = [s \in Sockets |-> result[s]] /\ asked = [s \in Sockets |-> asked[s]]

\* All sockets are of one family.
OneFamily == \A s, t \in Sockets : family[s] = family[t]

\* A bound socket is bound to what bind() makes of the address it was given.
BoundAsAsked ==
  \A s \in Sockets : bound[s] # Unbound => asked[s] \in Addresses /\ bound[s] \in Assigned(asked[s])

\* What waits in a queue.
Datagram == [data : Texts, from : Sockets]

\* What waits came from bound sockets.
QueuesFit ==
  \A s \in Sockets :
    /\ queue[s] \in Seq(Datagram)
    /\ family[s] = "inet" => \A i \in 1 .. Len(queue[s]) : bound[queue[s][i].from] # Unbound

\* A size that is not 0 is the size of what is read next.
SizesFit ==
  \A s \in Sockets :
    sized[s] \notin {-1, 0} => queue[s] # <<>> /\ sized[s] = Len(Head(queue[s]).data)

\* What recvfrom() returned names its sender.
ResultsFit ==
  \A s \in Sockets :
    /\ result[s].how \in {"sized", "unsized"} =>
         /\ result[s].was.from \in Sockets /\ bound[result[s].was.from] # Unbound
         /\ result[s].from = Decode(bound[result[s].was.from])
    /\ result[s].how = "sized" /\ result[s].room > 0 => result[s].data = result[s].was.data

\* The inductive invariant.
DatagramsInv ==
  /\ SocketFunctions /\ OneFamily /\ BoundAsAsked /\ QueuesFit /\ SizesFit /\ ResultsFit

\* bind()
LEMMA BindKeeps ==
  ASSUME DatagramsInv, NEW s \in Sockets, NEW a \in Addresses, Bind(s, a)
  PROVE  DatagramsInv'
<1>0. PICK sa \in Assigned(a) :
        (\A t \in Sockets : bound[t] # sa) /\ bound' = [bound EXCEPT ![s] = sa]
  BY DEF Bind
<1>1. /\ bound[s] = Unbound /\ bound' = [bound EXCEPT ![s] = sa]
      /\ asked' = [asked EXCEPT ![s] = a]
      /\ UNCHANGED <<family, queue, sized, result>>
  BY <1>0 DEF Bind
<1>2. SocketFunctions'
  BY <1>1 DEF DatagramsInv, SocketFunctions
<1>3. \A t \in Sockets : t # s => bound'[t] = bound[t] /\ asked'[t] = asked[t]
  BY <1>1 DEF DatagramsInv, SocketFunctions
<1>4. bound'[s] = sa /\ asked'[s] = a
  BY <1>1 DEF DatagramsInv, SocketFunctions
<1>5. sa # Unbound
  BY <1>0, <1>1
<1>6. \A t \in Sockets : bound[t] # Unbound => bound'[t] = bound[t]
  BY <1>1, <1>3
<1>7. BoundAsAsked'
  BY <1>3, <1>4 DEF DatagramsInv, BoundAsAsked
<1>8. QueuesFit'
  <2>1. ASSUME NEW t \in Sockets, family[t] = "inet", NEW i \in 1 .. Len(queue[t])
        PROVE  bound'[queue[t][i].from] # Unbound
    <3>1. queue[t] \in Seq(Datagram) /\ bound[queue[t][i].from] # Unbound
      BY <2>1 DEF DatagramsInv, QueuesFit
    <3>2. queue[t][i] \in Datagram
      BY <3>1
    <3>3. QED  BY <1>6, <3>1, <3>2 DEF Datagram
  <2>2. QED  BY <1>1, <2>1 DEF DatagramsInv, QueuesFit
<1>9. ResultsFit'
  BY <1>1, <1>6 DEF DatagramsInv, ResultsFit
<1>10. QED  BY <1>1, <1>2, <1>7, <1>8, <1>9 DEF DatagramsInv, OneFamily, SizesFit

\* A datagram that arrives waits behind the others.
LEMMA ArriveKeeps ==
  ASSUME DatagramsInv, NEW r \in Sockets, NEW s \in Sockets, NEW data \in Texts,
         Arrive(r, s, data), family[r] = "inet" => bound[s] # Unbound,
         UNCHANGED <<family, bound, sized, result, asked>>
  PROVE  DatagramsInv'
<1> DEFINE d == [data |-> data, from |-> s]
<1>1. queue' = [queue EXCEPT ![r] = Append(@, d)]
  BY DEF Arrive
<1>2. d \in Datagram /\ d.from = s
  BY DEF Datagram
<1> HIDE DEF d
<1>3. queue[r] \in Seq(Datagram)
  BY DEF DatagramsInv, QueuesFit
<1>4. queue'[r] = Append(queue[r], d) /\ \A t \in Sockets : t # r => queue'[t] = queue[t]
  BY <1>1 DEF DatagramsInv, SocketFunctions
<1>5. /\ queue'[r] \in Seq(Datagram) /\ Len(queue'[r]) = Len(queue[r]) + 1 /\ Len(queue[r]) \in Nat
      /\ queue'[r][Len(queue[r]) + 1] = d
      /\ \A i \in 1 .. Len(queue[r]) : queue'[r][i] = queue[r][i]
  BY <1>2, <1>3, <1>4
<1>6. SocketFunctions'
  BY <1>1 DEF DatagramsInv, SocketFunctions
<1>7. QueuesFit'
  <2>1. ASSUME family[r] = "inet", NEW i \in 1 .. Len(queue[r]) + 1
        PROVE  bound[queue'[r][i].from] # Unbound
    <3>1. CASE i = Len(queue[r]) + 1
      BY <1>2, <1>5, <2>1, <3>1
    <3>2. CASE i # Len(queue[r]) + 1
      <4>1. i \in 1 .. Len(queue[r])
        BY <1>5, <3>2
      <4>2. QED  BY <1>5, <2>1, <4>1 DEF DatagramsInv, QueuesFit
    <3>3. QED  BY <3>1, <3>2
  <2>2. ASSUME NEW t \in Sockets
        PROVE  /\ queue'[t] \in Seq(Datagram)
               /\ family[t] = "inet" => \A i \in 1 .. Len(queue'[t]) : bound[queue'[t][i].from] # Unbound
    <3>1. CASE t = r
      BY <1>5, <2>1, <3>1
    <3>2. CASE t # r
      BY <1>4, <3>2 DEF DatagramsInv, QueuesFit
    <3>3. QED  BY <3>1, <3>2
  <2>3. QED  BY <2>2 DEF QueuesFit
<1>8. SizesFit'
  <2>1. ASSUME NEW t \in Sockets, sized[t] \notin {-1, 0}
        PROVE  queue'[t] # <<>> /\ sized[t] = Len(Head(queue'[t]).data)
    <3>1. queue[t] # <<>> /\ sized[t] = Len(Head(queue[t]).data)
      BY <2>1 DEF DatagramsInv, SizesFit
    <3>2. CASE t = r
      <4>1. Len(queue[r]) # 0
        BY <1>3, <3>1, <3>2
      <4>2. 1 \in 1 .. Len(queue[r])
        BY <1>5, <4>1
      <4>3. queue'[r] # <<>> /\ Head(queue'[r]) = Head(queue[r])
        BY <1>3, <1>5, <4>2
      <4>4. QED  BY <3>1, <3>2, <4>3
    <3>3. CASE t # r
      BY <1>4, <3>1, <3>3
    <3>4. QED  BY <3>2, <3>3
  <2>2. QED  BY <2>1 DEF SizesFit
<1>9. QED  BY <1>6, <1>7, <1>8 DEF DatagramsInv, OneFamily, BoundAsAsked, ResultsFit

\* read_size()
LEMMA ReadSizeKeeps ==
  ASSUME DatagramsInv, NEW s \in Sockets, ReadSize(s)
  PROVE  DatagramsInv'
<1>1. /\ sized' = [sized EXCEPT ![s] = IF queue[s] = <<>> THEN 0 ELSE Len(Head(queue[s]).data)]
      /\ UNCHANGED <<family, bound, queue, result, asked>>
  BY DEF ReadSize
<1>2. SocketFunctions'
  BY <1>1 DEF DatagramsInv, SocketFunctions
<1>3. /\ sized'[s] = IF queue[s] = <<>> THEN 0 ELSE Len(Head(queue[s]).data)
      /\ \A t \in Sockets : t # s => sized'[t] = sized[t]
  BY <1>1 DEF DatagramsInv, SocketFunctions
<1>4. SizesFit'
  BY <1>1, <1>3 DEF DatagramsInv, SizesFit
<1>5. QED  BY <1>1, <1>2, <1>4 DEF DatagramsInv, OneFamily, BoundAsAsked, QueuesFit, ResultsFit

\* A buffer of the size read_size() told takes the whole datagram.
LEMMA SizedTakesAll ==
  ASSUME DatagramsInv, NEW s \in Sockets, queue[s] # <<>>,
         NEW n, n = sized[s], n > 0
  PROVE  Received(s, Head(queue[s]), n).data = Head(queue[s]).data
<1> DEFINE d == Head(queue[s])
<1>1. sized[s] \notin {-1, 0}
  OBVIOUS
<1>2. n = Len(d.data)
  BY <1>1 DEF DatagramsInv, SizesFit
<1>3. d \in Datagram
  BY DEF DatagramsInv, QueuesFit
<1>4. d.data \in Seq({d.data[i] : i \in DOMAIN d.data})
  BY <1>3, DatagramsAssumption DEF Datagram
<1> HIDE DEF d
<1>5. Len(d.data) \in Nat /\ SubSeq(d.data, 1, Len(d.data)) = d.data
  <2>1. ASSUME NEW S, NEW q \in Seq(S) PROVE Len(q) \in Nat /\ SubSeq(q, 1, Len(q)) = q
    OBVIOUS
  <2>2. QED  BY <1>4, <2>1
<1>6. Min({n, Len(d.data)}) = n
  <2>1. \A x \in Nat : Min({x, x}) = x
    BY DEF Min
  <2>2. QED  BY <1>2, <1>5, <2>1
<1>7. QED  BY <1>2, <1>5, <1>6 DEF Received, d

\* recvfrom()
LEMMA RecvFromKeeps ==
  ASSUME DatagramsInv, NEW s \in Sockets, NEW n \in {Max({sized[s], 0}), 1}, RecvFrom(s, n)
  PROVE  DatagramsInv'
<1> DEFINE d == Head(queue[s])
           made == IF family[s] = "inet" THEN Received(s, d, n)
                   ELSE [Nothing EXCEPT !.how = "thrown", !.was = d]
<1>1. /\ queue[s] # <<>> /\ queue' = [queue EXCEPT ![s] = Tail(@)]
      /\ result' = [result EXCEPT ![s] = made] /\ sized' = [sized EXCEPT ![s] = -1]
      /\ UNCHANGED <<family, bound, asked>>
  BY DEF RecvFrom
<1>2. queue[s] \in Seq(Datagram) /\ d \in Datagram
  BY <1>1 DEF DatagramsInv, QueuesFit
<1>3. family[s] = "inet" => bound[d.from] # Unbound
  <2>1. 1 \in 1 .. Len(queue[s]) /\ d = queue[s][1]
    BY <1>1, <1>2
  <2>2. QED  BY <2>1 DEF DatagramsInv, QueuesFit
<1>4. /\ made.how \in {"sized", "unsized"} =>
           /\ made.was.from \in Sockets /\ bound[made.was.from] # Unbound
           /\ made.from = Decode(bound[made.was.from])
      /\ made.how = "sized" /\ made.room > 0 => made.data = made.was.data
  <2>1. CASE family[s] = "inet"
    <3>1. made = Received(s, d, n)
      BY <2>1
    <3>2. Received(s, d, n).was = d /\ Received(s, d, n).from = Decode(bound[d.from])
      BY DEF Received, SenderOf
    <3>3. Received(s, d, n).room = n /\ (Received(s, d, n).how = "sized" => n = sized[s])
      BY DEF Received
    <3>4. Received(s, d, n).how = "sized" /\ n > 0 => Received(s, d, n).data = d.data
      BY <1>1, <3>3, SizedTakesAll
    <3>5. d.from \in Sockets
      BY <1>2 DEF Datagram
    <3> HIDE DEF d, made
    <3>6. QED  BY <1>3, <2>1, <3>1, <3>2, <3>3, <3>4, <3>5
  <2>2. CASE family[s] # "inet"
    <3>1. made.how = "thrown"
      BY <2>2 DEF Nothing
    <3> HIDE DEF made
    <3>2. QED  BY <3>1
  <2>3. QED  BY <2>1, <2>2
<1> HIDE DEF made, d
<1>5. SocketFunctions'
  BY <1>1 DEF DatagramsInv, SocketFunctions
<1>6. /\ queue'[s] = Tail(queue[s]) /\ result'[s] = made /\ sized'[s] = -1
      /\ \A t \in Sockets : t # s =>
           queue'[t] = queue[t] /\ result'[t] = result[t] /\ sized'[t] = sized[t]
  BY <1>1 DEF DatagramsInv, SocketFunctions
<1>7. QueuesFit'
  <2>1. /\ queue'[s] \in Seq(Datagram)
        /\ \A i \in 1 .. Len(queue'[s]) : i + 1 \in 1 .. Len(queue[s]) /\ queue'[s][i] = queue[s][i + 1]
    <3>1. /\ Tail(queue[s]) \in Seq(Datagram) /\ Len(Tail(queue[s])) = Len(queue[s]) - 1
          /\ \A i \in 1 .. Len(Tail(queue[s])) : Tail(queue[s])[i] = queue[s][i + 1]
      BY <1>1, <1>2, HeadTailProperties
    <3>2. Len(queue[s]) \in Nat
      BY <1>2
    <3>3. \A i \in 1 .. Len(Tail(queue[s])) : i + 1 \in 1 .. Len(queue[s])
      BY <3>1, <3>2
    <3>4. QED  BY <1>6, <3>1, <3>3
  <2>2. ASSUME family[s] = "inet", NEW i \in 1 .. Len(queue'[s]) PROVE bound[queue'[s][i].from] # Unbound
    <3>1. i + 1 \in 1 .. Len(queue[s]) /\ queue'[s][i] = queue[s][i + 1]
      BY <2>1
    <3>2. QED  BY <2>2, <3>1 DEF DatagramsInv, QueuesFit
  <2>3. ASSUME NEW t \in Sockets
        PROVE  /\ queue'[t] \in Seq(Datagram)
               /\ family[t] = "inet" => \A i \in 1 .. Len(queue'[t]) : bound[queue'[t][i].from] # Unbound
    <3>1. CASE t = s
      BY <2>1, <2>2, <3>1
    <3>2. CASE t # s
      BY <1>6, <3>2 DEF DatagramsInv, QueuesFit
    <3>3. QED  BY <3>1, <3>2
  <2>4. QED  BY <1>1, <2>3 DEF QueuesFit
<1>8. SizesFit'
  BY <1>6 DEF DatagramsInv, SizesFit
<1>9. ResultsFit'
  <2>1. ASSUME NEW t \in Sockets
        PROVE  /\ result'[t].how \in {"sized", "unsized"} =>
                    /\ result'[t].was.from \in Sockets /\ bound[result'[t].was.from] # Unbound
                    /\ result'[t].from = Decode(bound[result'[t].was.from])
               /\ result'[t].how = "sized" /\ result'[t].room > 0 => result'[t].data = result'[t].was.data
    <3>1. CASE t = s
      BY <1>4, <1>6, <3>1
    <3>2. CASE t # s
      BY <1>6, <3>2 DEF DatagramsInv, ResultsFit
    <3>3. QED  BY <3>1, <3>2
  <2>2. QED  BY <1>1, <2>1 DEF ResultsFit
<1>10. QED  BY <1>1, <1>5, <1>7, <1>8, <1>9 DEF DatagramsInv, OneFamily, BoundAsAsked

\* The invariant holds of new sockets.
LEMMA DatagramsStart == DatagramsInit => DatagramsInv
<1> SUFFICES ASSUME DatagramsInit PROVE DatagramsInv
  OBVIOUS
<1>1. PICK f \in {"inet", "unix"} : family = [s \in Sockets |-> f]
  BY DEF DatagramsInit
<1>2. /\ bound = [s \in Sockets |-> Unbound] /\ queue = [s \in Sockets |-> <<>>]
      /\ sized = [s \in Sockets |-> -1] /\ result = [s \in Sockets |-> Nothing]
      /\ asked = [s \in Sockets |-> Unbound]
  BY DEF DatagramsInit
<1>3. SocketFunctions /\ OneFamily
  BY <1>1, <1>2 DEF SocketFunctions, OneFamily
<1>4. QueuesFit
  <2>1. <<>> \in Seq(Datagram) /\ 1 .. Len(<<>>) = {}
    OBVIOUS
  <2>2. QED  BY <1>2, <2>1 DEF QueuesFit
<1>5. ResultsFit
  BY <1>2 DEF ResultsFit, Nothing
<1>6. QED  BY <1>2, <1>3, <1>4, <1>5 DEF DatagramsInv, BoundAsAsked, SizesFit

\* What a socket is told of addresses and sizes (socket.cpp:227, 236, 265)
\* fits what was sent, by whom: addr() gives back what bind() was given or
\* the port the kernel chose for 0, the sender recvfrom() names can be answered,
\* and a buffer of read_size() bytes, if not 0, takes the whole datagram.
THEOREM DatagramsTrue == DatagramsInit /\ [][DatagramsNext]_datagramVars => []DatagramsAgree
<1>1. DatagramsInv /\ [DatagramsNext]_datagramVars => DatagramsInv'
  <2> SUFFICES ASSUME DatagramsInv, [DatagramsNext]_datagramVars PROVE DatagramsInv'
    OBVIOUS
  <2>1. CASE UNCHANGED datagramVars
    BY <2>1 DEF datagramVars, DatagramsInv, SocketFunctions, OneFamily, BoundAsAsked,
                QueuesFit, SizesFit, ResultsFit
  <2>2. ASSUME NEW s \in Sockets, NEW a, NEW data \in Texts, SendTo(s, a, data)
        PROVE  DatagramsInv'
    <3>1. CASE UNCHANGED queue
      BY <2>2, <3>1 DEF SendTo, DatagramsInv, SocketFunctions, OneFamily, BoundAsAsked,
                        QueuesFit, SizesFit, ResultsFit
    <3>2. CASE \E r \in Sockets : bound[r] = Sockaddr(a) /\ Arrive(r, s, data)
      BY <2>2, <3>2, ArriveKeeps DEF SendTo
    <3>3. QED  BY <2>2, <3>1, <3>2 DEF SendTo
  <2>3. ASSUME NEW s \in Sockets, NEW r \in Sockets, NEW data \in Texts, WritePair(s, r, data)
        PROVE  DatagramsInv'
    <3>1. family[r] # "inet"
      <4>1. family[s] = "unix" /\ family[r] = family[s]
        BY <2>3 DEF WritePair, DatagramsInv, OneFamily
      <4>2. QED  BY <4>1
    <3>2. QED  BY <2>3, <3>1, ArriveKeeps DEF WritePair
  <2>4. CASE DatagramsNext
    <3>1. PICK s \in Sockets :
            \/ \E a \in Addresses : Bind(s, a)
            \/ \E a \in Addresses \union {BoundTo(r) : r \in Sockets} :
                 \E data \in Texts : SendTo(s, a, data)
            \/ ReadSize(s)
            \/ \E r \in Sockets : \E data \in Texts : WritePair(s, r, data)
            \/ \E n \in {Max({sized[s], 0}), 1} : RecvFrom(s, n)
      BY <2>4 DEF DatagramsNext
    <3>2. QED  BY <2>2, <2>3, <3>1, BindKeeps, ReadSizeKeeps, RecvFromKeeps
  <2>5. QED  BY <2>1, <2>4
<1>2. DatagramsInv => DatagramsAgree
  <2> SUFFICES ASSUME DatagramsInv PROVE DatagramsAgree
    OBVIOUS
  <2>1. AddressComesBack
    <3>1. ASSUME NEW s \in Sockets, bound[s] # Unbound
          PROVE  /\ BoundTo(s).host = asked[s].host /\ BoundTo(s).port # 0
                 /\ asked[s].port % (Half * Half) \in {0, BoundTo(s).port}
                 /\ Sockaddr(BoundTo(s)) = bound[s]
      <4>1. asked[s] \in Addresses /\ bound[s] \in Assigned(asked[s])
        BY <3>1 DEF DatagramsInv, BoundAsAsked
      <4>2. QED  BY <4>1, AssignedIs DEF BoundTo
    <3>2. QED  BY <3>1 DEF AddressComesBack
  <2>2. AnswerReachesSender
    <3>1. ASSUME NEW s \in Sockets, result[s].how \in {"sized", "unsized"}
          PROVE  Sockaddr(result[s].from) = bound[result[s].was.from]
      <4>1. /\ result[s].was.from \in Sockets /\ bound[result[s].was.from] # Unbound
            /\ result[s].from = Decode(bound[result[s].was.from])
        BY <3>1 DEF DatagramsInv, ResultsFit
      <4>2. PICK a \in Addresses : bound[result[s].was.from] \in Assigned(a)
        BY <4>1 DEF DatagramsInv, BoundAsAsked
      <4>3. QED  BY <4>1, <4>2, AssignedIs
    <3>2. QED  BY <3>1 DEF AnswerReachesSender
  <2>3. SizedReadIsWhole
    BY DEF DatagramsInv, ResultsFit, SizedReadIsWhole
  <2>4. QED  BY <2>1, <2>2, <2>3 DEF DatagramsAgree
<1>3. QED  BY <1>1, <1>2, DatagramsStart, PTL
=============================================================================
