---------------------------- MODULE NetLinkProofs ----------------------------
(***************************************************************************)
(* Proofs about NetLink, for every queue length, every width of the try    *)
(* counter and every number of retries that fits it: interface and DHCP    *)
(* client fit together, and the user task is told of every join.           *)
(***************************************************************************)
EXTENDS NetLink, TLAPS

-----------------------------------------------------------------------------
(***************************************************************************)
(* The inductive invariant.                                                *)
(***************************************************************************)
SysMsg == {"NET_UP", "NET_DOWN", "CONNECT_FAILED", "AUTO_MODE_RUN"}
UserMsg == {"NET_UP", "NET_DOWN"}

\* The way of the address: DHCP or the stored one, never both.
Dhcping == {"set_addr", "clear_up", "dhcp_start"}
Storing == {"dhcp_stop", "set_static", "set_up"}

OneWay ==
    /\ useDhcp => sysPc \notin Storing
    /\ ~useDhcp => sysPc \notin Dhcping /\ dhcp.state = "none"

\* A lease that is asked for, held or renewed has an address, and the stored
\* address is set before the interface goes up.
AddressKnown ==
    /\ dhcp.state \in Requesting \cup {"bound"} => dhcp.offered = "a"
    /\ sysPc = "set_up" => nif.ip # NoAddr

\* An event the user task must still be told of is one of a lost network.
Untold == event # "none" => wifi # "joined"

\* The joins the system task has yet to deal with.
Joins(q) == {i \in DOMAIN q : q[i] = "NET_UP"}
Losses(q) == {i \in DOMAIN q : q[i] = "NET_DOWN"}

\* The user task has been told of the interface that is up, unless the system
\* task has a join to deal with, which makes it go down first.
Told ==
    /\ nif.up /\ wifi = "joined" /\ Joins(sysQ) = {}
    /\ sysPc \notin {"set_addr", "clear_up"} \cup Storing
    => Believes

\* Between two joins there is a loss; after every join there is one; before
\* every join there is one.
Apart(q) == \A i, j \in Joins(q) : i < j => \E k \in Losses(q) : i < k /\ k < j
Closed(q) == \A i \in Joins(q) : \E k \in Losses(q) : i < k
Opened(q) == \A i \in Joins(q) : \E k \in Losses(q) : k < i

Alternate == Apart(sysQ) /\ (wifi # "joined" => Closed(sysQ))

\* With a stored address the interface is up, or about to be, only until the
\* next loss is dealt with: before the next join.
Raised == nif.up \/ sysPc \in Storing

DownFirst ==
    ~useDhcp =>
        /\ sysPc \in Storing => ~nif.up
        /\ Raised /\ sysPc # "set_down" =>
              /\ Opened(sysQ)
              /\ wifi # "joined" => Losses(sysQ) # {}

IInv ==
    /\ TypeOK /\ UpHasAddr /\ TriesOn
    /\ OneWay /\ AddressKnown /\ Untold /\ Told /\ Alternate /\ DownFirst

-----------------------------------------------------------------------------
(***************************************************************************)
(* Queues.                                                                 *)
(***************************************************************************)
\* A bounded sequence is a sequence of bounded length.
LEMMA Bounded ==
    ASSUME NEW S, NEW n \in Nat, NEW q
    PROVE  q \in BoundedSeq(S, n) <=> q \in Seq(S) /\ Len(q) <= n
<1>1. ASSUME q \in BoundedSeq(S, n) PROVE q \in Seq(S) /\ Len(q) <= n
  <2>1. PICK m \in 0 .. n : q \in [1 .. m -> S]
    BY <1>1 DEF BoundedSeq, SeqOf
  <2> QED BY <2>1
<1>2. ASSUME q \in Seq(S), Len(q) <= n PROVE q \in BoundedSeq(S, n)
  <2>1. Len(q) \in 0 .. n /\ q \in [1 .. Len(q) -> S]
    BY <1>2
  <2> QED BY <2>1 DEF BoundedSeq, SeqOf
<1> QED BY <1>1, <1>2

\* tls_os_queue_send on a queue that is not full, and what it receives.
LEMMA QueueStep ==
    ASSUME NEW S, NEW q \in BoundedSeq(S, QLen)
    PROVE  /\ q \in Seq(S)
           /\ \A m \in S : Room(q) => Append(q, m) \in BoundedSeq(S, QLen)
           /\ q # << >> => Tail(q) \in BoundedSeq(S, QLen) /\ Head(q) \in S
<1>1. QLen \in Nat
  BY NetLinkBounds
<1>2. q \in Seq(S) /\ Len(q) <= QLen
  BY <1>1, Bounded
<1>3. ASSUME NEW m \in S, Room(q) PROVE Append(q, m) \in BoundedSeq(S, QLen)
  <2>1. Append(q, m) \in Seq(S) /\ Len(Append(q, m)) <= QLen
    BY <1>1, <1>2, <1>3 DEF Room
  <2> QED BY <1>1, <2>1, Bounded
<1>4. ASSUME q # << >> PROVE Tail(q) \in BoundedSeq(S, QLen) /\ Head(q) \in S
  <2>1. Tail(q) \in Seq(S) /\ Len(Tail(q)) <= QLen /\ Head(q) \in S
    BY <1>1, <1>2, <1>4
  <2> QED BY <1>1, <2>1, Bounded
<1> QED BY <1>2, <1>3, <1>4

\* Where joins and losses are after a message is sent or received.
LEMMA AppendJoins ==
    ASSUME NEW q \in Seq(SysMsg), NEW m \in SysMsg, NEW p, p = Append(q, m)
    PROVE  /\ p # << >>
           /\ \A i : i \in Joins(p) <=> i \in Joins(q) \/ (i = Len(q) + 1 /\ m = "NET_UP")
           /\ \A i : i \in Losses(p) <=> i \in Losses(q) \/ (i = Len(q) + 1 /\ m = "NET_DOWN")
           /\ \A i \in Joins(q) \cup Losses(q) : i \in Nat /\ i < Len(q) + 1
           /\ Len(q) + 1 \in Nat
<1>1. /\ Len(p) = Len(q) + 1 /\ Len(q) \in Nat /\ p \in Seq(SysMsg)
      /\ DOMAIN p = 1 .. Len(q) + 1 /\ DOMAIN q = 1 .. Len(q)
      /\ p[Len(q) + 1] = m
      /\ \A i \in 1 .. Len(q) : p[i] = q[i]
  OBVIOUS
<1>2. \A i : i \in 1 .. Len(q) + 1 <=> i \in 1 .. Len(q) \/ i = Len(q) + 1
  BY <1>1
<1>3. Len(q) + 1 \notin 1 .. Len(q)
  BY <1>1
<1> QED BY <1>1, <1>2, <1>3 DEF Joins, Losses

LEMMA TailJoins ==
    ASSUME NEW q \in Seq(SysMsg), q # << >>, NEW p, p = Tail(q)
    PROVE  /\ \A i \in Nat : i \in Joins(p) <=> i # 0 /\ i + 1 \in Joins(q)
           /\ \A i \in Nat : i \in Losses(p) <=> i # 0 /\ i + 1 \in Losses(q)
           /\ 1 \in Joins(q) <=> Head(q) = "NET_UP"
           /\ 1 \in Losses(q) <=> Head(q) = "NET_DOWN"
           /\ \A i \in Joins(q) \cup Losses(q) : i \in Nat \ {0}
           /\ \A i \in Joins(p) \cup Losses(p) : i \in Nat \ {0}
<1>1. /\ Len(p) = Len(q) - 1 /\ Len(q) \in Nat \ {0}
      /\ DOMAIN p = 1 .. Len(q) - 1 /\ DOMAIN q = 1 .. Len(q)
      /\ \A i \in 1 .. Len(q) - 1 : p[i] = q[i + 1]
      /\ Head(q) = q[1]
  OBVIOUS
<1> QED BY <1>1 DEF Joins, Losses

LEMMA AppendApart ==
    ASSUME NEW q \in Seq(SysMsg), NEW m \in SysMsg, NEW p, p = Append(q, m),
           Apart(q), m = "NET_UP" => Closed(q)
    PROVE  /\ Apart(p)
           /\ m = "NET_UP" => Joins(p) # {}
           /\ m = "NET_DOWN" => Closed(p) /\ Losses(p) # {}
           /\ m # "NET_UP" /\ Closed(q) => Closed(p)
           /\ Losses(q) # {} => Losses(p) # {}
           /\ Opened(q) /\ (m = "NET_UP" => Losses(q) # {}) => Opened(p)
           /\ Joins(p) = {} => Joins(q) = {}
<1> DEFINE n == Len(q) + 1
<1>1. /\ \A i : i \in Joins(p) <=> i \in Joins(q) \/ (i = n /\ m = "NET_UP")
      /\ \A i : i \in Losses(p) <=> i \in Losses(q) \/ (i = n /\ m = "NET_DOWN")
      /\ \A i \in Joins(q) \cup Losses(q) : i \in Nat /\ i < n
      /\ n \in Nat
  BY AppendJoins
<1> HIDE DEF n
<1>2. Apart(p)
  <2> SUFFICES ASSUME NEW i \in Joins(p), NEW j \in Joins(p), i < j
               PROVE  \E k \in Losses(p) : i < k /\ k < j
    BY DEF Apart
  <2>1. i \in Joins(q)
    BY <1>1
  <2>2. CASE j \in Joins(q)
    BY <1>1, <2>1, <2>2 DEF Apart
  <2>3. CASE j = n /\ m = "NET_UP"
    BY <1>1, <2>1, <2>3 DEF Closed
  <2> QED BY <1>1, <2>2, <2>3
<1>3. m = "NET_UP" => Joins(p) # {}
  BY <1>1
<1>4. m = "NET_DOWN" => Closed(p) /\ Losses(p) # {}
  BY <1>1 DEF Closed
<1>5. m # "NET_UP" /\ Closed(q) => Closed(p)
  BY <1>1 DEF Closed
<1>6. Losses(q) # {} => Losses(p) # {}
  BY <1>1
<1>7. Opened(q) /\ (m = "NET_UP" => Losses(q) # {}) => Opened(p)
  BY <1>1 DEF Opened
<1>8. Joins(p) = {} => Joins(q) = {}
  BY <1>1
<1> QED BY <1>2, <1>3, <1>4, <1>5, <1>6, <1>7, <1>8

LEMMA TailApart ==
    ASSUME NEW q \in Seq(SysMsg), q # << >>, NEW p, p = Tail(q), Apart(q)
    PROVE  /\ Apart(p)
           /\ Closed(q) => Closed(p)
           /\ Opened(q) => Head(q) # "NET_UP"
           /\ Opened(q) /\ Head(q) # "NET_DOWN" => Opened(p)
           /\ Head(q) = "NET_UP" => Opened(p)
           /\ Head(q) = "NET_UP" /\ Closed(q) => Losses(p) # {}
           /\ Head(q) # "NET_DOWN" /\ Losses(q) # {} => Losses(p) # {}
           /\ Joins(p) = {} /\ Head(q) # "NET_UP" => Joins(q) = {}
<1>1. /\ \A i \in Nat : i \in Joins(p) <=> i # 0 /\ i + 1 \in Joins(q)
      /\ \A i \in Nat : i \in Losses(p) <=> i # 0 /\ i + 1 \in Losses(q)
      /\ 1 \in Joins(q) <=> Head(q) = "NET_UP"
      /\ 1 \in Losses(q) <=> Head(q) = "NET_DOWN"
      /\ \A i \in Joins(q) \cup Losses(q) : i \in Nat \ {0}
      /\ \A i \in Joins(p) \cup Losses(p) : i \in Nat \ {0}
  BY TailJoins
\* A loss that is not the first message is one of the rest.
<1>2. \A k \in Losses(q) : k # 1 => k - 1 \in Nat /\ k - 1 \in Losses(p)
  <2> SUFFICES ASSUME NEW k \in Losses(q), k # 1
               PROVE  k - 1 \in Nat /\ k - 1 \in Losses(p)
    OBVIOUS
  <2>1. k - 1 \in Nat /\ k - 1 # 0 /\ (k - 1) + 1 = k
    BY <1>1
  <2> QED BY <1>1, <2>1
<1>3. \A i \in Joins(p) : i + 1 \in Joins(q) /\ i \in Nat /\ i # 0
  BY <1>1
<1>4. Apart(p)
  <2> SUFFICES ASSUME NEW i \in Joins(p), NEW j \in Joins(p), i < j
               PROVE  \E k \in Losses(p) : i < k /\ k < j
    BY DEF Apart
  <2>1. i + 1 < j + 1 /\ i + 1 \in Joins(q) /\ j + 1 \in Joins(q)
    BY <1>3
  <2>2. PICK k \in Losses(q) : i + 1 < k /\ k < j + 1
    BY <2>1 DEF Apart
  <2>3. i \in Nat /\ j \in Nat /\ k \in Nat
    BY <1>1
  <2>4. k # 1 /\ i < k - 1 /\ k - 1 < j
    BY <2>2, <2>3
  <2> QED BY <1>2, <2>4
<1>5. ASSUME Closed(q) PROVE Closed(p)
  <2> SUFFICES ASSUME NEW i \in Joins(p) PROVE \E k \in Losses(p) : i < k
    BY DEF Closed
  <2>1. PICK k \in Losses(q) : i + 1 < k
    BY <1>3, <1>5 DEF Closed
  <2>2. k # 1 /\ i < k - 1
    BY <1>1, <1>3, <2>1
  <2> QED BY <1>2, <2>2
<1>6. Opened(q) => Head(q) # "NET_UP"
  BY <1>1 DEF Opened
<1>7. ASSUME Opened(q), Head(q) # "NET_DOWN" PROVE Opened(p)
  <2> SUFFICES ASSUME NEW i \in Joins(p) PROVE \E k \in Losses(p) : k < i
    BY DEF Opened
  <2>1. PICK k \in Losses(q) : k < i + 1
    BY <1>3, <1>7 DEF Opened
  <2>2. k # 1 /\ k - 1 < i
    BY <1>1, <1>3, <1>7, <2>1
  <2> QED BY <1>2, <2>2
<1>8. ASSUME Head(q) = "NET_UP" PROVE Opened(p)
  <2> SUFFICES ASSUME NEW i \in Joins(p) PROVE \E k \in Losses(p) : k < i
    BY DEF Opened
  <2>1. 1 \in Joins(q) /\ 1 < i + 1
    BY <1>1, <1>3, <1>8
  <2>2. PICK k \in Losses(q) : 1 < k /\ k < i + 1
    BY <1>3, <2>1 DEF Apart
  <2>3. k # 1 /\ k - 1 < i
    BY <1>1, <1>3, <2>2
  <2> QED BY <1>2, <2>3
<1>9. ASSUME Head(q) = "NET_UP", Closed(q) PROVE Losses(p) # {}
  <2>1. PICK k \in Losses(q) : 1 < k
    BY <1>1, <1>9 DEF Closed
  <2>2. k # 1
    BY <1>1, <2>1
  <2> QED BY <1>2, <2>2
<1>10. Head(q) # "NET_DOWN" /\ Losses(q) # {} => Losses(p) # {}
  BY <1>1, <1>2
<1>11. ASSUME Head(q) # "NET_UP", Joins(q) # {} PROVE Joins(p) # {}
  <2>1. PICK i \in Joins(q) : TRUE
    BY <1>11
  <2>2. i - 1 \in Nat /\ i - 1 # 0 /\ (i - 1) + 1 = i
    BY <1>1, <1>11
  <2> QED BY <1>1, <2>2
<1> QED BY <1>4, <1>5, <1>6, <1>7, <1>8, <1>9, <1>10, <1>11

\* What the user task will believe after one more message, or one less.
LEMMA BelievesStep ==
    ASSUME NEW q \in Seq(UserMsg)
    PROVE  /\ \A m \in UserMsg : Append(q, m) # << >> /\ Last(Append(q, m)) = m
           /\ q # << >> => IF Tail(q) = << >> THEN Last(q) = Head(q)
                           ELSE Last(Tail(q)) = Last(q)
<1>1. \A m \in UserMsg : Append(q, m) # << >> /\ Last(Append(q, m)) = m
  BY DEF Last
<1>2. ASSUME q # << >>
      PROVE  IF Tail(q) = << >> THEN Last(q) = Head(q) ELSE Last(Tail(q)) = Last(q)
  <2>1. /\ Tail(q) \in Seq(UserMsg) /\ Len(q) \in Nat \ {0}
        /\ Len(Tail(q)) = Len(q) - 1
        /\ \A i \in 1 .. Len(q) - 1 : Tail(q)[i] = q[i + 1]
        /\ Head(q) = q[1]
    BY <1>2
  <2>2. Tail(q) = << >> <=> Len(q) = 1
    BY <2>1
  <2>3. CASE Len(q) = 1
    BY <2>1, <2>2, <2>3 DEF Last
  <2>4. CASE Len(q) # 1
    <3>1. Len(q) - 1 \in 1 .. Len(q) - 1 /\ (Len(q) - 1) + 1 = Len(q)
      BY <2>1, <2>4
    <3>2. Tail(q)[Len(q) - 1] = q[Len(q)]
      BY <2>1, <3>1
    <3> QED BY <2>1, <2>2, <2>4, <3>2 DEF Last
  <2> QED BY <2>3, <2>4
<1> QED BY <1>1, <1>2

-----------------------------------------------------------------------------
(***************************************************************************)
(* dhcp.c.                                                                 *)
(***************************************************************************)
Client(S, msgs) ==
    [state : S, tries : 0 .. TryMod - 1, timer : BOOLEAN,
     offered : {NoAddr, "a"}, deaf : BOOLEAN, asked : SUBSET msgs,
     inbox : {{}} \cup {{r} : r \in Replies}]

Asks == {"DISCOVER", "REQUEST"}

\* A state in passing and a message nobody answers.
Passing == States \cup {"backing_off"}
AnyMsg == Asks \cup {"RELEASE"}

\* tries wraps.
LEMMA TryWraps ==
    ASSUME NEW n \in 0 .. TryMod - 1
    PROVE  (n + 1) % TryMod \in 0 .. TryMod - 1
BY NetLinkBounds

\* A transmission arms the timeout.
LEMMA Transmitted ==
    ASSUME NEW S, NEW d \in Client(S, AnyMsg), NEW m \in AnyMsg,
           NEW e, e = Transmit(d, m)
    PROVE  /\ e \in Client(S, AnyMsg)
           /\ e.state = d.state /\ e.offered = d.offered /\ e.timer
           /\ m \in Asks /\ (d.tries = 0 \/ d.asked \subseteq Asks) => e \in Client(S, Asks)
<1>1. (d.tries + 1) % TryMod \in 0 .. TryMod - 1
  BY TryWraps DEF Client
<1>2. /\ e \in [state : S, tries : 0 .. TryMod - 1, timer : BOOLEAN,
                offered : {NoAddr, "a"}, deaf : BOOLEAN, asked : SUBSET AnyMsg,
                inbox : {{}} \cup {{r} : r \in Replies}]
      /\ e.state = d.state /\ e.offered = d.offered /\ e.timer
      /\ e.asked = IF wifi = "joined" THEN {m} ELSE IF d.tries = 0 THEN {} ELSE d.asked
  BY <1>1 DEF Transmit, NewXid, Client
<1>3. m \in Asks /\ (d.tries = 0 \/ d.asked \subseteq Asks) => e.asked \in SUBSET Asks
  BY <1>2
<1> QED BY <1>2, <1>3 DEF Client

\* Entering a state resets the tries, unless the client is in it.
LEMMA StateSet ==
    ASSUME NEW S, NEW d \in Client(S, AnyMsg), NEW s \in S, NEW e, e = dhcp_set_state(d, s)
    PROVE  /\ e \in Client(S, AnyMsg)
           /\ e.state = s /\ e.offered = d.offered /\ e.asked = d.asked
           /\ d.state # s => e.tries = 0
<1>1. CASE d.state = s
  BY <1>1 DEF dhcp_set_state
<1>2. CASE d.state # s
  <2>1. 0 \in 0 .. TryMod - 1
    BY NetLinkBounds
  <2>2. e = [d EXCEPT !.state = s, !.tries = 0, !.timer = FALSE]
    BY <1>2 DEF dhcp_set_state
  <2> QED BY <2>1, <2>2 DEF Client
<1> QED BY <1>1, <1>2

\* dhcp_discover begins a new transaction, or goes on with one.
LEMMA Discovered ==
    ASSUME NEW S, "selecting" \in S, NEW d \in Client(S, AnyMsg),
           d.state # "selecting" \/ d.asked \subseteq Asks,
           NEW e, e = dhcp_discover(d)
    PROVE  e \in Client({"selecting"}, Asks) /\ e.timer
<1>1. PICK f : f = dhcp_set_state(d, "selecting")
  OBVIOUS
<1>2. /\ f \in Client(S, AnyMsg) /\ f.state = "selecting" /\ f.asked = d.asked
      /\ d.state # "selecting" => f.tries = 0
  BY <1>1, StateSet
<1>3. PICK g : g = [f EXCEPT !.offered = NoAddr]
  OBVIOUS
<1>4. /\ g \in Client({"selecting"}, AnyMsg)
      /\ g.tries = 0 \/ g.asked \subseteq Asks
  BY <1>2, <1>3 DEF Client
<1>5. e = Transmit(g, "DISCOVER")
  BY <1>1, <1>3 DEF dhcp_discover
<1> QED BY <1>4, <1>5, Transmitted DEF Asks, AnyMsg

\* dhcp_select, dhcp_renew and dhcp_rebind.
LEMMA Requested ==
    ASSUME NEW d \in Client(States, Asks), NEW s \in Requesting,
           NEW e, e = Transmit(dhcp_set_state(d, s), "REQUEST")
    PROVE  e \in Client({s}, Asks) /\ e.timer /\ e.offered = d.offered
<1>1. d \in Client(States, AnyMsg) /\ d.asked \subseteq Asks /\ s \in States
  BY DEF Client, AnyMsg, States, Requesting
<1>2. PICK f : f = dhcp_set_state(d, s)
  OBVIOUS
<1>3. f \in Client(States, AnyMsg) /\ f.state = s /\ f.asked = d.asked /\ f.offered = d.offered
  BY <1>1, <1>2, StateSet
<1>4. f \in Client({s}, AnyMsg)
  BY <1>3 DEF Client
<1> QED BY <1>1, <1>2, <1>3, <1>4, Transmitted DEF Asks, AnyMsg

-----------------------------------------------------------------------------
(***************************************************************************)
(* The TCP/IP thread.                                                      *)
(***************************************************************************)
Waiting == {"selecting"} \cup Requesting

\* What a step of dhcp.c may do: a client that waits has its timeout armed or
\* is deaf, one with an address knows it; a client that is off stays off; the
\* interface is left alone, taken down, or brought up with the leased address.
Leased(d) ==
    /\ d \in Client(States, Asks)
    /\ d.state \in Waiting => d.timer \/ d.deaf
    /\ d.state \in Requesting \cup {"bound"} => d.offered = "a"

Effect ==
    /\ Leased(dhcp')
    /\ dhcp.state \in {"none", "off"} =>
          dhcp'.state = dhcp.state /\ UNCHANGED <<nif, userQ>>
    /\ UNCHANGED <<nif, userQ>> \/ TakeDown \/ BringUp("a")
    /\ UNCHANGED <<link, sys, awake>>

\* The client as the invariant knows it.
LEMMA ClientNow ==
    ASSUME TypeOK, TriesOn, AddressKnown
    PROVE  Leased(dhcp)
BY DEF TypeOK, TriesOn, AddressKnown, Leased, Client, Asks, Waiting, Requesting

\* A client that has sent something is as it should be.
LEMMA SentOK ==
    ASSUME NEW s \in Waiting, NEW e \in Client({s}, Asks), e.timer,
           s = "selecting" \/ e.offered = "a"
    PROVE  Leased(e) /\ e.state \in Waiting
BY DEF Leased, Client, Waiting, Requesting, States

LEMMA FineTimerEffect ==
    ASSUME TypeOK, TriesOn, AddressKnown, dhcp_fine_tmr
    PROVE  Effect
<1>1. Leased(dhcp)
  BY ClientNow
<1>2. PICK d : d = [dhcp EXCEPT !.timer = FALSE]
  OBVIOUS
<1>3. d \in Client(States, Asks) /\ d.state = dhcp.state /\ d.offered = dhcp.offered
  BY <1>1, <1>2 DEF Leased, Client
<1>4. d \in Client(States, AnyMsg) /\ d.asked \subseteq Asks /\ "selecting" \in States
  BY <1>3 DEF Client, AnyMsg, States
<1>5. CASE TimeoutSelecting
  <2>1. dhcp' \in Client({"selecting"}, Asks) /\ dhcp'.timer
    BY <1>2, <1>4, <1>5, Discovered DEF TimeoutSelecting
  <2> QED BY <1>5, <2>1, SentOK DEF TimeoutSelecting, dhcp_fine_tmr, Effect, Waiting
<1>6. CASE TimeoutRequesting \/ TimeoutRenewing \/ TimeoutRebinding
  <2>1. PICK s \in Requesting : /\ dhcp.state \in Requesting
                                /\ dhcp' = Transmit(dhcp_set_state(d, s), "REQUEST")
                                /\ UNCHANGED <<nif, userQ>>
    BY <1>2, <1>6 DEF TimeoutRequesting, TimeoutRenewing, TimeoutRebinding,
                      dhcp_select, dhcp_renew, dhcp_rebind, Requesting
  <2>2. dhcp' \in Client({s}, Asks) /\ dhcp'.timer /\ dhcp'.offered = d.offered
    BY <1>3, <2>1, Requested
  <2>3. dhcp'.offered = "a" /\ dhcp.state \notin {"none", "off"}
    BY <1>1, <1>3, <2>1, <2>2 DEF Leased, Requesting
  <2> QED BY <2>1, <2>2, <2>3, SentOK DEF dhcp_fine_tmr, Effect, Waiting
<1>7. CASE GiveUp
  <2>1. dhcp.state \notin {"off", "none"} /\ TakeDown
    BY <1>7 DEF GiveUp
  <2>2. PICK f : f = dhcp_set_state(dhcp, "off")
    OBVIOUS
  <2>3. dhcp \in Client(States, AnyMsg) /\ "off" \in States
    BY <1>1 DEF Leased, Client, AnyMsg, States
  <2>4. f \in Client(States, AnyMsg) /\ f.state = "off"
    BY <2>2, <2>3, StateSet
  <2>5. PICK g : g = [f EXCEPT !.offered = NoAddr]
    OBVIOUS
  <2>6. g \in Client(States, AnyMsg) /\ g.state = "off"
    BY <2>4, <2>5 DEF Client
  <2>7. dhcp_release(dhcp) = Transmit(g, "RELEASE")
    BY <2>2, <2>5 DEF dhcp_release
  <2>8. PICK h : h = dhcp_release(dhcp)
    OBVIOUS
  <2>9. h \in Client(States, AnyMsg) /\ h.state = "off"
    BY <2>6, <2>7, <2>8, Transmitted DEF AnyMsg
  <2>10. dhcp' \in Client({"selecting"}, Asks) /\ dhcp'.timer
    BY <1>4, <1>7, <2>8, <2>9, Discovered DEF GiveUp
  <2> QED BY <2>1, <2>10, SentOK DEF dhcp_fine_tmr, Effect, Waiting
<1> QED BY <1>5, <1>6, <1>7 DEF dhcp_fine_tmr

LEMMA CoarseTimerEffect ==
    ASSUME TypeOK, TriesOn, AddressKnown, dhcp_t1_timeout \/ dhcp_t2_timeout
    PROVE  Effect
<1>1. Leased(dhcp)
  BY ClientNow
<1>2. PICK s \in Requesting : /\ dhcp.state \in {"requesting", "bound", "renewing"}
                              /\ dhcp' = Transmit(dhcp_set_state(dhcp, s), "REQUEST")
  BY DEF dhcp_t1_timeout, dhcp_t2_timeout, dhcp_renew, dhcp_rebind, Requesting
<1>3. dhcp' \in Client({s}, Asks) /\ dhcp'.timer /\ dhcp'.offered = "a"
  BY <1>1, <1>2, Requested DEF Leased, Requesting
<1> QED BY <1>2, <1>3, SentOK
        DEF dhcp_t1_timeout, dhcp_t2_timeout, Effect, Waiting, user

LEMMA RecvEffect ==
    ASSUME TypeOK, TriesOn, AddressKnown, NEW r, dhcp_recv(r)
    PROVE  Effect
<1>1. Leased(dhcp)
  BY ClientNow
<1>2. PICK d : d = [dhcp EXCEPT !.inbox = {}]
  OBVIOUS
<1>3. /\ Leased(d) /\ d.state = dhcp.state
      /\ UNCHANGED <<link, sys, awake>>
  BY <1>1, <1>2 DEF Leased, Client, dhcp_recv
<1>4. CASE Useless(d, r)
  BY <1>3, <1>4 DEF Useless, Effect
<1>5. CASE RecvAck(d)
  <2>1. d.state \in Requesting /\ d.offered = "a"
    BY <1>3, <1>5 DEF RecvAck, Leased
  <2>2. /\ dhcp' = dhcp_set_state([d EXCEPT !.offered = "a"], "bound")
        /\ BringUp("a")
    BY <1>5, <2>1 DEF RecvAck
  <2>3. PICK e : e = [d EXCEPT !.offered = "a"]
    OBVIOUS
  <2>4. /\ e \in Client(States, AnyMsg) /\ "bound" \in States /\ e.offered = "a"
        /\ e.asked \subseteq Asks
        /\ dhcp' = dhcp_set_state(e, "bound")
    BY <1>3, <2>2, <2>3 DEF Leased, Client, AnyMsg, States
  <2>5. /\ dhcp' \in Client(States, AnyMsg) /\ dhcp'.state = "bound"
        /\ dhcp'.offered = "a" /\ dhcp'.asked \subseteq Asks
    BY <2>4, StateSet
  <2>6. Leased(dhcp')
    BY <2>5 DEF Leased, Client, Waiting, Requesting
  <2> QED BY <1>3, <2>1, <2>2, <2>6 DEF Effect, Requesting
<1>6. CASE RecvOffer(d, r)
  <2>1. CASE r.good
    <3>1. PICK e : e = [d EXCEPT !.offered = "a", !.timer = FALSE]
      OBVIOUS
    <3>2. e \in Client(States, Asks) /\ e.offered = "a"
      BY <1>3, <3>1 DEF Leased, Client
    <3>3. dhcp' = Transmit(dhcp_set_state(e, "requesting"), "REQUEST")
      BY <1>6, <2>1, <3>1 DEF RecvOffer, dhcp_select
    <3>4. dhcp' \in Client({"requesting"}, Asks) /\ dhcp'.timer /\ dhcp'.offered = "a"
      BY <3>2, <3>3, Requested DEF Requesting
    <3> QED BY <1>3, <1>6, <3>4, SentOK DEF RecvOffer, Effect, Waiting, Requesting
  <2>2. CASE ~r.good
    BY <1>3, <1>6, <2>2 DEF RecvOffer, Effect, Leased, Client, Requesting
  <2> QED BY <2>1, <2>2
<1>7. CASE RecvNak(d)
  <2>1. PICK e : e = dhcp_set_state(d, "backing_off")
    OBVIOUS
  <2>2. d \in Client(Passing, AnyMsg) /\ "backing_off" \in Passing /\ "selecting" \in Passing
    BY <1>3 DEF Leased, Client, Passing, AnyMsg, States
  <2>3. e \in Client(Passing, AnyMsg) /\ e.state = "backing_off"
    BY <2>1, <2>2, StateSet
  <2>4. dhcp' \in Client({"selecting"}, Asks) /\ dhcp'.timer
    BY <1>7, <2>1, <2>2, <2>3, Discovered DEF RecvNak
  <2> QED BY <1>3, <1>7, <2>4, SentOK DEF RecvNak, Effect, Waiting, Requesting
<1> QED BY <1>2, <1>4, <1>5, <1>6, <1>7 DEF dhcp_recv

-----------------------------------------------------------------------------
(***************************************************************************)
(* The steps.  Each lemma shows that an action keeps the invariant.        *)
(***************************************************************************)
\* The parts of the invariant about lwIP, and those about what is told.
LinkInv == TypeOK /\ UpHasAddr /\ TriesOn /\ OneWay /\ AddressKnown

ToldInv == Untold /\ Told /\ Alternate /\ DownFirst

\* The queues under TypeOK.
LEMMA QueuesNow ==
    ASSUME TypeOK
    PROVE  /\ sysQ \in BoundedSeq(SysMsg, QLen) /\ sysQ \in Seq(SysMsg)
           /\ userQ \in BoundedSeq(UserMsg, QLen) /\ userQ \in Seq(UserMsg)
<1>1. sysQ \in BoundedSeq(SysMsg, QLen) /\ userQ \in BoundedSeq(UserMsg, QLen)
  BY DEF TypeOK, SysMsg, UserMsg
<1> QED BY <1>1, QueueStep

\* netif_set_up tells the user task of an interface that was down.
LEMMA BroughtUp ==
    ASSUME TypeOK, NEW addr \in {NoAddr, "a", "static"}, BringUp(addr),
           nif.up => Believes, UNCHANGED awake
    PROVE  userQ' \in BoundedSeq(UserMsg, QLen) /\ Believes'
<1>1. userQ \in BoundedSeq(UserMsg, QLen) /\ userQ \in Seq(UserMsg)
  BY QueuesNow
<1>2. CASE nif.up
  BY <1>1, <1>2 DEF BringUp, Believes
<1>3. CASE ~nif.up
  <2>1. Room(userQ) /\ userQ' = Append(userQ, "NET_UP")
    BY <1>3 DEF BringUp
  <2>2. userQ' # << >> /\ Last(userQ') = "NET_UP"
    BY <1>1, <2>1, BelievesStep DEF UserMsg
  <2>3. userQ' \in BoundedSeq(UserMsg, QLen)
    BY <1>1, <2>1, QueueStep DEF UserMsg
  <2> QED BY <2>2, <2>3 DEF Believes
<1> QED BY <1>2, <1>3

\* The same when the interface was up for another reason.
LEMMA BroughtUpType ==
    ASSUME TypeOK, NEW addr \in {NoAddr, "a", "static"}, BringUp(addr)
    PROVE  userQ' \in BoundedSeq(UserMsg, QLen)
<1>1. userQ \in BoundedSeq(UserMsg, QLen)
  BY QueuesNow
<1> QED BY <1>1, QueueStep DEF BringUp, UserMsg

\* The TCP/IP thread.
LEMMA LwipStep ==
    ASSUME IInv, Effect
    PROVE  IInv'
<1>1. LinkInv /\ ToldInv
  BY DEF IInv, LinkInv, ToldInv
<1>2. TypeOK /\ OneWay /\ AddressKnown /\ DownFirst /\ Told
  BY <1>1 DEF LinkInv, ToldInv
<1>3. UNCHANGED <<wifi, event, oneshot, useDhcp, sysQ, sysPc, awake>>
  BY DEF Effect, link, sys
<1>4. Leased(dhcp') /\ dhcp' \in Client(States, Asks)
  BY DEF Effect, Leased
<1>5. ~useDhcp => UNCHANGED <<nif, userQ>> /\ dhcp'.state = "none"
  BY <1>2 DEF Effect, OneWay
<1>6. sysPc \in Storing => UNCHANGED nif
  BY <1>2, <1>5 DEF OneWay
<1>7. nif.up \in BOOLEAN /\ nif \in [up : BOOLEAN, ip : {NoAddr, "a", "static"}]
  BY <1>2 DEF TypeOK
<1>8. userQ' \in BoundedSeq(UserMsg, QLen)
  BY <1>2, QueuesNow, BroughtUpType DEF Effect, TakeDown
<1>9. nif' \in [up : BOOLEAN, ip : {NoAddr, "a", "static"}]
  <2>1. NoAddr \in {NoAddr, "a", "static"} /\ "a" \in {NoAddr, "a", "static"}
    OBVIOUS
  <2>2. nif' = nif \/ nif' = [up |-> FALSE, ip |-> NoAddr] \/ nif' = [up |-> TRUE, ip |-> "a"]
    BY DEF Effect, TakeDown, BringUp
  <2>3. CASE nif' = nif
    BY <1>7, <2>3
  <2>4. CASE nif' = [up |-> FALSE, ip |-> NoAddr]
    BY <2>1, <2>4
  <2>5. CASE nif' = [up |-> TRUE, ip |-> "a"]
    BY <2>1, <2>5
  <2> QED BY <2>2, <2>3, <2>4, <2>5
<1>10. TypeOK'
  BY <1>2, <1>3, <1>4, <1>8, <1>9 DEF TypeOK, Client, Asks, UserMsg
<1>11. UpHasAddr'
  BY <1>1, <1>3 DEF LinkInv, UpHasAddr, Effect, TakeDown, BringUp, NoAddr
<1>12. TriesOn'
  BY <1>4 DEF TriesOn, Leased, Waiting, Requesting
<1>13. OneWay'
  BY <1>2, <1>3, <1>5 DEF OneWay
<1>14. AddressKnown'
  BY <1>2, <1>3, <1>4, <1>6 DEF AddressKnown, Leased, Storing
<1>15. Untold' /\ Alternate'
  BY <1>1, <1>3 DEF ToldInv, Untold, Alternate
<1>16. Told'
  <2> SUFFICES ASSUME nif'.up, wifi = "joined", Joins(sysQ) = {},
                      sysPc \notin {"set_addr", "clear_up"} \cup Storing
               PROVE  Believes'
    BY <1>3 DEF Told
  <2>1. nif.up => Believes
    BY <1>2 DEF Told
  <2>2. CASE UNCHANGED <<nif, userQ>>
    BY <1>3, <2>1, <2>2 DEF Believes
  <2>3. CASE BringUp("a")
    BY <1>2, <1>3, <2>1, <2>3, BroughtUp
  <2>4. ~TakeDown
    BY DEF TakeDown
  <2> QED BY <2>2, <2>3, <2>4 DEF Effect
<1>17. DownFirst'
  BY <1>2, <1>3, <1>5 DEF DownFirst, Raised
<1> QED BY <1>10, <1>11, <1>12, <1>13, <1>14, <1>15, <1>16, <1>17 DEF IInv

\* The system task takes a message.
LEMMA SysTaskStep ==
    ASSUME IInv, tls_sys_task
    PROVE  IInv'
<1>1. TypeOK /\ OneWay /\ AddressKnown /\ DownFirst /\ Told /\ Alternate /\ Untold
  BY DEF IInv
<1>2. /\ sysPc = "idle" /\ sysQ # << >> /\ sysQ' = Tail(sysQ)
      /\ UNCHANGED <<wifi, event, oneshot, useDhcp, nif, dhcp, userQ, awake>>
      /\ Head(sysQ) = "NET_UP" => sysPc' = IF useDhcp THEN "set_addr" ELSE "dhcp_stop"
      /\ Head(sysQ) = "NET_DOWN" => sysPc' = "set_down"
      /\ Head(sysQ) \notin {"NET_UP", "NET_DOWN"} => sysPc' = "delay"
  BY DEF tls_sys_task, Received, link, lwip, user
<1>3. sysQ \in BoundedSeq(SysMsg, QLen) /\ sysQ \in Seq(SysMsg)
  BY <1>1, QueuesNow
<1>4. sysQ' \in BoundedSeq(SysMsg, QLen)
  BY <1>2, <1>3, QueueStep
<1>5. Apart(sysQ) /\ (wifi # "joined" => Closed(sysQ))
  BY <1>1 DEF Alternate
<1>6. /\ Apart(sysQ')
      /\ Closed(sysQ) => Closed(sysQ')
      /\ Opened(sysQ) => Head(sysQ) # "NET_UP"
      /\ Opened(sysQ) /\ Head(sysQ) # "NET_DOWN" => Opened(sysQ')
      /\ Head(sysQ) = "NET_UP" => Opened(sysQ')
      /\ Head(sysQ) = "NET_UP" /\ Closed(sysQ) => Losses(sysQ') # {}
      /\ Head(sysQ) # "NET_DOWN" /\ Losses(sysQ) # {} => Losses(sysQ') # {}
      /\ Joins(sysQ') = {} /\ Head(sysQ) # "NET_UP" => Joins(sysQ) = {}
  BY <1>2, <1>3, <1>5, TailApart
<1>7. sysPc' \in {"set_addr", "dhcp_stop", "set_down", "delay"}
  BY <1>2
<1>8. TypeOK'
  BY <1>1, <1>2, <1>4, <1>7 DEF TypeOK, SysMsg
<1>9. UpHasAddr' /\ TriesOn' /\ OneWay' /\ AddressKnown' /\ Untold'
  BY <1>1, <1>2, <1>7
  DEF IInv, UpHasAddr, TriesOn, OneWay, AddressKnown, Untold, Storing, Dhcping
<1>10. Alternate'
  BY <1>2, <1>5, <1>6 DEF Alternate
<1>11. Told'
  BY <1>1, <1>2, <1>6, <1>7 DEF Told, Believes, Storing
<1>12. DownFirst'
  BY <1>1, <1>2, <1>5, <1>6, <1>7 DEF DownFirst, Raised, Storing
<1> QED BY <1>8, <1>9, <1>10, <1>11, <1>12 DEF IInv

\* sys_net_up with DHCP.
LEMMA NetUpDhcpStep ==
    ASSUME IInv, SetAddr \/ ClearUp \/ dhcp_start
    PROVE  IInv'
<1>1. /\ TypeOK /\ UpHasAddr /\ TriesOn /\ OneWay /\ AddressKnown
      /\ DownFirst /\ Told /\ Alternate /\ Untold
  BY DEF IInv
<1>2. /\ UNCHANGED <<wifi, event, oneshot, useDhcp, sysQ, userQ, awake>>
      /\ sysPc \in Dhcping /\ sysPc' \in {"clear_up", "dhcp_start", "idle"}
  BY DEF SetAddr, ClearUp, dhcp_start, link, user, Dhcping
<1>3. useDhcp
  BY <1>1, <1>2 DEF OneWay
<1>4. /\ nif \in [up : BOOLEAN, ip : {NoAddr, "a", "static"}]
      /\ Leased(dhcp)
  BY <1>1, ClientNow DEF TypeOK
<1>5. CASE SetAddr
  <2>1. /\ nif' \in [up : BOOLEAN, ip : {NoAddr, "a", "static"}]
        /\ nif'.up = nif.up /\ dhcp' = dhcp /\ sysPc' = "clear_up"
    BY <1>4, <1>5 DEF SetAddr
  <2>2. TypeOK'
    BY <1>1, <1>2, <2>1 DEF TypeOK
  <2>3. UpHasAddr' /\ TriesOn' /\ OneWay' /\ AddressKnown'
    BY <1>1, <1>2, <1>3, <2>1 DEF UpHasAddr, TriesOn, OneWay, AddressKnown, Storing
  <2>4. Told' /\ Alternate' /\ Untold' /\ DownFirst'
    BY <1>1, <1>2, <1>3, <2>1 DEF Told, Alternate, Untold, DownFirst
  <2> QED BY <2>2, <2>3, <2>4 DEF IInv
<1>6. CASE ClearUp
  <2>1. /\ nif' \in [up : BOOLEAN, ip : {NoAddr, "a", "static"}]
        /\ ~nif'.up /\ dhcp' = dhcp /\ sysPc' = "dhcp_start"
    BY <1>4, <1>6 DEF ClearUp
  <2>2. TypeOK'
    BY <1>1, <1>2, <2>1 DEF TypeOK
  <2>3. UpHasAddr' /\ TriesOn' /\ OneWay' /\ AddressKnown'
    BY <1>1, <1>2, <1>3, <2>1 DEF UpHasAddr, TriesOn, OneWay, AddressKnown, Storing
  <2>4. Told' /\ Alternate' /\ Untold' /\ DownFirst'
    BY <1>1, <1>2, <1>3, <2>1 DEF Told, Alternate, Untold, DownFirst
  <2> QED BY <2>2, <2>3, <2>4 DEF IInv
<1>7. CASE dhcp_start
  <2>1. nif' = nif /\ sysPc = "dhcp_start" /\ sysPc' = "idle"
    BY <1>7 DEF dhcp_start
  <2>2. Fresh \in Client(States, Asks) /\ Fresh.state = "off"
    BY NetLinkBounds DEF Fresh, Client, States, NoAddr
  <2>3. Leased(dhcp')
    <3>1. CASE dhcp' = dhcp_discover(Fresh)
      <4>1. Fresh \in Client(States, AnyMsg) /\ "selecting" \in States
        BY <2>2 DEF Client, AnyMsg, States
      <4>2. dhcp' \in Client({"selecting"}, Asks) /\ dhcp'.timer
        BY <2>2, <3>1, <4>1, Discovered
      <4> QED BY <4>2, SentOK DEF Waiting
    <3>2. CASE dhcp' = Fresh
      BY <2>2, <3>2 DEF Leased, Waiting, Requesting
    <3>3. CASE dhcp' = dhcp
      BY <1>4, <3>3
    <3> QED BY <1>7, <3>1, <3>2, <3>3 DEF dhcp_start
  <2>4. TypeOK'
    BY <1>1, <1>2, <2>1, <2>3 DEF TypeOK, Leased, Client, Asks
  <2>5. UpHasAddr' /\ TriesOn' /\ OneWay' /\ AddressKnown'
    BY <1>1, <1>2, <1>3, <2>1, <2>3
    DEF UpHasAddr, TriesOn, OneWay, AddressKnown, Storing, Leased, Waiting, Requesting
  <2>6. Told' /\ Alternate' /\ Untold' /\ DownFirst'
    BY <1>1, <1>2, <1>3, <2>1
    DEF Told, Believes, Alternate, Untold, DownFirst, Storing
  <2> QED BY <2>4, <2>5, <2>6 DEF IInv
<1> QED BY <1>5, <1>6, <1>7

\* sys_net_up with a stored address: the interface is down until SetUp.
LEMMA NetUpStaticStep ==
    ASSUME IInv, dhcp_stop \/ SetStatic \/ SetUp
    PROVE  IInv'
<1>1. /\ TypeOK /\ UpHasAddr /\ TriesOn /\ OneWay /\ AddressKnown
      /\ DownFirst /\ Told /\ Alternate /\ Untold
  BY DEF IInv
<1>2. /\ UNCHANGED <<wifi, event, oneshot, useDhcp, sysQ, awake>>
      /\ sysPc \in Storing
  BY DEF dhcp_stop, SetStatic, SetUp, link, user, Storing
<1>3. ~useDhcp /\ dhcp.state = "none" /\ ~nif.up
  BY <1>1, <1>2 DEF OneWay, DownFirst
<1>4. dhcp' = dhcp
  BY <1>3 DEF dhcp_stop, SetStatic, SetUp
<1>5. nif \in [up : BOOLEAN, ip : {NoAddr, "a", "static"}]
  BY <1>1 DEF TypeOK
<1>6. Alternate' /\ Untold' /\ TriesOn'
  BY <1>1, <1>2, <1>4 DEF Alternate, Untold, TriesOn
<1>7. CASE dhcp_stop \/ SetStatic
  <2>1. /\ nif' \in [up : BOOLEAN, ip : {NoAddr, "a", "static"}]
        /\ ~nif'.up /\ userQ' = userQ
        /\ sysPc' \in {"set_static", "set_up"}
        /\ sysPc' = "set_up" => nif'.ip = "static"
    BY <1>3, <1>5, <1>7 DEF dhcp_stop, SetStatic, user
  <2>2. TypeOK'
    BY <1>1, <1>2, <1>4, <2>1 DEF TypeOK
  <2>3. UpHasAddr' /\ OneWay' /\ AddressKnown'
    BY <1>1, <1>2, <1>3, <1>4, <2>1
    DEF UpHasAddr, OneWay, AddressKnown, Dhcping, Requesting, NoAddr
  <2>4. Told' /\ DownFirst'
    BY <1>1, <1>2, <2>1 DEF Told, DownFirst, Raised, Storing
  <2> QED BY <1>6, <2>2, <2>3, <2>4 DEF IInv
<1>8. CASE SetUp
  <2>1. /\ sysPc = "set_up" /\ sysPc' = "idle" /\ BringUp(nif.ip)
        /\ nif.ip \in {NoAddr, "a", "static"} /\ nif.ip # NoAddr
    BY <1>1, <1>5, <1>8 DEF SetUp, AddressKnown
  <2>2. /\ nif' \in [up : BOOLEAN, ip : {NoAddr, "a", "static"}]
        /\ nif'.up /\ nif'.ip # NoAddr
    BY <2>1 DEF BringUp
  <2>3. userQ' \in BoundedSeq(UserMsg, QLen) /\ Believes'
    BY <1>1, <1>2, <1>3, <2>1, BroughtUp
  <2>4. TypeOK'
    BY <1>1, <1>2, <1>4, <2>1, <2>2, <2>3 DEF TypeOK, UserMsg
  <2>5. UpHasAddr' /\ OneWay' /\ AddressKnown'
    BY <1>1, <1>2, <1>3, <1>4, <2>1, <2>2
    DEF UpHasAddr, OneWay, AddressKnown, Dhcping, Requesting
  <2>6. Told' /\ DownFirst'
    BY <1>1, <1>2, <2>1, <2>3 DEF Told, DownFirst, Raised, Storing
  <2> QED BY <1>6, <2>4, <2>5, <2>6 DEF IInv
<1> QED BY <1>7, <1>8

\* sys_net_down, and the reconnection after its delay.
LEMMA NetDownStep ==
    ASSUME IInv, SetDown \/ AutoReconnect
    PROVE  IInv'
<1>1. /\ TypeOK /\ UpHasAddr /\ TriesOn /\ OneWay /\ AddressKnown
      /\ DownFirst /\ Told /\ Alternate /\ Untold
  BY DEF IInv
<1>2. /\ UNCHANGED <<event, oneshot, useDhcp, sysQ, userQ, awake, dhcp>>
      /\ sysPc \in {"set_down", "delay"} /\ sysPc' \in {"delay", "idle"}
  BY DEF SetDown, AutoReconnect, link, lwip, user
<1>3. nif \in [up : BOOLEAN, ip : {NoAddr, "a", "static"}]
  BY <1>1 DEF TypeOK
<1>4. CASE SetDown
  <2>1. /\ nif' \in [up : BOOLEAN, ip : {NoAddr, "a", "static"}]
        /\ ~nif'.up /\ wifi' = wifi /\ sysPc' = "delay"
    BY <1>3, <1>4 DEF SetDown, link
  <2>2. TypeOK'
    BY <1>1, <1>2, <2>1 DEF TypeOK
  <2>3. UpHasAddr' /\ TriesOn' /\ OneWay' /\ AddressKnown'
    BY <1>1, <1>2, <2>1 DEF UpHasAddr, TriesOn, OneWay, AddressKnown, Storing, Dhcping
  <2>4. Told' /\ Alternate' /\ Untold' /\ DownFirst'
    BY <1>1, <1>2, <2>1 DEF Told, Alternate, Untold, DownFirst, Raised, Storing
  <2> QED BY <2>2, <2>3, <2>4 DEF IInv
<1>5. CASE AutoReconnect
  <2>1. /\ nif' = nif /\ sysPc = "delay" /\ sysPc' = "idle"
        /\ wifi' \in {"lost", "joining", "joined"}
        /\ wifi' = "joined" <=> wifi = "joined"
    BY <1>1, <1>5 DEF AutoReconnect, lwip, TypeOK
  <2>2. TypeOK'
    BY <1>1, <1>2, <2>1 DEF TypeOK
  <2>3. UpHasAddr' /\ TriesOn' /\ OneWay' /\ AddressKnown'
    BY <1>1, <1>2, <2>1 DEF UpHasAddr, TriesOn, OneWay, AddressKnown, Storing, Dhcping
  <2>4. Told' /\ Alternate' /\ Untold' /\ DownFirst'
    BY <1>1, <1>2, <2>1
    DEF Told, Believes, Alternate, Untold, DownFirst, Raised, Storing
  <2> QED BY <2>2, <2>3, <2>4 DEF IInv
<1> QED BY <1>4, <1>5

\* Steps that change neither lwIP nor what the system task is at.
LEMMA LinkKept ==
    ASSUME LinkInv, TypeOK', UNCHANGED <<useDhcp, sysPc, nif>>,
           dhcp'.state = dhcp.state /\ dhcp'.timer = dhcp.timer
           /\ dhcp'.deaf = dhcp.deaf /\ dhcp'.offered = dhcp.offered
    PROVE  LinkInv'
BY DEF LinkInv, UpHasAddr, TriesOn, OneWay, AddressKnown

\* The Wi-Fi task: what it tells the system task keeps joins and losses apart,
\* and the user task has heard of a loss before the next join.
LEMMA WifiStep ==
    ASSUME IInv, JoinOk \/ JoinFails \/ Disconnect
    PROVE  IInv'
<1>1. /\ TypeOK /\ DownFirst /\ Told /\ Alternate /\ Untold /\ LinkInv
  BY DEF IInv, LinkInv
<1>2. UNCHANGED <<oneshot, useDhcp, sysPc, nif, dhcp, userQ, awake>> /\ event = "none"
  BY DEF JoinOk, JoinFails, Disconnect, lwip, user
<1>3. PICK m \in SysMsg :
          /\ Room(sysQ) /\ sysQ' = Append(sysQ, m)
          /\ wifi' \in {"lost", "joined"} /\ event' \in {"none", "NET_DOWN"}
          /\ wifi' = "joined" => m = "NET_UP" /\ wifi # "joined" /\ event' = "none"
          /\ wifi' = "lost" => m # "NET_UP" /\ (wifi # "joined" \/ m = "NET_DOWN")
  BY DEF JoinOk, JoinFails, Disconnect, Tell, SysMsg
<1>4. sysQ \in BoundedSeq(SysMsg, QLen) /\ sysQ \in Seq(SysMsg)
  BY <1>1, QueuesNow
<1>5. sysQ' \in BoundedSeq(SysMsg, QLen)
  BY <1>3, <1>4, QueueStep
<1>6. Apart(sysQ) /\ (wifi # "joined" => Closed(sysQ))
  BY <1>1 DEF Alternate
<1>7. m = "NET_UP" => wifi' = "joined" /\ wifi # "joined"
  BY <1>3
<1>8. /\ Apart(sysQ')
      /\ m = "NET_UP" => Joins(sysQ') # {}
      /\ m = "NET_DOWN" => Closed(sysQ') /\ Losses(sysQ') # {}
      /\ m # "NET_UP" /\ Closed(sysQ) => Closed(sysQ')
      /\ Losses(sysQ) # {} => Losses(sysQ') # {}
      /\ Opened(sysQ) /\ (m = "NET_UP" => Losses(sysQ) # {}) => Opened(sysQ')
  BY <1>3, <1>4, <1>6, <1>7, AppendApart
<1>9. TypeOK'
  BY <1>1, <1>2, <1>3, <1>5 DEF TypeOK, SysMsg
<1>10. LinkInv'
  BY <1>1, <1>2, <1>9, LinkKept
<1>11. Untold'
  BY <1>3 DEF Untold
<1>12. Told'
  BY <1>3, <1>8 DEF Told
<1>13. Alternate'
  BY <1>3, <1>6, <1>8 DEF Alternate
<1>14. DownFirst'
  BY <1>1, <1>2, <1>3, <1>8 DEF DownFirst, Raised
<1> QED BY <1>10, <1>11, <1>12, <1>13, <1>14 DEF IInv, LinkInv

\* The user task is told of the loss; it has not been joined since.
LEMMA TellUserStep ==
    ASSUME IInv, TellUser
    PROVE  IInv'
<1>1. /\ TypeOK /\ DownFirst /\ Told /\ Alternate /\ Untold /\ LinkInv
  BY DEF IInv, LinkInv
<1>2. /\ UNCHANGED <<wifi, oneshot, useDhcp, sysQ, sysPc, nif, dhcp, awake>>
      /\ wifi # "joined" /\ event' = "none"
      /\ Room(userQ) /\ userQ' = Append(userQ, event) /\ event \in UserMsg
  BY <1>1 DEF TellUser, sys, lwip, Untold, TypeOK, UserMsg
<1>3. userQ' \in BoundedSeq(UserMsg, QLen)
  BY <1>1, <1>2, QueuesNow, QueueStep
<1>4. TypeOK'
  BY <1>1, <1>2, <1>3 DEF TypeOK, UserMsg
<1>5. LinkInv'
  BY <1>1, <1>2, <1>4, LinkKept
<1>6. Untold' /\ Told' /\ Alternate' /\ DownFirst'
  BY <1>1, <1>2 DEF Untold, Told, Alternate, DownFirst, Raised
<1> QED BY <1>5, <1>6 DEF IInv, LinkInv, ToldInv

\* The user task acts on its first message, and still believes the last.
LEMMA UserTaskStep ==
    ASSUME IInv, UserTask
    PROVE  IInv'
<1>1. /\ TypeOK /\ DownFirst /\ Told /\ Alternate /\ Untold /\ LinkInv
  BY DEF IInv, LinkInv
<1>2. /\ UNCHANGED <<wifi, event, oneshot, useDhcp, sysQ, sysPc, nif, dhcp>>
      /\ userQ # << >> /\ userQ' = Tail(userQ) /\ awake' = (Head(userQ) = "NET_UP")
  BY DEF UserTask, link, sys, lwip
<1>3. userQ \in BoundedSeq(UserMsg, QLen) /\ userQ \in Seq(UserMsg)
  BY <1>1, QueuesNow
<1>4. userQ' \in BoundedSeq(UserMsg, QLen) /\ awake' \in BOOLEAN
  BY <1>2, <1>3, QueueStep
<1>5. TypeOK'
  BY <1>1, <1>2, <1>4 DEF TypeOK, UserMsg
<1>6. Believes => Believes'
  <2>1. IF userQ' = << >> THEN Last(userQ) = Head(userQ) ELSE Last(userQ') = Last(userQ)
    BY <1>2, <1>3, BelievesStep
  <2> QED BY <1>2, <2>1 DEF Believes
<1>7. LinkInv'
  BY <1>1, <1>2, <1>5, LinkKept
<1>8. Untold' /\ Told' /\ Alternate' /\ DownFirst'
  BY <1>1, <1>2, <1>6 DEF Untold, Told, Alternate, DownFirst, Raised
<1> QED BY <1>7, <1>8 DEF IInv, LinkInv, ToldInv

\* A connection attempt, the button, and the answers of the server.
LEMMA OutsideStep ==
    ASSUME IInv,
           Connect \/ Oneshot \/ (\E good \in BOOLEAN : ReplyOffer(good))
           \/ ReplyAck \/ ReplyNak
    PROVE  IInv'
<1>1. /\ TypeOK /\ DownFirst /\ Told /\ Alternate /\ Untold /\ LinkInv
  BY DEF IInv, LinkInv
<1>2. dhcp \in Client(States, Asks)
  BY <1>1 DEF TypeOK, Client, Asks
<1>3. /\ UNCHANGED <<event, useDhcp, sysQ, sysPc, nif, userQ, awake>>
      /\ wifi' \in {"lost", "joining", "joined"} /\ oneshot' \in BOOLEAN
      /\ wifi' = "joined" <=> wifi = "joined"
  BY <1>1 DEF Connect, Oneshot, ReplyOffer, ReplyAck, ReplyNak, Reply, TypeOK, link,
              sys, lwip, user
<1>4. \/ dhcp' = dhcp
      \/ \E r \in Replies : dhcp' = [dhcp EXCEPT !.inbox = {r}]
  BY DEF Connect, Oneshot, ReplyOffer, ReplyAck, ReplyNak, Reply, Replies, lwip
<1>5. /\ dhcp' \in Client(States, Asks)
      /\ dhcp'.state = dhcp.state /\ dhcp'.timer = dhcp.timer
      /\ dhcp'.deaf = dhcp.deaf /\ dhcp'.offered = dhcp.offered
  BY <1>2, <1>4 DEF Client
<1>6. TypeOK'
  BY <1>1, <1>3, <1>5 DEF TypeOK, Client, Asks
<1>7. LinkInv'
  BY <1>1, <1>3, <1>5, <1>6, LinkKept
<1>8. Untold' /\ Told' /\ Alternate' /\ DownFirst'
  BY <1>1, <1>3 DEF Untold, Told, Believes, Alternate, DownFirst, Raised
<1> QED BY <1>7, <1>8 DEF IInv, LinkInv, ToldInv

-----------------------------------------------------------------------------
(***************************************************************************)
(* The invariant and the theorems.                                         *)
(***************************************************************************)
\* wm_main.
LEMMA InitIInv == Init => IInv
<1> SUFFICES ASSUME Init PROVE IInv
  OBVIOUS
<1>1. /\ wifi = "lost" /\ event = "none" /\ oneshot = FALSE /\ useDhcp \in BOOLEAN
      /\ sysQ = <<"AUTO_MODE_RUN">> /\ sysPc = "idle"
      /\ nif = [up |-> FALSE, ip |-> NoAddr]
      /\ dhcp = [Fresh EXCEPT !.state = "none"]
      /\ userQ = << >> /\ awake = FALSE
  BY DEF Init
<1>2. sysQ \in Seq(SysMsg) /\ Len(sysQ) = 1 /\ userQ \in Seq(UserMsg) /\ Len(userQ) = 0
  BY <1>1 DEF SysMsg
<1>3. sysQ \in BoundedSeq(SysMsg, QLen) /\ userQ \in BoundedSeq(UserMsg, QLen)
  <2>1. QLen \in Nat /\ 0 <= QLen /\ 1 <= QLen
    BY NetLinkBounds
  <2>2. sysQ \in BoundedSeq(SysMsg, QLen)
    BY <1>2, <2>1, Bounded
  <2>3. userQ \in BoundedSeq(UserMsg, QLen)
    BY <1>2, <2>1, Bounded
  <2> QED BY <2>2, <2>3
<1>4. dhcp \in Client(States, Asks) /\ dhcp.state = "none"
  <2>1. Fresh \in Client(States, Asks) /\ "none" \in States
    BY NetLinkBounds DEF Fresh, Client, States, NoAddr
  <2> QED BY <1>1, <2>1 DEF Client
<1>5. nif \in [up : BOOLEAN, ip : {NoAddr, "a", "static"}]
  BY <1>1
<1>6. TypeOK
  BY <1>1, <1>3, <1>4, <1>5 DEF TypeOK, Client, Asks, SysMsg, UserMsg
<1>7. UpHasAddr /\ TriesOn /\ OneWay /\ AddressKnown /\ Untold /\ Told
  BY <1>1, <1>4
  DEF UpHasAddr, TriesOn, OneWay, AddressKnown, Untold, Told, Dhcping, Storing, Requesting
<1>8. Joins(sysQ) = {}
  BY <1>1 DEF Joins
<1>9. Alternate
  BY <1>8 DEF Alternate, Apart, Closed
<1>10. DownFirst
  BY <1>1 DEF DownFirst, Raised, Storing
<1> QED BY <1>6, <1>7, <1>9, <1>10 DEF IInv

\* Nothing moves.
LEMMA Stutter ==
    ASSUME IInv, UNCHANGED vars
    PROVE  IInv'
<1>1. UNCHANGED <<wifi, event, oneshot, useDhcp, sysQ, sysPc, nif, dhcp, userQ, awake>>
  BY DEF vars, link, sys, lwip, user
<1> QED BY <1>1 DEF IInv, TypeOK, UpHasAddr, TriesOn, OneWay, AddressKnown, Untold,
                    Told, Believes, Alternate, DownFirst, Raised

\* Every step keeps the invariant.
LEMMA NextIInv == IInv /\ [Next]_vars => IInv'
<1> SUFFICES ASSUME IInv, [Next]_vars PROVE IInv'
  OBVIOUS
<1>1. TypeOK /\ TriesOn /\ AddressKnown
  BY DEF IInv
<1>2. CASE dhcp_fine_tmr
  BY <1>1, <1>2, FineTimerEffect, LwipStep
<1>3. CASE dhcp_t1_timeout \/ dhcp_t2_timeout
  BY <1>1, <1>3, CoarseTimerEffect, LwipStep
<1>4. CASE \E r \in dhcp.inbox : dhcp_recv(r)
  BY <1>1, <1>4, RecvEffect, LwipStep
<1>5. CASE SysTask
  BY <1>5, SysTaskStep, NetUpDhcpStep, NetUpStaticStep, NetDownStep DEF SysTask
<1>6. CASE UserTask
  BY <1>6, UserTaskStep
<1>7. CASE JoinOk \/ JoinFails \/ Disconnect
  BY <1>7, WifiStep
<1>8. CASE TellUser
  BY <1>8, TellUserStep
<1>9. CASE \/ Connect \/ Oneshot \/ \E good \in BOOLEAN : ReplyOffer(good)
           \/ ReplyAck \/ ReplyNak
  BY <1>9, OutsideStep
<1>10. CASE UNCHANGED vars
  BY <1>10, Stutter
<1> QED BY <1>2, <1>3, <1>4, <1>5, <1>6, <1>7, <1>8, <1>9, <1>10 DEF Next

\* The inductive invariant holds in every state the program reaches.
LEMMA Invariance == Spec => []IInv
BY InitIInv, NextIInv, PTL DEF Spec

\* The interface is never up without an address, and the DHCP client that waits
\* for an answer has its timeout armed, whatever Wi-Fi, the server, the timers
\* of dhcp.c and the system task do to it in whatever order.
THEOREM LinkIsSound == Spec => []LinkSound
<1>1. IInv => LinkSound
  BY DEF IInv, LinkSound
<1> QED BY <1>1, Invariance, PTL

\* No wake-up is lost: with the interface up on a joined network and the system
\* task done, the last thing UserTaskProc was or will be told is NET_UP.
THEOREM UserIsTold == Spec => []UserTold
<1>1. IInv => UserTold
  <2> SUFFICES ASSUME IInv, nif.up, wifi = "joined", sysQ = << >>, sysPc = "idle"
               PROVE  Believes
    BY DEF UserTold
  <2>1. Joins(sysQ) = {}
    BY DEF Joins
  <2> QED BY <2>1 DEF IInv, Told, Storing
<1> QED BY <1>1, Invariance, PTL
=============================================================================
