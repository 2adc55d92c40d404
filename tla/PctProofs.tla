------------------------------ MODULE PctProofs ------------------------------
(***************************************************************************)
(* Proofs about Pct, for every number of timers, sockets and               *)
(* retransmissions and every set of message codes.                         *)
(***************************************************************************)
EXTENDS Pct, TLAPS, WellFoundedInduction, FiniteSetTheorems

\* A nonempty set of slots has a first element (what TIMER_FindIdleTimer finds).
LEMMA FirstSlot ==
    ASSUME NEW S, S \subseteq Slot, S # {}
    PROVE  \E s \in S : \A r \in S : s <= r
<1>1. S \subseteq Nat
  BY NTimerAssumption DEF Slot
<1>2. IsWellFoundedOn(OpToRel(<, Nat), Nat)
  BY NatLessThanWellFounded
<1>3. PICK s \in S : \A r \in S : ~(<<r, s>> \in OpToRel(<, Nat))
  BY <1>1, <1>2, WFMin
<1>4. ASSUME NEW r \in S PROVE s <= r
  <2>1. <<r, s>> \notin OpToRel(<, Nat)
    BY <1>3
  <2>2. r \in Nat /\ s \in Nat
    BY <1>1
  <2>3. ~(r < s)
    BY <2>1, <2>2 DEF OpToRel
  <2> QED BY <2>2, <2>3
<1> QED BY <1>4

-----------------------------------------------------------------------------
(***************************************************************************)
(* The timer table.                                                        *)
(***************************************************************************)
TableOK(t) ==
    /\ t \in [timer  : [Slot -> (Type \ {"REGISTER"}) \cup {"idle"}],
              handle : [Type -> Slot \cup {INVALID}]]
    /\ t.handle["REACCESS"] \in Slot
    /\ t.handle["REGISTER"] = INVALID

\* A table that a step other than PCT_ReconnectCloud may make of t.
Evolves(t, u) ==
    /\ TableOK(u)
    /\ u.handle["RECONNECT"] \in {t.handle["RECONNECT"], INVALID}

\* TIMER_FindIdleTimer returns an idle slot when there is one.
LEMMA FindIdleTimerIdle ==
    ASSUME NEW t, IdleSlots(t) # {}
    PROVE  FindIdleTimer(t) \in IdleSlots(t) /\ FindIdleTimer(t) \in Slot
<1>1. IdleSlots(t) \subseteq Slot
  BY DEF IdleSlots
<1>2. \E s \in IdleSlots(t) : \A r \in IdleSlots(t) : s <= r
  BY <1>1, FirstSlot
<1> QED BY <1>1, <1>2 DEF FindIdleTimer

\* HF_SetTimer keeps the table well-formed and every other handle.
LEMMA SetTimerOK ==
    ASSUME NEW t, TableOK(t), NEW ty \in Type \ {"REGISTER"}
    PROVE  /\ TableOK(SetTimer(t, ty))
           /\ \A u \in Type \ {ty} : SetTimer(t, ty).handle[u] = t.handle[u]
<1>1. CASE ~CanSet(t)
  BY <1>1 DEF SetTimer
<1>2. CASE CanSet(t)
  <2> DEFINE s == FindIdleTimer(t)
             u == [timer  |-> [t.timer EXCEPT ![s] = ty],
                   handle |-> [t.handle EXCEPT ![ty] = s]]
  <2>1. s \in Slot
    BY <1>2, FindIdleTimerIdle DEF CanSet
  <2>2. SetTimer(t, ty) = u
    BY <1>2 DEF SetTimer
  <2> HIDE DEF s
  <2>3. TableOK(u) /\ \A v \in Type \ {ty} : u.handle[v] = t.handle[v]
    BY <2>1 DEF TableOK, Type
  <2> QED BY <2>2, <2>3
<1> QED BY <1>1, <1>2

\* TIMER_StopTimer keeps the table well-formed and every handle.
LEMMA StopTimerOK ==
    ASSUME NEW t, TableOK(t), NEW s \in Slot
    PROVE  TableOK(StopTimer(t, s)) /\ StopTimer(t, s).handle = t.handle
BY DEF TableOK, StopTimer

\* Resetting handles other than the access timer's keeps the table well-formed.
LEMMA ForgetOK ==
    ASSUME NEW t, TableOK(t), NEW tys, tys \subseteq Type \ {"REACCESS"}
    PROVE  /\ TableOK(Forget(t, tys))
           /\ \A u \in Type : Forget(t, tys).handle[u] =
                                IF u \in tys THEN INVALID ELSE t.handle[u]
BY DEF TableOK, Forget, Type

\* Stopping every timer keeps the table well-formed and every handle.
LEMMA StopAllOK ==
    ASSUME NEW t, TableOK(t)
    PROVE  TableOK(StopAll(t)) /\ StopAll(t).handle = t.handle
BY DEF TableOK, StopAll

\* Cancelling a timer resets at most its own handle.
LEMMA CancelOK ==
    ASSUME NEW t, TableOK(t), NEW ty \in Type \ {"REACCESS"}
    PROVE  Evolves(t, Cancel(t, ty))
<1>1. CASE t.handle[ty] = INVALID
  BY <1>1 DEF Cancel, Evolves
<1>2. CASE t.handle[ty] # INVALID
  <2>1. t.handle[ty] \in Slot
    BY <1>2 DEF TableOK
  <2> DEFINE u == StopTimer(t, t.handle[ty])
  <2>2. TableOK(u) /\ u.handle = t.handle
    BY <2>1, StopTimerOK
  <2>3. Cancel(t, ty) = Forget(u, {ty})
    BY <1>2 DEF Cancel
  <2> HIDE DEF u
  <2>4. /\ TableOK(Forget(u, {ty}))
        /\ \A v \in Type : Forget(u, {ty}).handle[v] =
                             IF v \in {ty} THEN INVALID ELSE u.handle[v]
    BY <2>2, ForgetOK
  <2>5. Forget(u, {ty}).handle["RECONNECT"] \in {t.handle["RECONNECT"], INVALID}
    BY <2>2, <2>4 DEF Type
  <2> QED BY <2>3, <2>4, <2>5 DEF Evolves
<1> QED BY <1>1, <1>2

\* Restarting the heartbeat keeps the other handles.
LEMMA RestartHeartOK ==
    ASSUME NEW t, TableOK(t)
    PROVE  Evolves(t, RestartHeart(t))
<1> DEFINE u == IF t.handle["SENDHEART"] = INVALID THEN t
                ELSE StopTimer(t, t.handle["SENDHEART"])
<1>1. t.handle["SENDHEART"] \in Slot \cup {INVALID}
  BY DEF TableOK, Type
<1>2. TableOK(u) /\ u.handle = t.handle
  BY <1>1, StopTimerOK
<1>3. RestartHeart(t) = SetTimer(u, "SENDHEART")
  BY DEF RestartHeart
<1> HIDE DEF u
<1>4. /\ TableOK(SetTimer(u, "SENDHEART"))
      /\ \A v \in Type \ {"SENDHEART"} : SetTimer(u, "SENDHEART").handle[v] = u.handle[v]
  BY <1>2, SetTimerOK DEF Type
<1> QED BY <1>2, <1>3, <1>4 DEF Evolves, Type

\* The register timer, set and cancelled in one step, leaves no trace.
LEMMA RegisterOK ==
    ASSUME NEW t, TableOK(t)
    PROVE  Evolves(t, Cancel(SetTimer(t, "REGISTER"), "REGISTER"))
<1>1. t.handle["REGISTER"] = INVALID
  BY DEF TableOK
<1>2. CASE ~CanSet(t)
  BY <1>1, <1>2 DEF SetTimer, Cancel, Evolves
<1>3. CASE CanSet(t)
  <2> DEFINE s == FindIdleTimer(t)
             u == [timer  |-> [t.timer EXCEPT ![s] = "REGISTER"],
                   handle |-> [t.handle EXCEPT !["REGISTER"] = s]]
             v == StopTimer(u, s)
  <2>1. s \in Slot
    BY <1>3, FindIdleTimerIdle DEF CanSet
  <2>2. SetTimer(t, "REGISTER") = u
    BY <1>3 DEF SetTimer
  <2> HIDE DEF s
  <2>3. u.handle["REGISTER"] = s /\ s # INVALID
    BY <2>1, NTimerAssumption DEF TableOK, Type, Slot, INVALID
  <2>4. Cancel(u, "REGISTER") = Forget(v, {"REGISTER"})
    BY <2>3 DEF Cancel
  <2>5. /\ v.timer \in [Slot -> (Type \ {"REGISTER"}) \cup {"idle"}]
        /\ v.handle = [t.handle EXCEPT !["REGISTER"] = s]
        /\ v = [timer |-> v.timer, handle |-> v.handle]
    BY <2>1 DEF StopTimer, TableOK
  <2> HIDE DEF v
  <2>6. Evolves(t, Forget(v, {"REGISTER"}))
    BY <2>1, <2>5 DEF Forget, Evolves, TableOK, Type
  <2> QED BY <2>2, <2>4, <2>6
<1> QED BY <1>2, <1>3

-----------------------------------------------------------------------------
(***************************************************************************)
(* The inductive invariant.                                                *)
(***************************************************************************)
\* The session: a handler that has popped the fourth message also has a key of
\* this connection, whatever the state has become meanwhile.
SessionInv ==
    /\ SessionAuthentic
    /\ cloudPc.pc = "msg4" => "key" \in auth

\* The socket being connected is open and not u32Socket; a connection attempt
\* and a reconnection never overlap, and none has a u32Socket yet.
SocketInv ==
    /\ SocketUse
    /\ cloudPc.pc = "connecting" => cloudPc.new \in open \ {sock}
    /\ handle["RECONNECT"] # INVALID =>
          sock = 0 /\ cloudPc.pc \notin {"resolving", "connecting"}

IInv == TypeOK /\ SessionInv /\ SocketInv

PcSet == [pc : {"idle", "resolving", "connecting", "msg1", "msg2",
                "msg4", "event", "ran"},
          fd : {0} \cup Sock, new : {0} \cup Sock, reach : BOOLEAN, msg : Recvd]

\* What a step leaves of the timer table, in primed form.
TableNext ==
    /\ timer' \in [Slot -> (Type \ {"REGISTER"}) \cup {"idle"}]
    /\ handle' \in [Type -> Slot \cup {INVALID}]
    /\ handle'["REACCESS"] \in Slot
    /\ handle'["REGISTER"] = INVALID
    /\ handle'["RECONNECT"] \in {handle["RECONNECT"], INVALID}

\* Under TypeOK the current table is well-formed.
LEMMA TmOK == TypeOK => TableOK(Tm)
BY DEF TypeOK, TableOK, Tm

\* A step that installs a table that evolves from the current one.
LEMMA TimersStep ==
    ASSUME NEW u, Evolves(Tm, u), Timers(u)
    PROVE  TableNext
BY DEF Evolves, TableOK, Timers, TableNext, Tm

\* A step that leaves the table alone.
LEMMA TimersSame ==
    ASSUME TypeOK, UNCHANGED <<timer, handle>>
    PROVE  TableNext
BY DEF TypeOK, TableNext

\* Messages and marks are told apart by their kind.
LEMMA MarkTypes ==
    /\ Empty \in Rbuf /\ Unqueued \in Rbuf
    /\ Nothing \in Recvd /\ Garbled \in Recvd /\ Closed \in Recvd
    /\ \A m \in Rbuf : m.kind \in Kinds => m \in Message
    /\ \A m \in Recvd : Outdated(m) \in Recvd
    /\ \A m \in Rbuf : Outdated(m) \in Rbuf
    /\ Message \subseteq Rbuf \cap Recvd
<1>1. "empty" \notin Kinds /\ "unqueued" \notin Kinds
  BY KindsAssumption
<1>2. Empty.kind = "empty" /\ Unqueued.kind = "unqueued"
  BY DEF Empty, Unqueued, Mark
<1>3. \A m \in Rbuf : m.kind \in Kinds => m \in Message
  BY <1>1, <1>2 DEF Rbuf
<1>4. \A m \in Message : [m EXCEPT !.tag = "stale"] \in Message
  BY DEF Message
<1>5. "nothing" \notin Kinds /\ "garbled" \notin Kinds /\ "closed" \notin Kinds
  BY KindsAssumption
<1>6. Nothing.kind = "nothing" /\ Garbled.kind = "garbled" /\ Closed.kind = "closed"
  BY DEF Nothing, Garbled, Closed, Mark
<1>7. \A m \in Recvd : m.kind \in Kinds => m \in Message
  BY <1>5, <1>6 DEF Recvd
<1> QED BY <1>3, <1>4, <1>7 DEF Rbuf, Recvd, Outdated

\* Where HF_Cloudfunc goes on is well-typed.
LEMMA PcOK ==
    ASSUME NEW pc \in {"idle", "resolving", "msg1", "msg2", "msg4", "event", "ran"},
           NEW fd \in {0} \cup Sock, NEW m \in Recvd
    PROVE  Pc(pc, fd, m) \in PcSet /\ Pc(pc, fd, m).pc = pc
BY DEF Pc, PcSet

\* What HF_Cloudfunc remembers is well-typed.
LEMMA PcFields ==
    ASSUME TypeOK
    PROVE  /\ cloudPc \in PcSet
           /\ cloudPc.fd \in {0} \cup Sock
           /\ cloudPc.new \in {0} \cup Sock
           /\ cloudPc.msg \in Recvd
BY DEF TypeOK, PcSet

\* The end of PCT_Run.
LEMMA RanOK ==
    ASSUME NEW fd \in {0} \cup Sock, Ran(fd)
    PROVE  cloudPc' \in PcSet /\ cloudPc'.pc = "ran"
BY MarkTypes, PcOK DEF Ran

\* The initial states satisfy the invariant.
LEMMA InitIInv == Init => IInv
<1> SUFFICES ASSUME Init PROVE IInv
  OBVIOUS
<1>1. TypeOK
  <2>1. 0 \in Slot
    BY NTimerAssumption DEF Slot
  <2>2. Nothing \in Recvd /\ Empty \in Rbuf
    BY MarkTypes
  <2>3. cloudPc \in PcSet
    BY <2>2, PcOK DEF Init, Idle
  <2>4. 0 \in 0 .. MaxResend
    BY MaxResendAssumption
  <2> QED BY <2>1, <2>2, <2>3, <2>4 DEF Init, TypeOK, PcSet, State, Type
<1>2. SessionInv
  BY DEF Init, SessionInv, SessionAuthentic, Idle, Pc
<1>3. SocketInv
  BY DEF Init, SocketInv, SocketUse, Idle, Pc, Type
<1> QED BY <1>1, <1>2, <1>3 DEF IInv

-----------------------------------------------------------------------------
(***************************************************************************)
(* The steps.  Each lemma shows that one action keeps the invariant.       *)
(***************************************************************************)

\* A turn in DISCONNECT_CLOUD only moves the program counter.
LEMMA RunIdleStep == IInv /\ RunIdle => IInv'
<1> SUFFICES ASSUME IInv, RunIdle PROVE IInv'
  OBVIOUS
<1>1. TypeOK /\ SessionInv /\ SocketInv
  BY DEF IInv
<1>2. cloudPc' \in PcSet /\ cloudPc'.pc = "ran"
  BY <1>1, MarkTypes, PcOK DEF RunIdle, Ran, TypeOK
<1>3. TableNext
  BY <1>1, TimersSame DEF RunIdle, timers
<1>4. TypeOK'
  BY <1>1, <1>2, <1>3 DEF RunIdle, TypeOK, TableNext, PcSet, ctrl, timers, conn
<1>5. SessionInv'
  BY <1>1, <1>2 DEF RunIdle, SessionInv, SessionAuthentic, ctrl
<1>6. SocketInv'
  BY <1>1, <1>2 DEF RunIdle, SocketInv, SocketUse, timers, conn
<1> QED BY <1>4, <1>5, <1>6 DEF IInv

\* An attempt to connect begins while no reconnection is under way.
LEMMA ConnectCloudStep == IInv /\ ConnectCloud => IInv'
<1> SUFFICES ASSUME IInv, ConnectCloud PROVE IInv'
  OBVIOUS
<1>1. TypeOK /\ SessionInv /\ SocketInv
  BY DEF IInv
<1>2. cloudPc' \in PcSet /\ cloudPc'.pc = "resolving"
  BY <1>1, MarkTypes, PcOK DEF ConnectCloud, TypeOK
<1>3. TableNext
  BY <1>1, TimersSame DEF ConnectCloud, timers
<1>4. TypeOK'
  BY <1>1, <1>2, <1>3 DEF ConnectCloud, TypeOK, TableNext, PcSet, ctrl, timers, conn
<1>5. SessionInv'
  BY <1>1, <1>2 DEF ConnectCloud, SessionInv, SessionAuthentic, ctrl
<1>6. SocketInv'
  BY <1>1, <1>2 DEF ConnectCloud, SocketInv, SocketUse, timers, conn
<1> QED BY <1>4, <1>5, <1>6 DEF IInv

\* A new socket is open and is not u32Socket, which is open or none.
LEMMA CreateSocketStep == IInv /\ CreateSocket => IInv'
<1> SUFFICES ASSUME IInv, CreateSocket PROVE IInv'
  OBVIOUS
<1>1. TypeOK /\ SessionInv /\ SocketInv
  BY DEF IInv
<1>2. cloudPc \in PcSet /\ cloudPc.pc = "resolving" /\ cloudPc.fd \in {0} \cup Sock
  BY <1>1 DEF CreateSocket, TypeOK, PcSet
<1>3. TableNext
  BY <1>1, TimersSame DEF CreateSocket, timers
<1>4. CASE Ran(cloudPc.fd) /\ UNCHANGED open
  <2>1. cloudPc' \in PcSet /\ cloudPc'.pc = "ran"
    BY <1>2, <1>4, RanOK
  <2>2. TypeOK'
    BY <1>1, <2>1, <1>3, <1>4 DEF CreateSocket, TypeOK, TableNext, PcSet, ctrl, timers
  <2>3. SessionInv'
    BY <1>1, <2>1 DEF CreateSocket, SessionInv, SessionAuthentic, ctrl
  <2>4. SocketInv'
    BY <1>1, <2>1, <1>4 DEF CreateSocket, SocketInv, SocketUse, timers
  <2> QED BY <2>2, <2>3, <2>4 DEF IInv
<1>5. ASSUME NEW new \in Sock \ open,
             open' = open \cup {new},
             cloudPc' = [cloudPc EXCEPT !.pc = "connecting", !.new = new,
                                        !.reach = netUp]
      PROVE  IInv'
  <2>1. cloudPc' \in PcSet /\ cloudPc'.pc = "connecting" /\ cloudPc'.new = new
    BY <1>1, <1>2, <1>5 DEF PcSet, TypeOK
  <2>2. open' \in SUBSET Sock
    BY <1>1, <1>5 DEF TypeOK
  <2>3. TypeOK'
    BY <1>1, <2>1, <1>3, <2>2 DEF CreateSocket, TypeOK, TableNext, PcSet, ctrl, timers
  <2>4. SessionInv'
    BY <1>1, <2>1 DEF CreateSocket, SessionInv, SessionAuthentic, ctrl
  <2>5. new # 0
    BY NSockAssumption DEF Sock
  <2>6. SocketInv'
    BY <1>1, <1>2, <2>1, <2>5, <1>5 DEF CreateSocket, SocketInv, SocketUse, timers
  <2> QED BY <2>3, <2>4, <2>6 DEF IInv
<1> QED BY <1>4, <1>5 DEF CreateSocket

\* connect() succeeds: u32Socket becomes the new socket, which is open.
LEMMA ConnectOkStep == IInv /\ ConnectOk => IInv'
<1> SUFFICES ASSUME IInv, ConnectOk PROVE IInv'
  OBVIOUS
<1>1. TypeOK /\ SessionInv /\ SocketInv
  BY DEF IInv
<1>2. cloudPc \in PcSet /\ cloudPc.pc = "connecting"
  BY <1>1 DEF ConnectOk, TypeOK, PcSet
<1>3. cloudPc' \in PcSet /\ cloudPc'.pc = "ran"
  BY <1>1, PcFields, RanOK DEF ConnectOk
<1>4. TableNext
  BY <1>1, TimersSame DEF ConnectOk, timers
<1>5. rbuf' \in Rbuf /\ recvd' \in Recvd
  BY <1>1, MarkTypes DEF ConnectOk, TypeOK
<1>6. TypeOK'
  BY <1>1, <1>2, <1>3, <1>4, <1>5 DEF ConnectOk, TypeOK, TableNext, PcSet, State, timers
<1>7. SessionInv'
  BY <1>1, <1>3 DEF ConnectOk, SessionInv, SessionAuthentic
<1>8. SocketInv'
  BY <1>1, <1>2, <1>3 DEF ConnectOk, SocketInv, SocketUse, timers
<1> QED BY <1>6, <1>7, <1>8 DEF IInv

\* connect() fails: the socket that is closed is not u32Socket.
LEMMA ConnectFailStep == IInv /\ ConnectFail => IInv'
<1> SUFFICES ASSUME IInv, ConnectFail PROVE IInv'
  OBVIOUS
<1>1. TypeOK /\ SessionInv /\ SocketInv
  BY DEF IInv
<1>2. cloudPc \in PcSet /\ cloudPc.pc = "connecting"
  BY <1>1 DEF ConnectFail, TypeOK, PcSet
<1>3. cloudPc' \in PcSet /\ cloudPc'.pc = "ran"
  BY <1>1, PcFields, RanOK DEF ConnectFail
<1>4. TableNext
  BY <1>1, TimersSame DEF ConnectFail, timers
<1>5. TypeOK'
  BY <1>1, <1>3, <1>4 DEF ConnectFail, TypeOK, TableNext, PcSet, ctrl, timers
<1>6. SessionInv'
  BY <1>1, <1>3 DEF ConnectFail, SessionInv, SessionAuthentic, ctrl
<1>7. SocketInv'
  BY <1>1, <1>2, <1>3 DEF ConnectFail, SocketInv, SocketUse, timers
<1> QED BY <1>5, <1>6, <1>7 DEF IInv

\* A step that neither opens nor closes a socket nor begins to connect.
LEMMA SocketKept ==
    ASSUME SocketInv, TableNext, UNCHANGED conn,
           \/ cloudPc'.pc \notin {"resolving", "connecting"}
           \/ UNCHANGED cloudPc
    PROVE  SocketInv'
BY DEF SocketInv, SocketUse, TableNext, conn

\* Msg1 is built: the reconnection timer, if set, is cancelled.
LEMMA BuildMsg1Step == IInv /\ BuildMsg1 => IInv'
<1> SUFFICES ASSUME IInv, BuildMsg1 PROVE IInv'
  OBVIOUS
<1>1. TypeOK /\ SessionInv /\ SocketInv
  BY DEF IInv
<1>2. cloudPc' \in PcSet /\ cloudPc'.pc = "msg1"
  BY <1>1, MarkTypes, PcOK DEF BuildMsg1, TypeOK
<1>3. TableNext
  <2>1. Evolves(Tm, Cancel(Tm, "RECONNECT"))
    BY <1>1, TmOK, CancelOK DEF Type
  <2> QED BY <2>1, TimersStep DEF BuildMsg1
<1>4. TypeOK'
  BY <1>1, <1>2, <1>3 DEF BuildMsg1, TypeOK, TableNext, PcSet, ctrl, conn
<1>5. SessionInv'
  BY <1>1, <1>2 DEF BuildMsg1, SessionInv, SessionAuthentic, ctrl
<1>6. SocketInv'
  BY <1>1, <1>2, <1>3, SocketKept DEF BuildMsg1
<1> QED BY <1>4, <1>5, <1>6 DEF IInv

\* Msg1 is sent, or the connection given up.
LEMMA SendCloudAccessMsg1Step == IInv /\ SendCloudAccessMsg1 => IInv'
<1> SUFFICES ASSUME IInv, SendCloudAccessMsg1 PROVE IInv'
  OBVIOUS
<1>1. TypeOK /\ SessionInv /\ SocketInv
  BY DEF IInv
<1>2. cloudPc' \in PcSet /\ cloudPc'.pc = "ran"
  BY <1>1, PcFields, RanOK DEF SendCloudAccessMsg1
<1>3. TableNext
  <2>1. Evolves(Tm, SetTimer(Tm, "REACCESS"))
    BY <1>1, TmOK, SetTimerOK DEF Evolves, Type
  <2> QED BY <1>1, <2>1, TimersStep, TimersSame DEF SendCloudAccessMsg1
<1>4. rbuf' \in Rbuf
  BY <1>1, MarkTypes DEF SendCloudAccessMsg1, DisConnectCloud, TypeOK
<1>5. TypeOK'
  BY <1>1, <1>2, <1>3, <1>4
  DEF SendCloudAccessMsg1, DisConnectCloud, TypeOK, TableNext, PcSet, State, conn
<1>6. SessionInv'
  BY <1>1, <1>2
  DEF SendCloudAccessMsg1, DisConnectCloud, SessionInv, SessionAuthentic
<1>7. SocketInv'
  BY <1>1, <1>2, <1>3, SocketKept DEF SendCloudAccessMsg1
<1> QED BY <1>5, <1>6, <1>7 DEF IInv

\* A message is popped: by the handler of the fourth one only in WAIT_MSG4,
\* where the key is this connection's.
LEMMA PopRecvStep ==
    ASSUME IInv, NEW st, NEW pc \in {"msg2", "msg4", "event"}, PopRecv(st, pc),
           pc = "msg4" => st = "WAIT_MSG4"
    PROVE  IInv'
<1>1. TypeOK /\ SessionInv /\ SocketInv
  BY DEF IInv
<1>2. rbuf \in Recvd /\ rbuf' \in Rbuf
  BY <1>1, MarkTypes DEF PopRecv, TypeOK
<1>3. cloudPc' \in PcSet /\ cloudPc'.pc = pc
  BY <1>1, <1>2, PcOK DEF PopRecv, TypeOK
<1>4. TableNext
  BY <1>1, TimersSame DEF PopRecv, timers
<1>5. TypeOK'
  BY <1>1, <1>2, <1>3, <1>4 DEF PopRecv, TypeOK, TableNext, PcSet, ctrl, timers, conn
<1>6. SessionInv'
  BY <1>1, <1>3 DEF PopRecv, SessionInv, SessionAuthentic, ctrl
<1>7. SocketInv'
  BY <1>1, <1>3, <1>4, SocketKept DEF PopRecv
<1> QED BY <1>5, <1>6, <1>7 DEF IInv

\* The second message: the key is taken only with this connection's number.
LEMMA RecvAccessMsg2Step == IInv /\ RecvAccessMsg2 => IInv'
<1> SUFFICES ASSUME IInv, RecvAccessMsg2 PROVE IInv'
  OBVIOUS
<1>1. TypeOK /\ SessionInv /\ SocketInv
  BY DEF IInv
<1>2. cloudPc' \in PcSet /\ cloudPc'.pc = "ran"
  BY <1>1, PcFields, RanOK DEF RecvAccessMsg2
<1> DEFINE stopped == StopTimer(Tm, handle["REACCESS"])
<1>3. TableNext
  <2>1. TableOK(stopped) /\ stopped.handle = Tm.handle
    BY <1>1, TmOK, StopTimerOK DEF TypeOK
  <2>2. Evolves(Tm, stopped)
    BY <2>1 DEF Evolves
  <2>3. Evolves(Tm, SendCloudAccessMsg3(stopped))
    <3> HIDE DEF stopped
    <3> QED BY <2>1, SetTimerOK DEF Evolves, SendCloudAccessMsg3, Type
  <2> QED BY <1>1, <2>2, <2>3, TimersStep, TimersSame DEF RecvAccessMsg2
<1>4. rbuf' \in Rbuf
  BY MarkTypes DEF RecvAccessMsg2
<1>5. state' \in State /\ keyRecv' \in BOOLEAN /\ auth' \in SUBSET {"key", "peer"}
  BY <1>1 DEF RecvAccessMsg2, DisConnectCloud, TypeOK, State, ctrl
<1>6. TypeOK'
  BY <1>1, <1>2, <1>3, <1>4, <1>5
  DEF RecvAccessMsg2, TypeOK, TableNext, PcSet, conn
<1>7. SessionInv'
  BY <1>1, <1>2
  DEF RecvAccessMsg2, DisConnectCloud, RandMatches, SessionInv, SessionAuthentic, ctrl
<1>8. SocketInv'
  BY <1>1, <1>2, <1>3, SocketKept DEF RecvAccessMsg2
<1> QED BY <1>6, <1>7, <1>8 DEF IInv

\* The fourth message: the session is established only with this connection's
\* number, and the key taken before was this connection's too.
LEMMA RecvAccessMsg4Step == IInv /\ RecvAccessMsg4 => IInv'
<1> SUFFICES ASSUME IInv, RecvAccessMsg4 PROVE IInv'
  OBVIOUS
<1>1. TypeOK /\ SessionInv /\ SocketInv
  BY DEF IInv
<1>2. cloudPc' \in PcSet /\ cloudPc'.pc = "ran"
  BY <1>1, PcFields, RanOK DEF RecvAccessMsg4
<1> DEFINE stopped == StopTimer(Tm, handle["REACCESS"])
<1>3. TableNext
  <2>1. TableOK(stopped) /\ stopped.handle = Tm.handle
    BY <1>1, TmOK, StopTimerOK DEF TypeOK
  <2>2. Evolves(Tm, RestartHeart(Tm))
    BY <1>1, TmOK, RestartHeartOK
  <2>3. Evolves(Tm, RestartHeart(stopped))
    <3> HIDE DEF stopped
    <3> QED BY <2>1, RestartHeartOK DEF Evolves
  <2> QED BY <2>2, <2>3, TimersStep DEF RecvAccessMsg4
<1>4. rbuf' \in Rbuf
  BY MarkTypes DEF RecvAccessMsg4
<1>5. state' \in State /\ keyRecv' \in BOOLEAN /\ auth' \in SUBSET {"key", "peer"}
  BY <1>1 DEF RecvAccessMsg4, DisConnectCloud, TypeOK, State, ctrl
<1>6. TypeOK'
  BY <1>1, <1>2, <1>3, <1>4, <1>5
  DEF RecvAccessMsg4, TypeOK, TableNext, PcSet, conn
<1>7. SessionInv'
  BY <1>1, <1>2
  DEF RecvAccessMsg4, DisConnectCloud, RandMatches, SessionInv, SessionAuthentic,
      TypeOK, ctrl
<1>8. SocketInv'
  BY <1>1, <1>2, <1>3, SocketKept DEF RecvAccessMsg4
<1> QED BY <1>6, <1>7, <1>8 DEF IInv

\* An answer of the device cancels the retransmission.
LEMMA AnsweredOK ==
    ASSUME NEW t, TableOK(t)
    PROVE  Evolves(t, Answered(t))
BY CancelOK DEF Answered, Type

\* An event of the cloud is passed on, answered or makes the agent disconnect.
LEMMA HandleEventStep == IInv /\ HandleEvent => IInv'
<1> SUFFICES ASSUME IInv, HandleEvent PROVE IInv'
  OBVIOUS
<1>1. TypeOK /\ SessionInv /\ SocketInv
  BY DEF IInv
<1>2. cloudPc' \in PcSet /\ cloudPc'.pc = "ran"
  BY <1>1, PcFields, RanOK DEF HandleEvent
<1>3. ASSUME NEW answer \in BOOLEAN, HandleMoudleMsg(answer)
      PROVE  TableNext
  <2> DEFINE sent == SetTimer(Tm, "SENDMOUDLE")
             u == IF answer THEN Answered(sent) ELSE sent
  <2>1. TableOK(sent) /\ sent.handle["RECONNECT"] = Tm.handle["RECONNECT"]
    BY <1>1, TmOK, SetTimerOK DEF Type
  <2>2. Timers(RestartHeart(u))
    BY <1>3 DEF HandleMoudleMsg
  <2> HIDE DEF sent
  <2>3. Evolves(sent, u)
    BY <2>1, AnsweredOK DEF Evolves
  <2> HIDE DEF u
  <2>4. Evolves(u, RestartHeart(u))
    BY <2>3, RestartHeartOK DEF Evolves
  <2>5. Evolves(Tm, RestartHeart(u))
    BY <2>1, <2>3, <2>4 DEF Evolves
  <2> QED BY <2>2, <2>5, TimersStep
<1>4. TableNext
  BY <1>1, <1>3, TimersSame DEF HandleEvent, timers
<1>5. rbuf' \in Rbuf
  BY MarkTypes DEF HandleEvent
<1>6. resend' \in 0 .. MaxResend
  BY <1>1, MaxResendAssumption DEF HandleEvent, HandleMoudleMsg, TypeOK, timers
<1>7. state' \in State /\ keyRecv' \in BOOLEAN
  BY <1>1 DEF HandleEvent, DisConnectCloud, TypeOK, State
<1>8. TypeOK'
  BY <1>1, <1>2, <1>4, <1>5, <1>6, <1>7
  DEF HandleEvent, TypeOK, TableNext, PcSet, conn
<1>9. SessionInv'
  BY <1>1, <1>2 DEF HandleEvent, DisConnectCloud, SessionInv, SessionAuthentic
<1>10. SocketInv'
  BY <1>1, <1>2, <1>4, SocketKept DEF HandleEvent
<1> QED BY <1>8, <1>9, <1>10 DEF IInv

\* The end of a turn: a closed socket is not u32Socket afterwards, because
\* u32Socket is reset with it, or was when the reconnection began.
LEMMA AfterRunStep == IInv /\ AfterRun => IInv'
<1> SUFFICES ASSUME IInv, AfterRun PROVE IInv'
  OBVIOUS
<1>1. TypeOK /\ SessionInv /\ SocketInv
  BY DEF IInv
<1>2. cloudPc' \in PcSet /\ cloudPc'.pc = "idle"
  BY MarkTypes, PcOK DEF AfterRun, Idle
<1>3. open' \in SUBSET Sock
  BY <1>1 DEF AfterRun, TypeOK
<1> DEFINE u == Forget(StopAll(Tm), {"SENDMOUDLE", "SENDHEART"})
           v == SetTimer(u, "RECONNECT")
<1>4. TableOK(v)
  <2>1. TableOK(StopAll(Tm))
    BY <1>1, TmOK, StopAllOK
  <2>2. TableOK(u)
    BY <2>1, ForgetOK DEF Type
  <2> HIDE DEF u
  <2> QED BY <2>2, SetTimerOK DEF Type
<1>5. CASE state = "DISCONNECT_CLOUD" /\ handle["RECONNECT"] = INVALID
  <2>1. /\ state' = "INIT" /\ keyRecv' = FALSE /\ rbuf' = Empty /\ sock' = 0
        /\ Timers(v)
    BY <1>5 DEF AfterRun, ReconnectCloud
  <2> HIDE DEF u, v
  <2>2. TypeOK'
    BY <1>1, <1>2, <1>3, <1>4, <2>1, MarkTypes
    DEF AfterRun, TypeOK, TableOK, Timers, PcSet, State
  <2>3. SessionInv'
    BY <1>1, <1>2, <2>1 DEF AfterRun, SessionInv, SessionAuthentic
  <2>4. SocketInv'
    BY <1>2, <2>1 DEF SocketInv, SocketUse
  <2> QED BY <2>2, <2>3, <2>4 DEF IInv
<1>6. CASE ~(state = "DISCONNECT_CLOUD" /\ handle["RECONNECT"] = INVALID)
  <2>1. /\ UNCHANGED <<state, keyRecv, rbuf, timer, handle, sock>>
        /\ sock # 0 => UNCHANGED open
    BY <1>1, <1>6 DEF AfterRun, ReconnectCloud, SocketInv
  <2>2. TableNext
    BY <1>1, <2>1, TimersSame
  <2>3. TypeOK'
    BY <1>1, <1>2, <1>3, <2>1, <2>2 DEF AfterRun, TypeOK, TableNext, PcSet
  <2>4. SessionInv'
    BY <1>1, <1>2, <2>1 DEF AfterRun, SessionInv, SessionAuthentic
  <2>5. SocketInv'
    BY <1>1, <1>2, <2>1 DEF SocketInv, SocketUse
  <2> QED BY <2>3, <2>4, <2>5 DEF IInv
<1> QED BY <1>5, <1>6

\* The receive task: recv(), and the use of what it returned.
LEMMA RecvStep ==
    IInv /\ (Recv \/ RecvDataFromCloud \/ RecvClosed) => IInv'
<1> SUFFICES ASSUME IInv, Recv \/ RecvDataFromCloud \/ RecvClosed PROVE IInv'
  OBVIOUS
<1>1. TypeOK /\ SessionInv /\ SocketInv
  BY DEF IInv
<1>2. TableNext
  BY <1>1, TimersSame DEF Recv, RecvDataFromCloud, RecvClosed, timers
<1>3. SocketInv'
  BY <1>1, <1>2, SocketKept DEF Recv, RecvDataFromCloud, RecvClosed
<1>4. SessionInv'
  BY <1>1 DEF Recv, RecvDataFromCloud, RecvClosed, DisConnectCloud, SessionInv,
              SessionAuthentic, ctrl
<1>5. CASE Recv
  <2>1. recvd' \in Recvd
    BY <1>5, MarkTypes DEF Recv, Incoming
  <2>2. TypeOK'
    BY <1>1, <1>2, <1>5, <2>1 DEF Recv, TypeOK, TableNext, ctrl, timers, conn
  <2> QED BY <1>3, <1>4, <2>2 DEF IInv
<1>6. CASE RecvDataFromCloud
  <2>1. recvd' \in Recvd
    BY <1>6, MarkTypes DEF RecvDataFromCloud
  <2>2. rbuf' \in Rbuf
    <3>1. recvd \in Message \/ recvd = Garbled
      BY <1>1, <1>6 DEF RecvDataFromCloud, TypeOK, Recvd
    <3> QED BY <1>1, <1>6, <3>1, MarkTypes DEF RecvDataFromCloud, TypeOK
  <2>3. TypeOK'
    BY <1>1, <1>2, <1>6, <2>1, <2>2
    DEF RecvDataFromCloud, TypeOK, TableNext, ctrl, timers, conn
  <2> QED BY <1>3, <1>4, <2>3 DEF IInv
<1>7. CASE RecvClosed
  <2>1. recvd' \in Recvd /\ rbuf' \in Rbuf
    BY <1>7, MarkTypes DEF RecvClosed, DisConnectCloud
  <2>2. TypeOK'
    BY <1>1, <1>2, <1>7, <2>1
    DEF RecvClosed, DisConnectCloud, TypeOK, TableNext, State, timers, conn
  <2> QED BY <1>3, <1>4, <2>2 DEF IInv
<1> QED BY <1>5, <1>6, <1>7

\* Stopping the expired timer after an allowed change of the table.
LEMMA StopAfter ==
    ASSUME NEW t, NEW u, Evolves(t, u), NEW s \in Slot
    PROVE  Evolves(t, StopTimer(u, s))
<1>1. TableOK(StopTimer(u, s)) /\ StopTimer(u, s).handle = u.handle
  BY StopTimerOK DEF Evolves
<1> QED BY <1>1 DEF Evolves

\* A timeout, of whatever type.
LEMMA TimerCallbackStep ==
    ASSUME IInv, NEW s \in Slot, TimerCallback(s)
    PROVE  IInv'
<1>1. TypeOK /\ SessionInv /\ SocketInv
  BY DEF IInv
<1>2. TableOK(Tm) /\ Evolves(Tm, Tm)
  BY <1>1, TmOK DEF Evolves
<1>3. \A ty \in {"RECONNECT", "SENDMOUDLE"} : Evolves(Tm, Forget(Tm, {ty}))
  <2> SUFFICES ASSUME NEW ty \in {"RECONNECT", "SENDMOUDLE"}
               PROVE  Evolves(Tm, Forget(Tm, {ty}))
    OBVIOUS
  <2> QED BY <1>2, ForgetOK DEF Evolves, Type
<1>4. \A ty \in {"SENDMOUDLE", "SENDHEART"} : Evolves(Tm, SetTimer(Tm, ty))
  <2> SUFFICES ASSUME NEW ty \in {"SENDMOUDLE", "SENDHEART"}
               PROVE  Evolves(Tm, SetTimer(Tm, ty))
    OBVIOUS
  <2> QED BY <1>2, SetTimerOK DEF Evolves, Type
<1>5. CASE ReconnectTimeout(s)
  <2>1. TableNext
    BY <1>3, <1>5, StopAfter, TimersStep DEF ReconnectTimeout
  <2>2. TypeOK'
    BY <1>1, <1>5, <2>1 DEF ReconnectTimeout, TypeOK, TableNext, State, conn
  <2>3. SessionInv'
    BY <1>1, <1>5 DEF ReconnectTimeout, SessionInv, SessionAuthentic
  <2>4. SocketInv'
    BY <1>1, <1>5, <2>1, SocketKept DEF ReconnectTimeout
  <2> QED BY <2>2, <2>3, <2>4 DEF IInv
<1>6. CASE AccessTimeout(s)
  <2>1. TableNext
    BY <1>2, <1>6, StopAfter, TimersStep DEF AccessTimeout
  <2>2. TypeOK'
    BY <1>1, <1>6, <2>1, MarkTypes
    DEF AccessTimeout, DisConnectCloud, TypeOK, TableNext, State, conn
  <2>3. SessionInv'
    BY <1>1, <1>6 DEF AccessTimeout, DisConnectCloud, SessionInv, SessionAuthentic
  <2>4. SocketInv'
    BY <1>1, <1>6, <2>1, SocketKept DEF AccessTimeout
  <2> QED BY <2>2, <2>3, <2>4 DEF IInv
<1>7. CASE SendMoudleTimeout(s)
  <2>1. TableNext
    BY <1>3, <1>4, <1>7, StopAfter, TimersStep DEF SendMoudleTimeout
  <2>2. resend' \in 0 .. MaxResend
    BY <1>1, <1>7, MaxResendAssumption DEF SendMoudleTimeout, GiveUp, TypeOK
  <2>3. TypeOK'
    BY <1>1, <1>7, <2>1, <2>2 DEF SendMoudleTimeout, TypeOK, TableNext, ctrl, conn
  <2>4. SessionInv'
    BY <1>1, <1>7 DEF SendMoudleTimeout, SessionInv, SessionAuthentic, ctrl
  <2>5. SocketInv'
    BY <1>1, <1>7, <2>1, SocketKept DEF SendMoudleTimeout
  <2> QED BY <2>3, <2>4, <2>5 DEF IInv
<1>8. CASE HeartTimeout(s)
  <2>1. TableNext
    BY <1>4, <1>8, StopAfter, TimersStep DEF HeartTimeout
  <2>2. TypeOK'
    BY <1>1, <1>8, <2>1 DEF HeartTimeout, TypeOK, TableNext, ctrl, conn
  <2>3. SessionInv'
    BY <1>1, <1>8 DEF HeartTimeout, SessionInv, SessionAuthentic, ctrl
  <2>4. SocketInv'
    BY <1>1, <1>8, <2>1, SocketKept DEF HeartTimeout
  <2> QED BY <2>2, <2>3, <2>4 DEF IInv
<1> QED BY <1>5, <1>6, <1>7, <1>8 DEF TimerCallback

\* Wi-Fi comes up.
LEMMA WakeUpStep == IInv /\ WakeUp => IInv'
<1> SUFFICES ASSUME IInv, WakeUp PROVE IInv'
  OBVIOUS
<1>1. TypeOK /\ SessionInv /\ SocketInv
  BY DEF IInv
<1>2. TableOK(Tm)
  BY <1>1, TmOK
<1>3. TableNext
  <2>1. CASE state = "INIT"
    BY <1>2, <2>1, RegisterOK, TimersStep DEF WakeUp
  <2>2. CASE state # "INIT"
    <3>1. Timers(Cancel(Tm, "REGISTER"))
      BY <2>2 DEF WakeUp
    <3>2. Evolves(Tm, Cancel(Tm, "REGISTER"))
      BY <1>2, CancelOK DEF Type
    <3> QED BY <3>1, <3>2, TimersStep
  <2> QED BY <2>1, <2>2
<1>4. /\ cloudPc' \in PcSet
      /\ cloudPc'.pc = cloudPc.pc
      /\ cloudPc'.new = cloudPc.new
  BY <1>1, PcFields DEF WakeUp, PcSet
<1>5. TypeOK'
  BY <1>1, <1>3, <1>4 DEF WakeUp, TypeOK, TableNext, PcSet, State, conn
<1>6. SessionInv'
  BY <1>1, <1>4 DEF WakeUp, SessionInv, SessionAuthentic
<1>7. SocketInv'
  BY <1>1, <1>3, <1>4 DEF WakeUp, SocketInv, SocketUse, TableNext, conn
<1> QED BY <1>5, <1>6, <1>7 DEF IInv

\* Wi-Fi goes down: the socket that is closed is u32Socket, never the one that
\* is being connected.
LEMMA SleepStep == IInv /\ Sleep => IInv'
<1> SUFFICES ASSUME IInv, Sleep PROVE IInv'
  OBVIOUS
<1>1. TypeOK /\ SessionInv /\ SocketInv
  BY DEF IInv
<1>2. TableNext
  <2>1. TableOK(StopAll(Tm)) /\ StopAll(Tm).handle = Tm.handle
    BY <1>1, TmOK, StopAllOK
  <2> DEFINE u == StopAll(Tm)
             tys == Type \ {"REACCESS"}
  <2> HIDE DEF u
  <2>2. Evolves(u, Forget(u, tys))
    BY <2>1, ForgetOK DEF Evolves, Type, u
  <2>3. Evolves(Tm, Forget(u, tys))
    BY <2>1, <2>2 DEF Evolves, u
  <2> QED BY <2>3, TimersStep DEF Sleep, u
<1>3. open' \in SUBSET Sock
  BY <1>1 DEF Sleep, TypeOK
<1>4. TypeOK'
  BY <1>1, <1>2, <1>3, MarkTypes DEF Sleep, TypeOK, TableNext, State
<1>5. SessionInv'
  BY <1>1 DEF Sleep, SessionInv, SessionAuthentic
<1>6. cloudPc.pc = "connecting" => cloudPc.new # 0
  BY <1>1, NSockAssumption DEF SocketInv, TypeOK, Sock
<1>7. SocketInv'
  BY <1>1, <1>2, <1>6 DEF Sleep, SocketInv, SocketUse, TableNext
<1> QED BY <1>4, <1>5, <1>7 DEF IInv

\* The device answers or reports.
LEMMA DeviceMessageStep == IInv /\ DeviceMessage => IInv'
<1> SUFFICES ASSUME IInv, DeviceMessage PROVE IInv'
  OBVIOUS
<1>1. TypeOK /\ SessionInv /\ SocketInv
  BY DEF IInv
<1>2. TableNext
  BY <1>1, TmOK, AnsweredOK, TimersStep DEF DeviceMessage
<1>3. resend' \in 0 .. MaxResend
  BY <1>1, MaxResendAssumption DEF DeviceMessage, AnsweredNum, TypeOK
<1>4. TypeOK'
  BY <1>1, <1>2, <1>3 DEF DeviceMessage, TypeOK, TableNext, ctrl, conn
<1>5. SessionInv'
  BY <1>1 DEF DeviceMessage, SessionInv, SessionAuthentic, ctrl
<1>6. SocketInv'
  BY <1>1, <1>2, SocketKept DEF DeviceMessage
<1> QED BY <1>4, <1>5, <1>6 DEF IInv

-----------------------------------------------------------------------------
\* Every step keeps the invariant.
LEMMA NextIInv == IInv /\ [Next]_vars => IInv'
<1> SUFFICES ASSUME IInv, [Next]_vars PROVE IInv'
  OBVIOUS
<1>1. CASE Run
  <2>1. CASE PopMsg2 \/ PopMsg4 \/ PopEvent
    BY <2>1, PopRecvStep DEF PopMsg2, PopMsg4, PopEvent
  <2> QED BY <1>1, <2>1, RunIdleStep, ConnectCloudStep, BuildMsg1Step DEF Run
<1>2. CASE Handle
  BY <1>2, SendCloudAccessMsg1Step, RecvAccessMsg2Step, RecvAccessMsg4Step,
     HandleEventStep DEF Handle
<1>3. CASE CreateSocket \/ ConnectOk \/ ConnectFail \/ AfterRun
  BY <1>3, CreateSocketStep, ConnectOkStep, ConnectFailStep, AfterRunStep
<1>4. CASE Recv \/ RecvDataFromCloud \/ RecvClosed
  BY <1>4, RecvStep
<1>5. CASE \E s \in Slot : TimerCallback(s)
  BY <1>5, TimerCallbackStep
<1>6. CASE WakeUp \/ Sleep \/ DeviceMessage
  BY <1>6, WakeUpStep, SleepStep, DeviceMessageStep
<1>7. CASE UNCHANGED vars
  BY <1>7 DEF vars, ctrl, timers, conn, IInv, TypeOK, SessionInv, SessionAuthentic,
              SocketInv, SocketUse
<1> QED BY <1>1, <1>2, <1>3, <1>4, <1>5, <1>6, <1>7 DEF Next

\* The inductive invariant holds in every reachable state.
THEOREM Invariance == Spec => []IInv
BY InitIInv, NextIInv, PTL DEF Spec

\* The controller's variables keep their types: no handle points outside the
\* timer table, the register timer never runs, the retransmission count stays
\* within PCT_SENDMOUDLE_NUM.
THEOREM TypeCorrect == Spec => []TypeOK
<1>1. IInv => TypeOK
  BY DEF IInv
<1> QED BY <1>1, Invariance, PTL

\* The established session and its key belong to the present connection
\* (PCT_RecvAccessMsg2, PCT_RecvAccessMsg4).
THEOREM SessionIsAuthentic == Spec => []SessionAuthentic
<1>1. IInv => SessionAuthentic
  BY DEF IInv, SessionInv
<1> QED BY <1>1, Invariance, PTL

\* u32Socket never names a closed socket.
THEOREM SocketIsOpen == Spec => []SocketUse
<1>1. IInv => SocketUse
  BY DEF IInv, SocketInv
<1> QED BY <1>1, Invariance, PTL
-----------------------------------------------------------------------------
(***************************************************************************)
(* The timer table is never full.  A slot that runs for the reconnection,  *)
(* the retransmission or the heartbeat is the one its handle names.  The   *)
(* access timer's handle is never reset: when Wi-Fi comes up in the middle *)
(* of a handshake its slot goes on and the next handshake sets another     *)
(* one.  MaxStale bounds those that run when Wi-Fi comes up; a handshake   *)
(* adds one, and no further one before Wi-Fi comes up again or a           *)
(* reconnection has stopped them all.                                      *)
(***************************************************************************)
Free(t) == t.handle["RECONNECT"] = INVALID

AllIdle(t) == \A s \in Slot : t.timer[s] = "idle"

\* The slots that run for the access timer.
Accesses(t) == {s \in Slot : t.timer[s] = "REACCESS"}

\* The access timer's handle names one of them.
Access(t) == t.timer[t.handle["REACCESS"]] = "REACCESS"

Exact(t) ==
    \A ty \in {"RECONNECT", "SENDMOUDLE", "SENDHEART"} :
        \A s \in Slot : t.timer[s] = ty <=> t.handle[ty] = s

Alone(t) == Free(t) \/ \A s \in Slot : t.timer[s] \in {"RECONNECT", "idle"}

Bounded(t) == Cardinality(Accesses(t)) <= MaxStale + 1

TableSound(t) == Exact(t) /\ Alone(t) /\ Bounded(t)

\* One access timer may be set on top of such a table.
Few(t) == Cardinality(Accesses(t)) <= MaxStale

\* What the table t is while the state is st, Wi-Fi up or not, and HF_Cloudfunc
\* at pc: a handler that pops a message of a handshake finds the access timer
\* running, or nothing if Wi-Fi went down behind its back.
Timed(t, st, up, pc) ==
    /\ TableSound(t)
    /\ st \in {"WAIT_ACCESSRSP", "WAIT_MSG4"} => Access(t)
    /\ st = "CONNECT_CLOUD" => t.handle["SENDHEART"] # INVALID
    /\ st = "INIT" /\ up => ~Free(t)
    /\ \/ Free(t)
       \/ pc \in {"idle", "ran"} /\ st \in {"INIT", "ACCESS_NET", "DISCONNECT_CLOUD"}
    /\ pc \in {"msg2", "msg4"} => Access(t) \/ AllIdle(t)
    /\ pc = "event" => t.handle["SENDMOUDLE"] = INVALID
    /\ \/ st \in {"ACCESS_NET", "WAIT_ACCESS"}
       \/ pc \in {"resolving", "connecting", "msg1"}
       => Few(t)

TimerInv == Timed(Tm, state, netUp, cloudPc.pc)

\* The slots and the OS timers suffice: MaxStale + 1 access timers, the
\* retransmission, the heartbeat, and one to set before an expired one is
\* stopped.
Enough == NTimer >= MaxStale + 4 /\ OsTimers >= MaxStale + 4

\* A step that touches no access timer: what it keeps of the table.
Like(t, u) ==
    /\ TableOK(u)
    /\ TableSound(u)
    /\ u.handle["RECONNECT"] = t.handle["RECONNECT"]
    /\ Accesses(u) = Accesses(t)
    /\ Access(u) <=> Access(t)

\* Only the handle of the type ty changes.
SameBut(t, u, ty) == \A x \in Type \ {ty} : u.handle[x] = t.handle[x]

\* u is t with the slot n running for the type ty, and no other slot.
Placed(t, u, ty, n) ==
    /\ TableOK(u)
    /\ u.handle = [t.handle EXCEPT ![ty] = n]
    /\ \A s \in Slot : u.timer[s] = IF s = n THEN ty
                                     ELSE IF t.timer[s] = ty THEN "idle"
                                     ELSE t.timer[s]

\* u is t without the retransmission.
Without(t, u) ==
    /\ TableOK(u)
    /\ u.handle = [t.handle EXCEPT !["SENDMOUDLE"] = INVALID]
    /\ \A s \in Slot : u.timer[s] = IF t.timer[s] = "SENDMOUDLE" THEN "idle"
                                     ELSE t.timer[s]

\* The slots are finite in number, and so is every set of them.
LEMMA SlotFinite ==
    /\ IsFiniteSet(Slot) /\ Cardinality(Slot) = NTimer
    /\ \A S \in SUBSET Slot : IsFiniteSet(S) /\ Cardinality(S) \in Nat
<1>1. NTimer \in Nat /\ NTimer - 1 \in Int /\ 0 \in Int
  BY NTimerAssumption
<1>2. /\ IsFiniteSet(0 .. NTimer - 1)
      /\ Cardinality(0 .. NTimer - 1) =
            (IF 0 > NTimer - 1 THEN 0 ELSE (NTimer - 1) - 0 + 1)
  BY <1>1, FS_Interval
<1>3. IsFiniteSet(Slot) /\ Cardinality(Slot) = NTimer
  BY <1>1, <1>2, NTimerAssumption DEF Slot
<1>4. \A S \in SUBSET Slot : IsFiniteSet(S) /\ Cardinality(S) \in Nat
  BY <1>3, FS_Subset, FS_CardinalityType
<1> QED BY <1>3, <1>4

\* Fewer slots that run for the access timer are not more.
LEMMA FewerAccesses ==
    ASSUME NEW t, NEW u, Accesses(u) \subseteq Accesses(t)
    PROVE  (Few(t) => Few(u)) /\ (Bounded(t) => Bounded(u))
<1>1. IsFiniteSet(Accesses(t)) /\ Cardinality(Accesses(t)) \in Nat
  BY SlotFinite DEF Accesses
<1>2. Cardinality(Accesses(u)) <= Cardinality(Accesses(t)) /\ Cardinality(Accesses(u)) \in Nat
  BY <1>1, FS_Subset, FS_CardinalityType
<1> QED BY <1>1, <1>2, MaxStaleAssumption DEF Few, Bounded

\* No slot runs for the access timer.
LEMMA NoAccess ==
    ASSUME NEW t, \A s \in Slot : t.timer[s] # "REACCESS"
    PROVE  Few(t) /\ Bounded(t)
<1>1. Accesses(t) = {}
  BY DEF Accesses
<1> QED BY <1>1, FS_EmptySet, MaxStaleAssumption DEF Few, Bounded

\* A sound table has an idle slot, and the agent an OS timer left.
LEMMA RoomLeft ==
    ASSUME Enough, NEW t, TableOK(t), TableSound(t)
    PROVE  CanSet(t)
<1> DEFINE A == Accesses(t)
           m == t.handle["SENDMOUDLE"]
           e == t.handle["SENDHEART"]
           r == t.handle["RECONNECT"]
           B == Slot \ IdleSlots(t)
<1>1. /\ IsFiniteSet(A) /\ Cardinality(A) \in Nat
      /\ IsFiniteSet(B) /\ Cardinality(B) \in Nat
  BY SlotFinite DEF Accesses
<1>2. /\ IsFiniteSet(A \cup {m}) /\ IsFiniteSet((A \cup {m}) \cup {e})
      /\ Cardinality(A \cup {m}) <= Cardinality(A) + 1
      /\ Cardinality((A \cup {m}) \cup {e}) <= Cardinality(A) + 2
      /\ Cardinality((A \cup {m}) \cup {e}) \in Nat
  <2>1. /\ IsFiniteSet(A \cup {m})
        /\ Cardinality(A \cup {m}) \in {Cardinality(A), Cardinality(A) + 1}
    BY <1>1, FS_AddElement
  <2>2. /\ IsFiniteSet((A \cup {m}) \cup {e})
        /\ Cardinality((A \cup {m}) \cup {e}) \in {Cardinality(A \cup {m}),
                                                  Cardinality(A \cup {m}) + 1}
    BY <2>1, FS_AddElement
  <2> QED BY <1>1, <2>1, <2>2
<1>3. Cardinality(B) <= MaxStale + 3
  <2>1. CASE ~Free(t)
    <3>1. B \subseteq {r}
      BY <2>1 DEF TableSound, Alone, Exact, IdleSlots
    <3>2. IsFiniteSet({r}) /\ Cardinality({r}) = 1
      BY FS_Singleton
    <3>3. Cardinality(B) <= Cardinality({r})
      BY <3>1, <3>2, FS_Subset
    <3> QED BY <1>1, <3>2, <3>3, MaxStaleAssumption
  <2>2. CASE Free(t)
    <3>1. \A s \in Slot : t.timer[s] # "RECONNECT"
      BY <2>2, NTimerAssumption DEF Free, TableSound, Exact, Slot, INVALID
    <3>2. \A s \in Slot : t.timer[s] \in {"REACCESS", "SENDMOUDLE", "SENDHEART", "idle"}
      BY <3>1 DEF TableOK, Type
    <3>3. \A s \in Slot : /\ t.timer[s] = "SENDMOUDLE" => s = m
                          /\ t.timer[s] = "SENDHEART" => s = e
      BY DEF TableSound, Exact
    <3>4. B \subseteq (A \cup {m}) \cup {e}
      BY <3>2, <3>3 DEF IdleSlots, Accesses
    <3>5. Cardinality(B) <= Cardinality((A \cup {m}) \cup {e})
      BY <1>2, <3>4, FS_Subset
    <3>6. Cardinality(A) <= MaxStale + 1
      BY DEF TableSound, Bounded
    <3> HIDE DEF A, B, m, e
    <3> QED BY <1>1, <1>2, <3>5, <3>6, MaxStaleAssumption
  <2> QED BY <2>1, <2>2
<1>4. IdleSlots(t) # {}
  <2>1. IdleSlots(t) = {} => B = Slot
    BY DEF IdleSlots
  <2> HIDE DEF B
  <2> QED BY <1>1, <1>3, <2>1, SlotFinite, NTimerAssumption, MaxStaleAssumption DEF Enough
<1>5. Cardinality(B) < OsTimers
  <2> HIDE DEF B
  <2> QED BY <1>1, <1>3, MaxStaleAssumption, OsTimersAssumption DEF Enough
<1> QED BY <1>4, <1>5 DEF CanSet

\* HF_SetTimer on a table that has an idle slot.
LEMMA SetTimerSlot ==
    ASSUME NEW t, TableOK(t), CanSet(t), NEW ty \in Type
    PROVE  \E n \in Slot :
              /\ t.timer[n] = "idle"
              /\ SetTimer(t, ty) = [timer  |-> [t.timer EXCEPT ![n] = ty],
                                    handle |-> [t.handle EXCEPT ![ty] = n]]
<1>1. FindIdleTimer(t) \in IdleSlots(t) /\ FindIdleTimer(t) \in Slot
  BY FindIdleTimerIdle DEF CanSet
<1> QED BY <1>1 DEF SetTimer, IdleSlots

\* Setting the access timer on a table with few of them.
LEMMA AccessSet ==
    ASSUME NEW t, TableOK(t), TableSound(t), CanSet(t), Free(t), Few(t),
           NEW u, u = SetTimer(t, "REACCESS")
    PROVE  TableOK(u) /\ TableSound(u) /\ Access(u) /\ Free(u)
<1>1. PICK n \in Slot :
          /\ t.timer[n] = "idle"
          /\ u = [timer  |-> [t.timer EXCEPT ![n] = "REACCESS"],
                  handle |-> [t.handle EXCEPT !["REACCESS"] = n]]
  BY SetTimerSlot DEF Type
<1>2. /\ u.handle["REACCESS"] = n
      /\ \A ty \in Type \ {"REACCESS"} : u.handle[ty] = t.handle[ty]
      /\ \A s \in Slot : u.timer[s] = IF s = n THEN "REACCESS" ELSE t.timer[s]
  BY <1>1 DEF TableOK, Type
<1>3. TableOK(u)
  BY <1>1 DEF TableOK, Type
<1>4. Access(u) /\ Free(u)
  BY <1>2 DEF Access, Free, Type
<1>5. Exact(u)
  BY <1>1, <1>2 DEF TableSound, Exact, Type
<1>6. Bounded(u)
  <2>1. Accesses(u) = Accesses(t) \cup {n}
    BY <1>2 DEF Accesses
  <2>2. IsFiniteSet(Accesses(t)) /\ Cardinality(Accesses(t)) \in Nat
    BY SlotFinite DEF Accesses
  <2>3. Cardinality(Accesses(u)) \in {Cardinality(Accesses(t)), Cardinality(Accesses(t)) + 1}
    BY <2>1, <2>2, FS_AddElement
  <2> QED BY <2>2, <2>3, MaxStaleAssumption DEF Few, Bounded
<1> QED BY <1>3, <1>4, <1>5, <1>6 DEF TableSound, Alone

\* Stopping a slot that runs for the access timer or not at all.
LEMMA AccessStopped ==
    ASSUME NEW t, TableOK(t), TableSound(t),
           NEW s \in Slot, t.timer[s] \in {"REACCESS", "idle"},
           NEW u, u = StopTimer(t, s)
    PROVE  /\ TableOK(u) /\ TableSound(u) /\ u.handle = t.handle
           /\ Few(t) => Few(u)
           /\ t.timer[s] = "REACCESS" \/ AllIdle(t) => Few(u)
<1>1. /\ u.handle = t.handle /\ TableOK(u)
      /\ \A r \in Slot : u.timer[r] = IF r = s THEN "idle" ELSE t.timer[r]
  BY DEF StopTimer, TableOK
<1>2. Exact(u)
  BY <1>1 DEF TableSound, Exact
<1>3. Alone(u)
  BY <1>1 DEF TableSound, Alone, Free
<1>4. (Few(t) => Few(u)) /\ Bounded(u)
  <2>1. Accesses(u) \subseteq Accesses(t)
    BY <1>1 DEF Accesses
  <2> QED BY <2>1, FewerAccesses DEF TableSound
<1>5. t.timer[s] = "REACCESS" => Few(u)
  <2> SUFFICES ASSUME t.timer[s] = "REACCESS" PROVE Few(u)
    OBVIOUS
  <2>1. Accesses(u) = Accesses(t) \ {s} /\ s \in Accesses(t)
    BY <1>1 DEF Accesses
  <2>2. IsFiniteSet(Accesses(t)) /\ Cardinality(Accesses(t)) \in Nat
    BY SlotFinite DEF Accesses
  <2>3. Cardinality(Accesses(u)) = Cardinality(Accesses(t)) - 1
    BY <2>1, <2>2, FS_RemoveElement
  <2> QED BY <2>2, <2>3, MaxStaleAssumption DEF TableSound, Few, Bounded
<1>6. AllIdle(t) => Few(u)
  BY <1>1, NoAccess DEF AllIdle
<1> QED BY <1>1, <1>2, <1>3, <1>4, <1>5, <1>6 DEF TableSound

\* The retransmission or the heartbeat gets a slot, its former one if it had
\* one is idle.
LEMMA Moved ==
    ASSUME NEW t, TableOK(t), TableSound(t), Free(t),
           NEW ty \in {"SENDMOUDLE", "SENDHEART"},
           NEW n \in Slot, t.timer[n] \in {"idle", ty},
           NEW u, Placed(t, u, ty, n)
    PROVE  /\ Like(t, u)
           /\ u.handle[ty] # INVALID
           /\ SameBut(t, u, ty)
<1>0. \A s \in Slot : u.timer[s] = IF s = n THEN ty
                                   ELSE IF t.timer[s] = ty THEN "idle"
                                   ELSE t.timer[s]
  BY DEF Placed
<1>1. /\ u.handle[ty] = n /\ n # INVALID
      /\ \A x \in Type \ {ty} : u.handle[x] = t.handle[x]
  BY NTimerAssumption DEF Placed, TableOK, Type, Slot, INVALID
<1>2. Exact(u)
  <2> SUFFICES ASSUME NEW x \in {"RECONNECT", "SENDMOUDLE", "SENDHEART"}, NEW s \in Slot
               PROVE  u.timer[s] = x <=> u.handle[x] = s
    BY DEF Exact
  <2>1. t.timer[s] = x <=> t.handle[x] = s
    BY DEF TableSound, Exact
  <2> QED BY <1>0, <1>1, <2>1 DEF Type
<1>3. u.handle["RECONNECT"] = t.handle["RECONNECT"] /\ u.handle["REACCESS"] = t.handle["REACCESS"]
  BY <1>1 DEF Type
<1>4. Accesses(u) = Accesses(t)
  BY <1>0 DEF Accesses
<1>5. Access(u) <=> Access(t)
  BY <1>0, <1>3 DEF Access, TableOK
<1>6. Bounded(u)
  BY <1>4 DEF TableSound, Bounded
<1>7. Alone(u)
  BY <1>3 DEF Alone, Free
<1> QED BY <1>1, <1>2, <1>3, <1>4, <1>5, <1>6, <1>7
   DEF Like, TableSound, SameBut, Placed

\* PCT_SendMoudleTimeout and PCT_SendHeartMsg set the timer again before its
\* expired slot is stopped.
LEMMA Retimed ==
    ASSUME NEW t, TableOK(t), TableSound(t), CanSet(t), Free(t),
           NEW ty \in {"SENDMOUDLE", "SENDHEART"},
           NEW s \in Slot, t.timer[s] = ty,
           NEW u, u = StopTimer(SetTimer(t, ty), s)
    PROVE  /\ Like(t, u)
           /\ u.handle[ty] # INVALID
           /\ SameBut(t, u, ty)
<1>1. PICK n \in Slot :
          /\ t.timer[n] = "idle"
          /\ SetTimer(t, ty) = [timer  |-> [t.timer EXCEPT ![n] = ty],
                                handle |-> [t.handle EXCEPT ![ty] = n]]
  BY SetTimerSlot DEF Type
<1>2. TableOK(SetTimer(t, ty))
  BY SetTimerOK DEF Type
<1>3. TableOK(u)
  BY <1>2, StopTimerOK
<1>4. u.handle = [t.handle EXCEPT ![ty] = n] /\ n # s
  BY <1>1 DEF StopTimer
<1>5. \A r \in Slot : t.timer[r] = ty <=> r = s
  BY DEF TableSound, Exact
<1>6. u.timer = [[t.timer EXCEPT ![n] = ty] EXCEPT ![s] = "idle"]
  BY <1>1 DEF StopTimer
<1>7. \A r \in Slot : u.timer[r] = IF r = n THEN ty
                                   ELSE IF t.timer[r] = ty THEN "idle" ELSE t.timer[r]
  BY <1>4, <1>5, <1>6 DEF TableOK
<1>8. t.handle[ty] = s /\ s # INVALID
  BY NTimerAssumption DEF TableSound, Exact, Slot, INVALID
<1>9. Placed(t, u, ty, n)
  BY <1>3, <1>4, <1>7 DEF Placed
<1> QED BY <1>1, <1>8, <1>9, Moved

\* PCT_HandleMoudleMsg sets the retransmission timer, which is not set.
LEMMA MoudleSet ==
    ASSUME NEW t, TableOK(t), TableSound(t), CanSet(t), Free(t),
           t.handle["SENDMOUDLE"] = INVALID,
           NEW u, u = SetTimer(t, "SENDMOUDLE")
    PROVE  /\ Like(t, u)
           /\ SameBut(t, u, "SENDMOUDLE")
<1>1. PICK n \in Slot :
          /\ t.timer[n] = "idle"
          /\ u = [timer  |-> [t.timer EXCEPT ![n] = "SENDMOUDLE"],
                  handle |-> [t.handle EXCEPT !["SENDMOUDLE"] = n]]
  BY SetTimerSlot DEF Type
<1>2. TableOK(u)
  BY SetTimerOK DEF Type
<1>3. \A r \in Slot : t.timer[r] # "SENDMOUDLE"
  BY NTimerAssumption DEF TableSound, Exact, Slot, INVALID
<1>4. \A r \in Slot : u.timer[r] = IF r = n THEN "SENDMOUDLE"
                                   ELSE IF t.timer[r] = "SENDMOUDLE" THEN "idle"
                                   ELSE t.timer[r]
  BY <1>1, <1>3 DEF TableOK
<1>5. u.handle = [t.handle EXCEPT !["SENDMOUDLE"] = n]
  BY <1>1
<1>6. Placed(t, u, "SENDMOUDLE", n)
  BY <1>2, <1>4, <1>5 DEF Placed
<1> QED BY <1>1, <1>6, Moved

\* The heartbeat is restarted, whether it was set or not.
LEMMA HeartSet ==
    ASSUME NEW t, TableOK(t), TableSound(t), CanSet(t), Free(t),
           NEW u, u = RestartHeart(t)
    PROVE  /\ Like(t, u)
           /\ u.handle["SENDHEART"] # INVALID
           /\ SameBut(t, u, "SENDHEART")
<1> DEFINE e == t.handle["SENDHEART"]
<1>1. PICK v : v = IF e = INVALID THEN t ELSE StopTimer(t, e)
  OBVIOUS
<1>2. e \in Slot \cup {INVALID}
  BY DEF TableOK, Type
<1>3. TableOK(v) /\ v.handle = t.handle
  BY <1>1, <1>2, StopTimerOK
<1>4. \A r \in Slot : t.timer[r] = "SENDHEART" <=> r = e
  BY DEF TableSound, Exact
<1>5. \A r \in Slot : v.timer[r] = IF t.timer[r] = "SENDHEART" THEN "idle"
                                   ELSE t.timer[r]
  BY <1>1, <1>2, <1>4, NTimerAssumption DEF StopTimer, TableOK, Slot, INVALID
<1>6. CanSet(v)
  <2>1. /\ IdleSlots(t) \subseteq IdleSlots(v)
        /\ Slot \ IdleSlots(v) \subseteq Slot \ IdleSlots(t)
    BY <1>5 DEF IdleSlots
  <2>2. /\ IsFiniteSet(Slot \ IdleSlots(t))
        /\ Cardinality(Slot \ IdleSlots(t)) \in Nat
        /\ Cardinality(Slot \ IdleSlots(v)) \in Nat
    BY SlotFinite
  <2>3. Cardinality(Slot \ IdleSlots(v)) <= Cardinality(Slot \ IdleSlots(t))
    BY <2>1, <2>2, FS_Subset
  <2> QED BY <2>1, <2>2, <2>3, OsTimersAssumption DEF CanSet
<1>7. PICK n \in Slot :
          /\ v.timer[n] = "idle"
          /\ SetTimer(v, "SENDHEART") = [timer  |-> [v.timer EXCEPT ![n] = "SENDHEART"],
                                         handle |-> [v.handle EXCEPT !["SENDHEART"] = n]]
  BY <1>3, <1>6, SetTimerSlot DEF Type
<1>8. u = SetTimer(v, "SENDHEART")
  BY <1>1 DEF RestartHeart
<1>9. TableOK(u)
  BY <1>3, <1>8, SetTimerOK DEF Type
<1>10. t.timer[n] \in {"idle", "SENDHEART"}
  BY <1>5, <1>7
<1>11. u.handle = [t.handle EXCEPT !["SENDHEART"] = n]
  BY <1>3, <1>7, <1>8
<1>12. \A r \in Slot : u.timer[r] = IF r = n THEN "SENDHEART"
                                    ELSE IF t.timer[r] = "SENDHEART" THEN "idle"
                                    ELSE t.timer[r]
  BY <1>3, <1>5, <1>7, <1>8 DEF TableOK
<1>13. Placed(t, u, "SENDHEART", n)
  BY <1>9, <1>11, <1>12 DEF Placed
<1> QED BY <1>10, <1>13, Moved

\* The retransmission is stopped, and its handle reset.
LEMMA Dropped ==
    ASSUME NEW t, TableOK(t), TableSound(t),
           NEW u, Without(t, u)
    PROVE  /\ Like(t, u)
           /\ u.handle["SENDMOUDLE"] = INVALID
           /\ SameBut(t, u, "SENDMOUDLE")
<1>0. \A s \in Slot : u.timer[s] = IF t.timer[s] = "SENDMOUDLE" THEN "idle"
                                   ELSE t.timer[s]
  BY DEF Without
<1>1. /\ u.handle["SENDMOUDLE"] = INVALID
      /\ \A x \in Type \ {"SENDMOUDLE"} : u.handle[x] = t.handle[x]
  BY DEF Without, TableOK, Type
<1>2. Exact(u)
  BY <1>0, <1>1, NTimerAssumption DEF TableSound, Exact, Type, Slot, INVALID
<1>3. u.handle["RECONNECT"] = t.handle["RECONNECT"] /\ u.handle["REACCESS"] = t.handle["REACCESS"]
  BY <1>1 DEF Type
<1>4. Accesses(u) = Accesses(t)
  BY <1>0 DEF Accesses
<1>5. Access(u) <=> Access(t)
  BY <1>0, <1>3 DEF Access, TableOK
<1>6. Bounded(u)
  BY <1>4 DEF TableSound, Bounded
<1>7. Alone(u)
  BY <1>0, <1>3 DEF TableSound, Alone, Free
<1> QED BY <1>1, <1>2, <1>3, <1>4, <1>5, <1>6, <1>7
   DEF Like, TableSound, SameBut, Without

\* A message of the device answers the event.
LEMMA AnsweredTable ==
    ASSUME NEW t, TableOK(t), TableSound(t), t.handle["SENDMOUDLE"] # INVALID,
           NEW u, u = Answered(t)
    PROVE  /\ Like(t, u)
           /\ u.handle["SENDMOUDLE"] = INVALID
           /\ SameBut(t, u, "SENDMOUDLE")
<1>1. PICK m \in Slot : m = t.handle["SENDMOUDLE"]
  BY DEF TableOK, Type
<1>2. PICK v : v = StopTimer(t, m)
  OBVIOUS
<1>3. TableOK(v) /\ v.handle = t.handle
  BY <1>2, StopTimerOK
<1>4. u = Forget(v, {"SENDMOUDLE"})
  BY <1>1, <1>2 DEF Answered, Cancel
<1>5. TableOK(u)
  BY <1>3, <1>4, ForgetOK DEF Type
<1>6. u.handle = [t.handle EXCEPT !["SENDMOUDLE"] = INVALID]
  BY <1>3, <1>4 DEF Forget, TableOK
<1>7. \A s \in Slot : t.timer[s] = "SENDMOUDLE" <=> s = m
  BY <1>1 DEF TableSound, Exact
<1>8. \A s \in Slot : u.timer[s] = IF t.timer[s] = "SENDMOUDLE" THEN "idle"
                                   ELSE t.timer[s]
  BY <1>2, <1>4, <1>7 DEF Forget, StopTimer, TableOK
<1>9. Without(t, u)
  BY <1>5, <1>6, <1>8 DEF Without
<1> QED BY <1>9, Dropped

\* PCT_SendMoudleTimeout gives up.
LEMMA GivenUp ==
    ASSUME NEW t, TableOK(t), TableSound(t),
           NEW s \in Slot, t.timer[s] = "SENDMOUDLE",
           NEW u, u = StopTimer(Forget(t, {"SENDMOUDLE"}), s)
    PROVE  /\ Like(t, u)
           /\ SameBut(t, u, "SENDMOUDLE")
<1>1. TableOK(Forget(t, {"SENDMOUDLE"}))
  BY ForgetOK DEF Type
<1>2. TableOK(u)
  BY <1>1, StopTimerOK
<1>3. u.handle = [t.handle EXCEPT !["SENDMOUDLE"] = INVALID]
  BY DEF Forget, StopTimer, TableOK
<1>4. \A r \in Slot : t.timer[r] = "SENDMOUDLE" <=> r = s
  BY DEF TableSound, Exact
<1>5. \A r \in Slot : u.timer[r] = IF t.timer[r] = "SENDMOUDLE" THEN "idle"
                                   ELSE t.timer[r]
  BY <1>4 DEF Forget, StopTimer, TableOK
<1>6. Without(t, u)
  BY <1>2, <1>3, <1>5 DEF Without
<1> QED BY <1>6, Dropped

\* A table without a running timer and with no handle but the access timer's.
Cleared(u) ==
    /\ TableOK(u) /\ AllIdle(u) /\ Free(u)
    /\ u.handle["SENDMOUDLE"] = INVALID /\ u.handle["SENDHEART"] = INVALID

LEMMA ClearedSound ==
    ASSUME NEW u, Cleared(u)
    PROVE  TableSound(u) /\ Few(u)
<1>1. INVALID \notin Slot
  BY NTimerAssumption DEF Slot, INVALID
<1>2. Exact(u)
  BY <1>1 DEF Cleared, AllIdle, Free, Exact
<1>3. Few(u) /\ Bounded(u)
  BY NoAccess DEF Cleared, AllIdle
<1>4. Alone(u)
  BY DEF Cleared, Alone
<1> QED BY <1>2, <1>3, <1>4 DEF TableSound

\* PCT_Sleep.
LEMMA SleptTable ==
    ASSUME NEW t, TableOK(t), NEW u, u = Forget(StopAll(t), Type \ {"REACCESS"})
    PROVE  Cleared(u)
<1>1. PICK v : v = StopAll(t)
  OBVIOUS
<1>2. TableOK(v) /\ AllIdle(v)
  BY <1>1, StopAllOK DEF StopAll, AllIdle
<1>3. /\ TableOK(u)
      /\ \A x \in Type : u.handle[x] = IF x \in Type \ {"REACCESS"} THEN INVALID
                                       ELSE v.handle[x]
  BY <1>1, <1>2, ForgetOK
<1>4. AllIdle(u)
  BY <1>1, <1>2 DEF Forget, AllIdle, TableOK
<1> QED BY <1>3, <1>4 DEF Cleared, Free, Type

\* PCT_ReconnectCloud.
LEMMA ReconnectTable ==
    ASSUME NEW t, TableOK(t), Free(t),
           NEW u, u = SetTimer(Forget(StopAll(t), {"SENDMOUDLE", "SENDHEART"}), "RECONNECT")
    PROVE  TableOK(u) /\ TableSound(u) /\ Few(u) /\ ~Free(u)
<1>1. PICK v : v = StopAll(t)
  OBVIOUS
<1>2. TableOK(v) /\ AllIdle(v) /\ v.handle = t.handle
  BY <1>1, StopAllOK DEF StopAll, AllIdle
<1>3. PICK w : w = Forget(v, {"SENDMOUDLE", "SENDHEART"})
  OBVIOUS
<1>4. /\ TableOK(w)
      /\ \A x \in Type : w.handle[x] = IF x \in {"SENDMOUDLE", "SENDHEART"} THEN INVALID
                                       ELSE v.handle[x]
  BY <1>2, <1>3, ForgetOK DEF Type
<1>5. AllIdle(w)
  BY <1>2, <1>3 DEF Forget, AllIdle, TableOK
<1>6. 0 \in Slot /\ INVALID \notin Slot
  BY NTimerAssumption DEF Slot, INVALID
<1>7. CanSet(w)
  <2>1. IdleSlots(w) = Slot /\ Slot \ IdleSlots(w) = {}
    BY <1>5 DEF AllIdle, IdleSlots
  <2>2. Cardinality(Slot \ IdleSlots(w)) = 0
    BY <2>1, FS_EmptySet
  <2> QED BY <1>6, <2>1, <2>2, OsTimersAssumption DEF CanSet
<1>8. PICK n \in Slot :
          u = [timer  |-> [w.timer EXCEPT ![n] = "RECONNECT"],
               handle |-> [w.handle EXCEPT !["RECONNECT"] = n]]
  BY <1>1, <1>3, <1>4, <1>7, SetTimerSlot DEF Type
<1>9. TableOK(u)
  BY <1>4, <1>8 DEF TableOK, Type
<1>10. \A s \in Slot : u.timer[s] = IF s = n THEN "RECONNECT" ELSE "idle"
  BY <1>4, <1>5, <1>8 DEF TableOK, AllIdle
<1>11. /\ u.handle["RECONNECT"] = n
       /\ u.handle["SENDMOUDLE"] = INVALID /\ u.handle["SENDHEART"] = INVALID
  BY <1>4, <1>8 DEF TableOK, Type
<1>12. ~Free(u)
  BY <1>6, <1>11 DEF Free
<1>13. Exact(u) /\ Alone(u)
  BY <1>6, <1>10, <1>11 DEF Exact, Alone
<1>14. Few(u) /\ Bounded(u)
  BY <1>10, NoAccess
<1> QED BY <1>9, <1>12, <1>13, <1>14 DEF TableSound

\* The reconnection's timeout: it ran alone.
LEMMA ReconnectedTable ==
    ASSUME NEW t, TableOK(t), TableSound(t), NEW s \in Slot, t.timer[s] = "RECONNECT",
           NEW u, u = StopTimer(Forget(t, {"RECONNECT"}), s)
    PROVE  Cleared(u)
<1>1. INVALID \notin Slot
  BY NTimerAssumption DEF Slot, INVALID
<1>2. t.handle["RECONNECT"] = s
  BY DEF TableSound, Exact
<1>3. \A r \in Slot : t.timer[r] \in {"RECONNECT", "idle"}
  BY <1>1, <1>2 DEF TableSound, Alone, Free
<1>4. \A r \in Slot : t.timer[r] = "RECONNECT" => r = s
  BY <1>2 DEF TableSound, Exact
<1>5. \A x \in {"SENDMOUDLE", "SENDHEART"} : t.handle[x] = INVALID
  <2> SUFFICES ASSUME NEW x \in {"SENDMOUDLE", "SENDHEART"}, t.handle[x] # INVALID
               PROVE  FALSE
    OBVIOUS
  <2>1. t.handle[x] \in Slot
    BY DEF TableOK, Type
  <2>2. t.timer[t.handle[x]] = x
    BY <2>1 DEF TableSound, Exact
  <2> QED BY <1>3, <2>1, <2>2
<1>6. PICK v : v = Forget(t, {"RECONNECT"})
  OBVIOUS
<1>7. /\ TableOK(v) /\ v.timer = t.timer
      /\ \A x \in Type : v.handle[x] = IF x \in {"RECONNECT"} THEN INVALID ELSE t.handle[x]
  BY <1>6, ForgetOK DEF Forget, Type, TableOK
<1>8. TableOK(u) /\ u.handle = v.handle
  BY <1>6, <1>7, StopTimerOK
<1>9. AllIdle(u)
  BY <1>3, <1>4, <1>6, <1>7 DEF StopTimer, TableOK, AllIdle
<1> QED BY <1>5, <1>7, <1>8, <1>9 DEF Cleared, Free, Type

\* HF_WakeUp leaves the table as it found it.
LEMMA RegisterSame ==
    ASSUME NEW t, TableOK(t)
    PROVE  Cancel(SetTimer(t, "REGISTER"), "REGISTER") = t /\ Cancel(t, "REGISTER") = t
<1>1. t.handle["REGISTER"] = INVALID
  BY DEF TableOK
<1>2. Cancel(t, "REGISTER") = t
  BY <1>1 DEF Cancel
<1>3. CASE ~CanSet(t)
  BY <1>2, <1>3 DEF SetTimer
<1>4. CASE CanSet(t)
  <2>1. PICK n \in Slot :
            /\ t.timer[n] = "idle"
            /\ SetTimer(t, "REGISTER") = [timer  |-> [t.timer EXCEPT ![n] = "REGISTER"],
                                          handle |-> [t.handle EXCEPT !["REGISTER"] = n]]
    BY <1>4, SetTimerSlot DEF Type
  <2>2. PICK u : u = SetTimer(t, "REGISTER")
    OBVIOUS
  <2>3. u.handle["REGISTER"] = n /\ n # INVALID
    BY <2>1, <2>2, NTimerAssumption DEF TableOK, Type, Slot, INVALID
  <2>4. Cancel(u, "REGISTER") = Forget(StopTimer(u, n), {"REGISTER"})
    BY <2>3 DEF Cancel
  <2>5. StopTimer(u, n).timer = t.timer
    BY <2>1, <2>2 DEF StopTimer, TableOK
  <2>6. Forget(StopTimer(u, n), {"REGISTER"}).handle = t.handle
    BY <1>1, <2>1, <2>2 DEF StopTimer, Forget, TableOK, Type
  <2>7. Forget(StopTimer(u, n), {"REGISTER"}) = t
    BY <2>1, <2>2, <2>5, <2>6 DEF StopTimer, Forget, TableOK
  <2> QED BY <1>2, <2>2, <2>4, <2>7
<1> QED BY <1>2, <1>3, <1>4

-----------------------------------------------------------------------------
(***************************************************************************)
(* The steps keep the table sound, given enough timers.                    *)
(***************************************************************************)
\* The table that a step installs.
LEMMA TmNow ==
    ASSUME NEW u, TableOK(u), Timers(u)
    PROVE  Tm' = u
BY DEF TableOK, Timers, Tm

LEMMA TmSame ==
    ASSUME UNCHANGED <<timer, handle>>
    PROVE  Tm' = Tm
BY DEF Tm

\* What the invariants say of the present table.
LEMMA TableNow ==
    ASSUME Enough, IInv, TimerInv
    PROVE  /\ TableOK(Tm) /\ TableSound(Tm) /\ CanSet(Tm)
           /\ Timed(Tm, state, netUp, cloudPc.pc)
           /\ handle = Tm.handle /\ timer = Tm.timer
<1>1. TableOK(Tm)
  BY TmOK DEF IInv
<1>2. TableSound(Tm) /\ Timed(Tm, state, netUp, cloudPc.pc)
  BY DEF TimerInv, Timed
<1>3. CanSet(Tm)
  BY <1>1, <1>2, RoomLeft
<1> QED BY <1>1, <1>2, <1>3 DEF Tm

\* A timer other than the reconnection's runs, or none does: the reconnection
\* is not under way.
LEMMA OthersRun ==
    ASSUME NEW t, TableOK(t), TableSound(t),
           NEW s \in Slot, t.timer[s] \notin {"RECONNECT", "idle"}
    PROVE  Free(t)
BY DEF TableSound, Alone

\* Initially no timer runs.
LEMMA TimerInit == Init => TimerInv
<1> SUFFICES ASSUME Init PROVE TimerInv
  OBVIOUS
<1>1. TableOK(Tm)
  BY InitIInv, TmOK DEF IInv
<1>2. Cleared(Tm)
  BY <1>1 DEF Init, Cleared, AllIdle, Free, Tm, Type
<1>3. TableSound(Tm) /\ Few(Tm)
  BY <1>2, ClearedSound
<1>4. cloudPc.pc = "idle"
  BY DEF Init, Idle, Pc
<1> QED BY <1>2, <1>3, <1>4 DEF Init, TimerInv, Timed, Cleared

\* The steps that set and stop no timer.
LEMMA TimerUntouched ==
    ASSUME Enough, IInv, TimerInv,
           \/ RunIdle \/ ConnectCloud \/ PopMsg2 \/ PopMsg4 \/ PopEvent
           \/ CreateSocket \/ ConnectOk \/ ConnectFail
           \/ Recv \/ RecvDataFromCloud \/ RecvClosed
    PROVE  TimerInv'
<1>1. Timed(Tm, state, netUp, cloudPc.pc) /\ handle = Tm.handle
  BY TableNow
<1>2. Tm' = Tm
  BY TmSame DEF RunIdle, ConnectCloud, PopMsg2, PopMsg4, PopEvent, PopRecv,
                CreateSocket, ConnectOk, ConnectFail, Recv, RecvDataFromCloud,
                RecvClosed, timers
<1>3. SUFFICES Timed(Tm, state', netUp', cloudPc'.pc)
  BY <1>2 DEF TimerInv
<1>4. CASE RunIdle
  BY <1>1, <1>4 DEF RunIdle, Ran, Pc, Timed, ctrl
<1>5. CASE ConnectCloud
  BY <1>1, <1>5 DEF ConnectCloud, Pc, Timed, Free, ctrl
<1>6. CASE PopMsg2 \/ PopMsg4 \/ PopEvent
  BY <1>1, <1>6 DEF PopMsg2, PopMsg4, PopEvent, PopRecv, Pc, Timed, Free, ctrl
<1>7. CASE CreateSocket
  <2>1. cloudPc'.pc \in {"ran", "connecting"}
    <3>1. cloudPc \in PcSet
      BY PcFields DEF IInv
    <3>2. CASE Ran(cloudPc.fd)
      BY <3>2 DEF Ran, Pc
    <3>3. CASE \E new : cloudPc' = [cloudPc EXCEPT !.pc = "connecting", !.new = new,
                                                   !.reach = netUp]
      BY <3>1, <3>3 DEF PcSet
    <3> QED BY <1>7, <3>2, <3>3 DEF CreateSocket
  <2> QED BY <1>1, <1>7, <2>1 DEF CreateSocket, Timed, ctrl
<1>8. CASE ConnectOk
  <2>1. handle["RECONNECT"] = INVALID
    BY <1>8 DEF ConnectOk, IInv, SocketInv
  <2> QED BY <1>1, <1>8, <2>1 DEF ConnectOk, Ran, Pc, Timed, Free
<1>9. CASE ConnectFail
  BY <1>1, <1>9 DEF ConnectFail, Ran, Pc, Timed, ctrl
<1>10. CASE Recv \/ RecvDataFromCloud
  BY <1>1, <1>10 DEF Recv, RecvDataFromCloud, Timed, ctrl
<1>11. CASE RecvClosed
  BY <1>1, <1>11 DEF RecvClosed, DisConnectCloud, CloudBlocked, Timed
<1> QED BY <1>4, <1>5, <1>6, <1>7, <1>8, <1>9, <1>10, <1>11

\* Msg1 is built and sent: the access timer is set, at most on top of those that
\* interrupted handshakes left.
LEMMA TimerMsg1 ==
    ASSUME Enough, IInv, TimerInv, BuildMsg1 \/ SendCloudAccessMsg1
    PROVE  TimerInv'
<1>1. /\ TableOK(Tm) /\ TableSound(Tm) /\ CanSet(Tm)
      /\ Timed(Tm, state, netUp, cloudPc.pc) /\ handle = Tm.handle
  BY TableNow
<1>2. CASE BuildMsg1
  <2>1. Free(Tm) /\ Few(Tm)
    BY <1>1, <1>2 DEF BuildMsg1, Timed
  <2>2. Tm' = Tm
    BY <1>1, <1>2, <2>1, TmNow DEF BuildMsg1, Cancel, Free
  <2> QED BY <1>1, <1>2, <2>1, <2>2 DEF BuildMsg1, Pc, TimerInv, Timed, ctrl
<1>3. CASE SendCloudAccessMsg1
  <2>1. Free(Tm) /\ Few(Tm)
    BY <1>1, <1>3 DEF SendCloudAccessMsg1, Timed
  <2>2. cloudPc'.pc = "ran" /\ netUp' = netUp
    BY <1>3 DEF SendCloudAccessMsg1, Ran, Pc
  <2>3. CASE state' = "WAIT_ACCESSRSP" /\ Timers(SetTimer(Tm, "REACCESS"))
    <3>1. PICK u : u = SetTimer(Tm, "REACCESS")
      OBVIOUS
    <3>2. TableOK(u) /\ TableSound(u) /\ Access(u) /\ Free(u)
      BY <1>1, <2>1, <3>1, AccessSet
    <3>3. Tm' = u
      BY <2>3, <3>1, <3>2, TmNow
    <3> QED BY <2>2, <2>3, <3>2, <3>3 DEF TimerInv, Timed
  <2>4. CASE DisConnectCloud /\ UNCHANGED <<timer, handle>>
    <3>1. Tm' = Tm
      BY <2>4, TmSame
    <3> QED BY <1>1, <2>1, <2>2, <2>4, <3>1 DEF DisConnectCloud, TimerInv, Timed
  <2> QED BY <1>3, <2>3, <2>4 DEF SendCloudAccessMsg1
<1> QED BY <1>2, <1>3

\* Msg2: its handler stops the access timer that its turn began with, or an
\* idle slot, and sets it again.
LEMMA TimerMsg2 ==
    ASSUME Enough, IInv, TimerInv, RecvAccessMsg2
    PROVE  TimerInv'
<1>1. /\ TableOK(Tm) /\ TableSound(Tm)
      /\ Timed(Tm, state, netUp, cloudPc.pc) /\ handle = Tm.handle
  BY TableNow
<1>2. /\ Free(Tm)
      /\ Access(Tm) \/ AllIdle(Tm)
      /\ cloudPc'.pc = "ran" /\ netUp' = netUp
  BY <1>1 DEF RecvAccessMsg2, Timed, Ran, Pc
<1>3. PICK h \in Slot : h = Tm.handle["REACCESS"]
  BY <1>1 DEF TableOK
<1>4. PICK u : u = StopTimer(Tm, h)
  OBVIOUS
<1>5. TableOK(u) /\ TableSound(u) /\ u.handle = Tm.handle /\ Few(u)
  <2>1. Tm.timer[h] = "REACCESS" \/ (AllIdle(Tm) /\ Tm.timer[h] = "idle")
    BY <1>2, <1>3 DEF Access, AllIdle
  <2> QED BY <1>1, <1>3, <1>4, <2>1, AccessStopped
<1>6. Free(u)
  BY <1>2, <1>5 DEF Free
<1>7. CASE \/ UNCHANGED <<ctrl, timer, handle>>
           \/ DisConnectCloud /\ UNCHANGED <<timer, handle>>
  <2>1. Tm' = Tm
    BY <1>7, TmSame
  <2> QED BY <1>1, <1>2, <1>7, <2>1 DEF DisConnectCloud, TimerInv, Timed, ctrl
<1>8. CASE DisConnectCloud /\ Timers(u)
  <2>1. Tm' = u
    BY <1>5, <1>8, TmNow
  <2> QED BY <1>2, <1>5, <1>6, <1>8, <2>1 DEF DisConnectCloud, TimerInv, Timed
<1>9. CASE state' = "WAIT_MSG4" /\ Timers(SetTimer(u, "REACCESS"))
  <2>1. PICK v : v = SetTimer(u, "REACCESS")
    OBVIOUS
  <2>2. CanSet(u)
    BY <1>5, RoomLeft
  <2>3. TableOK(v) /\ TableSound(v) /\ Access(v) /\ Free(v)
    BY <1>5, <1>6, <2>1, <2>2, AccessSet
  <2>4. Tm' = v
    BY <1>9, <2>1, <2>3, TmNow
  <2> QED BY <1>2, <1>9, <2>3, <2>4 DEF TimerInv, Timed
<1> QED BY <1>3, <1>4, <1>7, <1>8, <1>9 DEF RecvAccessMsg2, SendCloudAccessMsg3, Tm

\* Msg4: its handler restarts the heartbeat, with the access timer stopped when
\* the message is what it should be.
LEMMA TimerMsg4 ==
    ASSUME Enough, IInv, TimerInv, RecvAccessMsg4
    PROVE  TimerInv'
<1>1. /\ TableOK(Tm) /\ TableSound(Tm) /\ CanSet(Tm)
      /\ Timed(Tm, state, netUp, cloudPc.pc) /\ handle = Tm.handle
  BY TableNow
<1>2. /\ Free(Tm)
      /\ Access(Tm) \/ AllIdle(Tm)
      /\ cloudPc'.pc = "ran" /\ netUp' = netUp
  BY <1>1 DEF RecvAccessMsg4, Timed, Ran, Pc
<1>3. PICK h \in Slot : h = Tm.handle["REACCESS"]
  BY <1>1 DEF TableOK
<1>4. PICK u : u = StopTimer(Tm, h)
  OBVIOUS
<1>5. TableOK(u) /\ TableSound(u) /\ u.handle = Tm.handle
  <2>1. Tm.timer[h] \in {"REACCESS", "idle"}
    BY <1>2, <1>3 DEF Access, AllIdle
  <2> QED BY <1>1, <1>3, <1>4, <2>1, AccessStopped
<1>6. Free(u) /\ CanSet(u)
  BY <1>2, <1>5, RoomLeft DEF Free
<1>7. CASE Timers(RestartHeart(Tm)) /\ (UNCHANGED ctrl \/ DisConnectCloud)
  <2>1. PICK v : v = RestartHeart(Tm)
    OBVIOUS
  <2>2. Like(Tm, v) /\ v.handle["SENDHEART"] # INVALID /\ SameBut(Tm, v, "SENDHEART")
    BY <1>1, <1>2, <2>1, HeartSet
  <2>3. Tm' = v
    BY <1>7, <2>1, <2>2, TmNow DEF Like
  <2>4. Few(Tm) => Few(v)
    BY <2>2 DEF Like, Few
  <2> QED BY <1>1, <1>2, <1>7, <2>2, <2>3, <2>4
          DEF Like, DisConnectCloud, TimerInv, Timed, Free, ctrl
<1>8. CASE /\ Timers(RestartHeart(u))
           /\ DisConnectCloud \/ state' = "CONNECT_CLOUD"
  <2>1. PICK v : v = RestartHeart(u)
    OBVIOUS
  <2>2. Like(u, v) /\ v.handle["SENDHEART"] # INVALID /\ SameBut(u, v, "SENDHEART")
    BY <1>5, <1>6, <2>1, HeartSet
  <2>3. Tm' = v
    BY <1>8, <2>1, <2>2, TmNow DEF Like
  <2> QED BY <1>2, <1>5, <1>6, <1>8, <2>2, <2>3
          DEF Like, DisConnectCloud, TimerInv, Timed, Free
<1> QED BY <1>3, <1>4, <1>7, <1>8 DEF RecvAccessMsg4, Tm

\* An event: the retransmission is set while it is not, then the heartbeat.
LEMMA TimerEvent ==
    ASSUME Enough, IInv, TimerInv, HandleEvent
    PROVE  TimerInv'
<1>1. /\ TableOK(Tm) /\ TableSound(Tm) /\ CanSet(Tm)
      /\ Timed(Tm, state, netUp, cloudPc.pc) /\ handle = Tm.handle
  BY TableNow
<1>2. /\ Free(Tm) /\ Tm.handle["SENDMOUDLE"] = INVALID
      /\ cloudPc'.pc = "ran" /\ netUp' = netUp
  BY <1>1 DEF HandleEvent, Timed, Ran, Pc
<1>3. CASE /\ UNCHANGED timers
           /\ UNCHANGED state \/ DisConnectCloud
  <2>1. Tm' = Tm
    BY <1>3, TmSame DEF timers
  <2> QED BY <1>1, <1>2, <1>3, <2>1 DEF DisConnectCloud, TimerInv, Timed
<1>4. ASSUME NEW answer \in BOOLEAN, HandleMoudleMsg(answer), UNCHANGED state
      PROVE  TimerInv'
  <2>1. PICK u : u = SetTimer(Tm, "SENDMOUDLE")
    OBVIOUS
  <2>2. Like(Tm, u) /\ SameBut(Tm, u, "SENDMOUDLE")
    BY <1>1, <1>2, <2>1, MoudleSet DEF SameBut
  <2>3. PICK v : v = IF answer THEN Answered(u) ELSE u
    OBVIOUS
  <2>4. Like(Tm, v) /\ Free(v)
    <3>1. TableOK(u) /\ TableSound(u) /\ Free(u)
      BY <1>2, <2>2 DEF Like, Free
    <3>2. CASE answer /\ u.handle["SENDMOUDLE"] # INVALID
      <4>1. Like(u, v)
        BY <2>3, <3>1, <3>2, AnsweredTable
      <4> QED BY <2>2, <3>1, <4>1 DEF Like, Free
    <3>3. CASE ~answer \/ u.handle["SENDMOUDLE"] = INVALID
      <4>1. v = u
        BY <2>3, <3>3 DEF Answered, Cancel
      <4> QED BY <2>2, <3>1, <4>1
    <3> QED BY <3>2, <3>3
  <2>5. PICK w : w = RestartHeart(v)
    OBVIOUS
  <2>6. Like(v, w) /\ w.handle["SENDHEART"] # INVALID
    BY <2>4, <2>5, RoomLeft, HeartSet DEF Like
  <2>7. Tm' = w
    BY <1>4, <2>1, <2>3, <2>5, <2>6, TmNow DEF HandleMoudleMsg, Like
  <2>8. /\ TableSound(w) /\ Free(w)
        /\ Access(w) <=> Access(Tm)
        /\ Few(Tm) => Few(w)
    BY <2>4, <2>6 DEF Like, Free, Few
  <2> QED BY <1>1, <1>2, <1>4, <2>6, <2>7, <2>8 DEF TimerInv, Timed
<1> QED BY <1>3, <1>4 DEF HandleEvent

\* The end of a turn: a reconnection finds no other one, or one that runs.
LEMMA TimerAfterRun ==
    ASSUME Enough, IInv, TimerInv, AfterRun
    PROVE  TimerInv'
<1>1. /\ TableOK(Tm) /\ TableSound(Tm)
      /\ Timed(Tm, state, netUp, cloudPc.pc) /\ handle = Tm.handle
  BY TableNow
<1>2. cloudPc.pc = "ran" /\ cloudPc'.pc = "idle" /\ netUp' = netUp
  BY DEF AfterRun, Idle, Pc
<1>3. CASE state = "DISCONNECT_CLOUD" /\ handle["RECONNECT"] = INVALID
  <2>1. PICK u : u = SetTimer(Forget(StopAll(Tm), {"SENDMOUDLE", "SENDHEART"}),
                              "RECONNECT")
    OBVIOUS
  <2>2. TableOK(u) /\ TableSound(u) /\ Few(u) /\ ~Free(u)
    BY <1>1, <1>3, <2>1, ReconnectTable DEF Free
  <2>3. Tm' = u /\ state' = "INIT"
    BY <1>3, <2>1, <2>2, TmNow DEF AfterRun, ReconnectCloud
  <2> QED BY <1>2, <2>2, <2>3 DEF TimerInv, Timed
<1>4. CASE ~(state = "DISCONNECT_CLOUD" /\ handle["RECONNECT"] = INVALID)
  <2>1. Tm' = Tm /\ state' = state
    BY <1>4, TmSame DEF AfterRun, ReconnectCloud
  <2> QED BY <1>1, <1>2, <2>1 DEF TimerInv, Timed
<1> QED BY <1>3, <1>4

\* A timeout, of whatever type.
LEMMA TimerTimeout ==
    ASSUME Enough, IInv, TimerInv, NEW s \in Slot, TimerCallback(s)
    PROVE  TimerInv'
<1>1. /\ TableOK(Tm) /\ TableSound(Tm) /\ CanSet(Tm)
      /\ Timed(Tm, state, netUp, cloudPc.pc)
      /\ handle = Tm.handle /\ timer = Tm.timer
  BY TableNow
<1>2. cloudPc.pc \in {"idle", "resolving", "connecting"}
  BY DEF TimerCallback, ReconnectTimeout, AccessTimeout, SendMoudleTimeout,
         HeartTimeout, Expired, TimerTurn, CloudBlocked
<1>3. CASE ReconnectTimeout(s)
  <2>1. PICK u : u = StopTimer(Forget(Tm, {"RECONNECT"}), s)
    OBVIOUS
  <2>2. Cleared(u)
    BY <1>1, <1>3, <2>1, ReconnectedTable DEF ReconnectTimeout, Expired
  <2>3. TableSound(u) /\ Few(u)
    BY <2>2, ClearedSound
  <2>4. Tm' = u
    BY <1>3, <2>1, <2>2, TmNow DEF ReconnectTimeout, Cleared
  <2> QED BY <1>2, <1>3, <2>2, <2>3, <2>4
          DEF ReconnectTimeout, Cleared, TimerInv, Timed
<1>4. CASE AccessTimeout(s)
  <2>1. Tm.timer[s] = "REACCESS"
    BY <1>1, <1>4 DEF AccessTimeout, Expired
  <2>2. Free(Tm)
    BY <1>1, <2>1, OthersRun
  <2>3. PICK u : u = StopTimer(Tm, s)
    OBVIOUS
  <2>4. /\ TableOK(u) /\ TableSound(u) /\ u.handle = Tm.handle
        /\ Few(Tm) => Few(u)
    BY <1>1, <2>1, <2>3, AccessStopped
  <2>5. Tm' = u
    BY <1>4, <2>3, <2>4, TmNow DEF AccessTimeout
  <2>6. Free(u)
    BY <2>2, <2>4 DEF Free
  <2> QED BY <1>1, <1>2, <1>4, <2>4, <2>5, <2>6
          DEF AccessTimeout, DisConnectCloud, TimerInv, Timed
<1>5. CASE SendMoudleTimeout(s)
  <2>1. Tm.timer[s] = "SENDMOUDLE" /\ Tm.handle["SENDMOUDLE"] # INVALID
    BY <1>1, <1>5, NTimerAssumption
    DEF SendMoudleTimeout, Expired, TableSound, Exact, Slot, INVALID
  <2>2. Free(Tm)
    BY <1>1, <2>1, OthersRun
  <2>3. \E u : Timers(u) /\ Like(Tm, u) /\ SameBut(Tm, u, "SENDMOUDLE")
    <3>1. CASE Timers(StopTimer(Forget(Tm, {"SENDMOUDLE"}), s))
      BY <1>1, <2>1, <3>1, GivenUp
    <3>2. CASE Timers(StopTimer(SetTimer(Tm, "SENDMOUDLE"), s))
      BY <1>1, <2>1, <2>2, <3>2, Retimed
    <3> QED BY <1>5, <3>1, <3>2 DEF SendMoudleTimeout
  <2>4. PICK u : Timers(u) /\ Like(Tm, u) /\ SameBut(Tm, u, "SENDMOUDLE")
    BY <2>3
  <2>5. Tm' = u
    BY <2>4, TmNow DEF Like
  <2>6. u.handle["SENDHEART"] = Tm.handle["SENDHEART"]
    BY <2>4 DEF SameBut, Type
  <2>7. UNCHANGED <<state, netUp, cloudPc>>
    BY <1>5 DEF SendMoudleTimeout, ctrl
  <2>8. /\ TableSound(u) /\ Free(u)
        /\ Access(u) <=> Access(Tm)
        /\ Few(Tm) => Few(u)
    BY <2>1, <2>2, <2>4 DEF Like, Free, Few
  <2>9. Tm.handle["SENDMOUDLE"] = INVALID => u.handle["SENDMOUDLE"] = INVALID
    BY <2>1
  <2> QED BY <1>1, <1>2, <2>2, <2>5, <2>6, <2>7, <2>8, <2>9 DEF TimerInv, Timed
<1>6. CASE HeartTimeout(s)
  <2>1. Tm.timer[s] = "SENDHEART"
    BY <1>1, <1>6 DEF HeartTimeout, Expired
  <2>2. Free(Tm)
    BY <1>1, <2>1, OthersRun
  <2>3. PICK u : u = StopTimer(SetTimer(Tm, "SENDHEART"), s)
    OBVIOUS
  <2>4. Like(Tm, u) /\ u.handle["SENDHEART"] # INVALID /\ SameBut(Tm, u, "SENDHEART")
    BY <1>1, <2>1, <2>2, <2>3, Retimed
  <2>5. Tm' = u
    BY <1>6, <2>3, <2>4, TmNow DEF HeartTimeout, Like
  <2>6. u.handle["SENDMOUDLE"] = Tm.handle["SENDMOUDLE"]
    BY <2>4 DEF SameBut, Type
  <2>7. UNCHANGED <<state, netUp, cloudPc>>
    BY <1>6 DEF HeartTimeout, ctrl
  <2>8. /\ TableSound(u) /\ Free(u)
        /\ Access(u) <=> Access(Tm)
        /\ Few(Tm) => Few(u)
    BY <2>2, <2>4, <2>6 DEF Like, Free, Few
  <2> QED BY <1>1, <1>2, <2>2, <2>4, <2>5, <2>6, <2>7, <2>8 DEF TimerInv, Timed
<1> QED BY <1>3, <1>4, <1>5, <1>6 DEF TimerCallback

\* Wi-Fi and the device.
LEMMA TimerAbove ==
    ASSUME Enough, IInv, TimerInv, WakeUp \/ Sleep \/ DeviceMessage
    PROVE  TimerInv'
<1>1. /\ TableOK(Tm) /\ TableSound(Tm)
      /\ Timed(Tm, state, netUp, cloudPc.pc) /\ handle = Tm.handle
  BY TableNow
<1>2. CASE WakeUp
  <2>1. Timers(Tm)
    BY <1>1, <1>2, RegisterSame DEF WakeUp
  <2>2. Tm' = Tm
    BY <1>1, <2>1, TmNow
  <2>3. cloudPc'.pc = cloudPc.pc /\ state' = "ACCESS_NET"
    BY <1>2, PcFields DEF WakeUp, IInv, PcSet
  <2>4. Few(Tm)
    BY <1>2 DEF WakeUp, Stale, Few, Accesses, Tm
  <2> QED BY <1>1, <2>2, <2>3, <2>4 DEF TimerInv, Timed
<1>3. CASE Sleep
  <2>1. PICK u : u = Forget(StopAll(Tm), Type \ {"REACCESS"})
    OBVIOUS
  <2>2. Cleared(u)
    BY <1>1, <2>1, SleptTable
  <2>3. TableSound(u) /\ Few(u)
    BY <2>2, ClearedSound
  <2>4. Tm' = u
    BY <1>3, <2>1, <2>2, TmNow DEF Sleep, Cleared
  <2>5. state' = "INIT" /\ ~netUp' /\ cloudPc' = cloudPc
    BY <1>3 DEF Sleep
  <2> QED BY <2>2, <2>3, <2>4, <2>5 DEF Cleared, TimerInv, Timed
<1>4. CASE DeviceMessage
  <2>1. PICK u : u = Answered(Tm)
    OBVIOUS
  <2>2. /\ Like(Tm, u) /\ u.handle["SENDMOUDLE"] = INVALID
        /\ SameBut(Tm, u, "SENDMOUDLE")
    BY <1>1, <1>4, <2>1, AnsweredTable DEF DeviceMessage
  <2>3. Tm' = u
    BY <1>4, <2>1, <2>2, TmNow DEF DeviceMessage, Like
  <2>4. u.handle["SENDHEART"] = Tm.handle["SENDHEART"]
    BY <2>2 DEF SameBut, Type
  <2>5. UNCHANGED <<state, netUp, cloudPc>>
    BY <1>4 DEF DeviceMessage, ctrl
  <2>6. /\ TableSound(u)
        /\ Free(u) <=> Free(Tm)
        /\ Access(u) <=> Access(Tm)
        /\ Few(Tm) => Few(u)
    BY <2>2 DEF Like, Free, Few
  <2>7. ~(cloudPc.pc \in {"msg2", "msg4"} /\ AllIdle(Tm))
    <3>1. PICK m \in Slot : m = Tm.handle["SENDMOUDLE"]
      BY <1>1, <1>4 DEF DeviceMessage, TableOK, Type
    <3>2. Tm.timer[m] = "SENDMOUDLE"
      BY <1>1, <3>1 DEF TableSound, Exact
    <3> QED BY <3>2 DEF AllIdle
  <2> QED BY <1>1, <2>2, <2>3, <2>4, <2>5, <2>6, <2>7 DEF TimerInv, Timed
<1> QED BY <1>2, <1>3, <1>4

\* Every step keeps the table sound.
LEMMA NextTimerInv ==
    ASSUME Enough, IInv, TimerInv, [Next]_vars
    PROVE  TimerInv'
<1>1. CASE Run \/ CreateSocket \/ ConnectOk \/ ConnectFail \/ Recv
           \/ RecvDataFromCloud \/ RecvClosed
  BY <1>1, TimerUntouched, TimerMsg1 DEF Run
<1>2. CASE Handle
  BY <1>2, TimerMsg1, TimerMsg2, TimerMsg4, TimerEvent DEF Handle
<1>3. CASE AfterRun
  BY <1>3, TimerAfterRun
<1>4. CASE \E s \in Slot : TimerCallback(s)
  BY <1>4, TimerTimeout
<1>5. CASE WakeUp \/ Sleep \/ DeviceMessage
  BY <1>5, TimerAbove
<1>6. CASE UNCHANGED vars
  <2>1. Tm' = Tm /\ UNCHANGED <<state, netUp, cloudPc>>
    BY <1>6, TmSame DEF vars, timers, ctrl
  <2> QED BY <2>1 DEF TimerInv
<1> QED BY <1>1, <1>2, <1>3, <1>4, <1>5, <1>6 DEF Next

\* What the properties of the timers need of the invariants.
LEMMA TimersFollow ==
    ASSUME Enough, IInv, TimerInv
    PROVE  TimersSound
<1>1. /\ TableOK(Tm) /\ TableSound(Tm) /\ CanSet(Tm)
      /\ Timed(Tm, state, netUp, cloudPc.pc)
      /\ handle = Tm.handle /\ timer = Tm.timer
  BY TableNow
<1>2. \A ty \in {"RECONNECT", "SENDMOUDLE", "SENDHEART"} :
          handle[ty] # INVALID => Armed(ty)
  <2> SUFFICES ASSUME NEW ty \in {"RECONNECT", "SENDMOUDLE", "SENDHEART"},
                      handle[ty] # INVALID
               PROVE  Armed(ty)
    OBVIOUS
  <2>1. handle[ty] \in Slot
    BY <1>1 DEF TableOK, Type
  <2> QED BY <1>1, <2>1 DEF TableSound, Exact, Armed
<1>3. SlotLeft
  BY <1>1 DEF SlotLeft
<1>4. ReconnectArmed
  BY <1>1, <1>2 DEF ReconnectArmed, Timed, Free
<1>5. HandshakeTimed
  <2>1. Access(Tm) => Armed("REACCESS")
    BY <1>1, NTimerAssumption DEF Access, Armed, TableOK, Slot, INVALID
  <2> QED BY <1>1, <2>1 DEF HandshakeTimed, Timed
<1>6. HeartAlive
  BY <1>1, <1>2 DEF HeartAlive, Timed
<1>7. EventTimed
  BY <1>2 DEF EventTimed
<1> QED BY <1>3, <1>4, <1>5, <1>6, <1>7 DEF TimersSound

\* HF_SetTimer never fails, and every wait of the controller has its timer
\* running: a reconnection, a handshake, an event that waits for the device, and
\* the heartbeat of a connection.  This needs four slots and OS timers more than
\* access timers may run when Wi-Fi comes up (ZC_TIMER_MAX_NUM is 10 and DHCP
\* leaves at most three of them, OS_TMR_CFG_MAX is 20).
THEOREM TimersAreSound ==
    ASSUME NTimer >= MaxStale + 4, OsTimers >= MaxStale + 4
    PROVE  Spec => []TimersSound
<1>1. Init => IInv /\ TimerInv
  BY InitIInv, TimerInit
<1>2. IInv /\ TimerInv /\ [Next]_vars => IInv' /\ TimerInv'
  BY NextIInv, NextTimerInv DEF Enough
<1>3. IInv /\ TimerInv => TimersSound
  BY TimersFollow DEF Enough
<1> QED BY <1>1, <1>2, <1>3, PTL DEF Spec
=============================================================================
