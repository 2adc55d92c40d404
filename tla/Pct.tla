-------------------------------- MODULE Pct ---------------------------------
(***************************************************************************)
(* The protocol controller of the ZC agent (zc_protocol_controller.c), its *)
(* timers (zc_timer.c and the timer functions of zc_hf_adpter.c) and the   *)
(* tasks that run it: the connection to the cloud, the four-message        *)
(* handshake, the reconnection, the delivery of cloud events to the        *)
(* device with retransmission, and the reaction to Wi-Fi going up or down. *)
(*                                                                         *)
(* Tasks, in order of priority (a smaller number preempts a larger one):   *)
(*   device (AppTask, 31), Wi-Fi (UserTaskProc, 50),                       *)
(*   cloud (HF_Cloudfunc, 59), receive (HF_CloudRecvfunc, 60),             *)
(*   timer (the uC/OS timer task, OS_LOWEST_PRIO - 2 = 61).                *)
(* A task of lower priority runs only while those above it are blocked,    *)
(* and is overtaken by them between any two of its steps.  A step ends     *)
(* where its task blocks or where overtaking it is modelled: HF_Cloudfunc  *)
(* blocks in its delay, in gethostbyname() and in connect(); the Wi-Fi     *)
(* task may overtake it after a handler has taken its input (Msg1 is then  *)
(* built, encrypted if u32SecSwitch says so, queued and traced; a message  *)
(* popped) and after PCT_Run; HF_CloudRecvfunc is overtaken between recv() *)
(* and the use of the data.  The OS calls HF_timer_callback with its       *)
(* scheduler locked, so a callback is one step.  The device runs at once,  *)
(* inside the call that sends it a message, as its queue wakes the task of *)
(* highest priority, except inside a timer callback.                       *)
(*                                                                         *)
(* Of the send queue only the result of sending Msg1 has an effect here.   *)
(***************************************************************************)
EXTENDS Integers, FiniteSets

CONSTANTS
    NTimer,       \* ZC_TIMER_MAX_NUM
    OsTimers,     \* OS timers that the rest of the firmware leaves to the agent
    MaxStale,     \* access timers that may still run when Wi-Fi comes up
    MaxResend,    \* PCT_SENDMOUDLE_NUM
    NSock,        \* sockets of the TCP/IP stack that the agent can hold
    Kinds         \* message codes the cloud uses in an instance

ASSUME NTimerAssumption == NTimer \in Nat \ {0}
ASSUME OsTimersAssumption == OsTimers \in Nat \ {0}
ASSUME MaxStaleAssumption == MaxStale \in Nat \ {0}
ASSUME MaxResendAssumption == MaxResend \in Nat
ASSUME NSockAssumption == NSock \in Nat \ {0}
ASSUME KindsAssumption ==
    Kinds \subseteq {"HANDSHAKE_2", "ACCESS_POINT_RSP", "HANDSHAKE_4",
                     "EVENT", "RESET_NETWORK", "OTHER"}

VARIABLES
    state,      \* u8MainState
    keyRecv,    \* u8keyRecv = PCT_KEY_RECVED
    auth,       \* history: what this connection's random number vouches for
    timer,      \* g_struTimer: the type of every slot that is in use
    handle,     \* u8ReconnectTimer, u8AccessTimer, ... by timer type
    resend,     \* u8ReSendMoudleNum
    rbuf,       \* g_struRecvBuffer with its entry in g_struRecvQueue
    sock,       \* struCloudConnection.u32Socket, 0 for PCT_INVAILD_SOCKET
    open,       \* the sockets the TCP/IP stack holds open
    netUp,      \* the last word of Wi-Fi was NET_UP
    cloudPc,    \* where HF_Cloudfunc is
    recvd       \* what HF_CloudRecvfunc got from recv() and has not used yet

ctrl == <<state, keyRecv, auth>>
timers == <<timer, handle, resend>>
conn == <<sock, open>>
vars == <<ctrl, timers, rbuf, conn, netUp, cloudPc, recvd>>

Slot == 0 .. NTimer - 1
Sock == 1 .. NSock
INVALID == -1
Type == {"RECONNECT", "REACCESS", "SENDMOUDLE", "SENDHEART", "REGISTER"}

State == {"INIT", "ACCESS_NET", "WAIT_ACCESS", "WAIT_ACCESSRSP",
          "WAIT_MSG4", "CONNECT_CLOUD", "DISCONNECT_CLOUD"}

\* The states in which HF_CloudRecvfunc selects on the cloud socket.
Receiving == {"WAIT_ACCESSRSP", "WAIT_MSG4", "CONNECT_CLOUD"}

\* A message as the agent tells messages apart: its code, whether its CRC is
\* right, and whether it carries the random number of this connection ("this"),
\* another one ("other"), or came over an earlier connection ("stale").
Message == [kind : Kinds, crc : BOOLEAN, tag : {"this", "other", "stale"}]

Mark(k) == [kind |-> k, crc |-> TRUE, tag |-> "this"]

\* The receive buffer: idle, full with a message that is in the receive queue,
\* or full and in no queue: SEC_Decrypt refused it, or a handler works on it.
Empty == Mark("empty")
Unqueued == Mark("unqueued")
Rbuf == Message \cup {Empty, Unqueued}

\* What recv() returned: nothing yet, a message, bytes that do not decrypt, or
\* the end of the connection.
Nothing == Mark("nothing")
Garbled == Mark("garbled")
Closed == Mark("closed")
Recvd == Message \cup {Nothing, Garbled, Closed}

-----------------------------------------------------------------------------
(***************************************************************************)
(* The timer table, as functions of a record t of the slots and handles.   *)
(***************************************************************************)
Tm == [timer |-> timer, handle |-> handle]

Timers(t) == timer' = t.timer /\ handle' = t.handle

IdleSlots(t) == {s \in Slot : t.timer[s] = "idle"}

\* TIMER_FindIdleTimer: the first idle slot.
FindIdleTimer(t) == CHOOSE s \in IdleSlots(t) : \A r \in IdleSlots(t) : s <= r

\* Every slot in use holds one OS timer, of the OS_TMR_CFG_MAX that all share.
CanSet(t) == IdleSlots(t) # {} /\ Cardinality(Slot \ IdleSlots(t)) < OsTimers

\* HF_SetTimer: no effect, and an error nobody looks at, when no slot is idle
\* or tls_os_timer_create finds no OS timer.  The first expiry of the OS timer
\* only restarts it (u32FirstFlag); a timeout below stands for the second.
SetTimer(t, ty) ==
    IF ~CanSet(t) THEN t
    ELSE LET s == FindIdleTimer(t)
         IN [timer  |-> [t.timer EXCEPT ![s] = ty],
             handle |-> [t.handle EXCEPT ![ty] = s]]

\* TIMER_StopTimer, with HF_StopTimer.
StopTimer(t, s) == [t EXCEPT !.timer = [@ EXCEPT ![s] = "idle"]]

Forget(t, tys) ==
    [t EXCEPT !.handle = [ty \in Type |-> IF ty \in tys THEN INVALID ELSE @[ty]]]

\* Stop a timer that is known to be set, and forget its handle.
Cancel(t, ty) ==
    IF t.handle[ty] = INVALID THEN t
    ELSE Forget(StopTimer(t, t.handle[ty]), {ty})

\* Stop the heartbeat if it is set, and set it again.
RestartHeart(t) ==
    SetTimer(IF t.handle["SENDHEART"] = INVALID THEN t
             ELSE StopTimer(t, t.handle["SENDHEART"]), "SENDHEART")

\* The loop over g_struTimer with TIMER_Init after it.
StopAll(t) == [t EXCEPT !.timer = [s \in Slot |-> "idle"]]

-----------------------------------------------------------------------------
(***************************************************************************)
(* Scheduling.                                                             *)
(***************************************************************************)
CloudTurn == cloudPc.pc = "idle"

\* The lower tasks run while the cloud task is blocked, the timer task while
\* the receive task is blocked too.
CloudBlocked == cloudPc.pc \in {"idle", "resolving", "connecting"}
TimerTurn == CloudBlocked /\ recvd = Nothing

\* HF_Cloudfunc goes on: fd is the socket it read before PCT_Run, new the one
\* being connected, reach whether the network was up meanwhile, msg the message
\* its handler works on.
Pc(pc, fd, msg) == [pc |-> pc, fd |-> fd, new |-> 0, reach |-> FALSE, msg |-> msg]
Idle == Pc("idle", 0, Nothing)
Ran(fd) == cloudPc' = Pc("ran", fd, Nothing)

-----------------------------------------------------------------------------
(***************************************************************************)
(* zc_protocol_controller.c, run by HF_Cloudfunc through PCT_Run.          *)
(***************************************************************************)
\* PCT_DisConnectCloud, with the MSG_Init it calls.
DisConnectCloud ==
    /\ state' = "DISCONNECT_CLOUD"
    /\ keyRecv' = FALSE
    /\ rbuf' = Empty

\* PCT_Run does nothing in DISCONNECT_CLOUD, and the loop goes on to
\* AfterRun.  (It also does nothing, and the rest of the loop neither, in INIT,
\* while a reconnection is under way, with an empty receive queue, and while
\* the device has not answered an event: such a turn changes no state.)
RunIdle ==
    /\ CloudTurn
    /\ state = "DISCONNECT_CLOUD"
    /\ Ran(sock)
    /\ UNCHANGED <<ctrl, timers, rbuf, conn, netUp, recvd>>

\* PCT_ConnectCloud up to gethostbyname() in HF_ConnectToCloud.
ConnectCloud ==
    /\ CloudTurn
    /\ state = "ACCESS_NET"
    /\ handle["RECONNECT"] = INVALID
    /\ cloudPc' = Pc("resolving", sock, Nothing)
    /\ UNCHANGED <<ctrl, timers, rbuf, conn, netUp, recvd>>

\* HF_ConnectToCloud from there to connect().  A name that does not resolve,
\* or no socket, ends the attempt; the state is not changed.
CreateSocket ==
    /\ cloudPc.pc = "resolving"
    /\ \/ /\ Ran(cloudPc.fd)
          /\ UNCHANGED open
       \/ \E new \in Sock \ open :
             /\ \A other \in Sock \ open : new <= other
             /\ open' = open \cup {new}
             /\ cloudPc' = [cloudPc EXCEPT !.pc = "connecting", !.new = new,
                                           !.reach = netUp]
    /\ UNCHANGED <<ctrl, timers, rbuf, sock, netUp, recvd>>

\* What was received over the connection before this one.
Outdated(m) == IF m.kind \in Kinds THEN [m EXCEPT !.tag = "stale"] ELSE m

\* connect() succeeds, if Wi-Fi was up at some time during it: the rest of
\* HF_ConnectToCloud draws a new RandMsg, the rest of PCT_ConnectCloud moves on
\* whatever the state is by now.
ConnectOk ==
    /\ cloudPc.pc = "connecting"
    /\ cloudPc.reach
    /\ sock' = cloudPc.new
    /\ state' = "WAIT_ACCESS"
    /\ keyRecv' = FALSE
    /\ auth' = {}
    /\ rbuf' = Outdated(rbuf)
    /\ recvd' = Outdated(recvd)
    /\ Ran(cloudPc.fd)
    /\ UNCHANGED <<timers, open, netUp>>

\* connect() fails: the attempt is repeated in the next turn (the count of
\* failures and the address are not modelled).
ConnectFail ==
    /\ cloudPc.pc = "connecting"
    /\ open' = open \ {cloudPc.new}
    /\ Ran(cloudPc.fd)
    /\ UNCHANGED <<ctrl, timers, rbuf, sock, netUp, recvd>>

\* PCT_SendCloudAccessMsg1 up to the call of PCT_SendMsgToCloud.
BuildMsg1 ==
    /\ CloudTurn
    /\ state = "WAIT_ACCESS"
    /\ Timers(Cancel(Tm, "RECONNECT"))
    /\ cloudPc' = Pc("msg1", sock, Nothing)
    /\ UNCHANGED <<ctrl, resend, rbuf, conn, netUp, recvd>>

\* The rest of it; PCT_SendMsgToCloud may fail (no idle buffer, encryption).
SendCloudAccessMsg1 ==
    /\ cloudPc.pc = "msg1"
    /\ \/ /\ state' = "WAIT_ACCESSRSP"
          /\ Timers(SetTimer(Tm, "REACCESS"))
          /\ UNCHANGED <<keyRecv, rbuf>>
       \/ /\ DisConnectCloud
          /\ UNCHANGED <<timer, handle>>
    /\ Ran(cloudPc.fd)
    /\ UNCHANGED <<auth, resend, conn, netUp, recvd>>

\* MSG_PopMsg on the receive queue, by the handler of state st.
PopRecv(st, pc) ==
    /\ CloudTurn
    /\ state = st
    /\ rbuf.kind \in Kinds
    /\ rbuf' = Unqueued
    /\ cloudPc' = Pc(pc, sock, rbuf)
    /\ UNCHANGED <<ctrl, timers, conn, netUp, recvd>>

PopMsg2 == PopRecv("WAIT_ACCESSRSP", "msg2")
PopMsg4 == PopRecv("WAIT_MSG4", "msg4")

\* PCT_HandleEvent does not pop while an event waits for the device.
PopEvent == handle["SENDMOUDLE"] = INVALID /\ PopRecv("CONNECT_CLOUD", "event")

\* memcmp of the message's random number with RandMsg.
MutRandMatches(m) == TRUE
RandMatches(m) == m.tag = "this"

\* The timer that PCT_SendCloudAccessMsg3 sets.
SendCloudAccessMsg3(t) == SetTimer(t, "REACCESS")

\* PCT_RecvAccessMsg2 with the message it popped.  (ZC_StoreAccessInfo for an
\* access point is not modelled.)
RecvAccessMsg2 ==
    LET m == cloudPc.msg
        stopped == StopTimer(Tm, handle["REACCESS"])
        isMsg2 == m.kind \in {"HANDSHAKE_2", "ACCESS_POINT_RSP"}
    IN /\ cloudPc.pc = "msg2"
       /\ \/ /\ ~isMsg2
             /\ UNCHANGED <<ctrl, timer, handle>>
          \/ /\ isMsg2 /\ ~m.crc
             /\ DisConnectCloud
             /\ UNCHANGED <<auth, timer, handle>>
          \/ /\ isMsg2 /\ m.crc
             /\ ~RandMatches(m) \/ m.kind = "ACCESS_POINT_RSP"
             /\ DisConnectCloud
             /\ Timers(stopped)
             /\ UNCHANGED auth
          \/ /\ m.kind = "HANDSHAKE_2" /\ m.crc /\ RandMatches(m)
             /\ keyRecv' = TRUE
             /\ auth' = (IF m.tag = "this" THEN {"key"} ELSE {})
             /\ state' = "WAIT_MSG4"
             /\ Timers(SendCloudAccessMsg3(stopped))
       /\ rbuf' = Empty
       /\ Ran(cloudPc.fd)
       /\ UNCHANGED <<resend, conn, netUp, recvd>>

\* PCT_RecvAccessMsg4: the heartbeat is restarted whatever the message was.
RecvAccessMsg4 ==
    LET m == cloudPc.msg
        stopped == StopTimer(Tm, handle["REACCESS"])
        isMsg4 == m.kind = "HANDSHAKE_4"
    IN /\ cloudPc.pc = "msg4"
       /\ \/ /\ ~isMsg4
             /\ Timers(RestartHeart(Tm))
             /\ UNCHANGED ctrl
          \/ /\ isMsg4 /\ ~m.crc
             /\ DisConnectCloud
             /\ Timers(RestartHeart(Tm))
             /\ UNCHANGED auth
          \/ /\ isMsg4 /\ m.crc /\ ~RandMatches(m)
             /\ DisConnectCloud
             /\ Timers(RestartHeart(stopped))
             /\ UNCHANGED auth
          \/ /\ isMsg4 /\ m.crc /\ RandMatches(m)
             /\ state' = "CONNECT_CLOUD"
             /\ auth' = (IF m.tag = "this" THEN auth \cup {"peer"} ELSE auth)
             /\ Timers(RestartHeart(stopped))
             /\ UNCHANGED keyRecv
       /\ rbuf' = Empty
       /\ Ran(cloudPc.fd)
       /\ UNCHANGED <<resend, conn, netUp, recvd>>

\* PCT_HandleMoudleEvent: what a message of the device does to the pending
\* event (t is the timer table, num the count of retransmissions).
Answered(t) == Cancel(t, "SENDMOUDLE")
AnsweredNum(t, num) == IF t.handle["SENDMOUDLE"] = INVALID THEN num ELSE 0

\* PCT_HandleMoudleMsg: the retransmission timer is set before the message is
\* sent.  The device, of higher priority, answers inside the call that sends
\* (answer) or not.
HandleMoudleMsg(answer) ==
    LET sent == SetTimer(Tm, "SENDMOUDLE")
    IN /\ resend' = 0
       /\ Timers(RestartHeart(IF answer THEN Answered(sent) ELSE sent))

\* PCT_HandleEvent with the message it popped: OTHER stands for the codes that
\* are only answered (the firmware update, TOKEN_SET, which stores a key).
HandleEvent ==
    LET m == cloudPc.msg
    IN /\ cloudPc.pc = "event"
       /\ \/ /\ ~m.crc \/ m.kind \in {"OTHER"}
             /\ UNCHANGED <<state, keyRecv, timers>>
          \/ /\ m.crc /\ m.kind \notin {"OTHER", "RESET_NETWORK"}
             /\ \E answer \in BOOLEAN : HandleMoudleMsg(answer)
             /\ UNCHANGED <<state, keyRecv>>
          \/ /\ m.crc /\ m.kind = "RESET_NETWORK"
             /\ DisConnectCloud
             /\ UNCHANGED timers
       /\ rbuf' = Empty
       /\ Ran(cloudPc.fd)
       /\ UNCHANGED <<auth, conn, netUp, recvd>>

\* PCT_Run.
Run == \/ RunIdle \/ ConnectCloud \/ BuildMsg1 \/ PopMsg2 \/ PopMsg4 \/ PopEvent

Handle == SendCloudAccessMsg1 \/ RecvAccessMsg2 \/ RecvAccessMsg4 \/ HandleEvent

MutReconnectCloud ==
    /\ handle["RECONNECT"] = INVALID
    /\ state' = "INIT"
    /\ keyRecv' = FALSE
    /\ rbuf' = Empty
    /\ sock' = 0
    /\ Timers(Forget(StopAll(SetTimer(Tm, "RECONNECT")), {"SENDMOUDLE", "SENDHEART"}))

\* PCT_ReconnectCloud: nothing when a reconnection is already under way.
ReconnectCloud ==
    \/ /\ handle["RECONNECT"] # INVALID
       /\ UNCHANGED <<state, keyRecv, rbuf, timer, handle, sock>>
    \/ /\ handle["RECONNECT"] = INVALID
       /\ state' = "INIT"
       /\ keyRecv' = FALSE
       /\ rbuf' = Empty
       /\ sock' = 0
       /\ Timers(SetTimer(Forget(StopAll(Tm), {"SENDMOUDLE", "SENDHEART"}),
                          "RECONNECT"))

\* The rest of HF_Cloudfunc's loop: close and reconnect when disconnected.
AfterRun ==
    /\ cloudPc.pc = "ran"
    /\ \/ /\ state = "DISCONNECT_CLOUD"
          /\ open' = open \ {cloudPc.fd}
          /\ ReconnectCloud
       \/ /\ state # "DISCONNECT_CLOUD"
          /\ UNCHANGED <<state, keyRecv, rbuf, timer, handle, sock, open>>
    /\ cloudPc' = Idle
    /\ UNCHANGED <<auth, resend, netUp, recvd>>

CloudTask == Run \/ Handle \/ CreateSocket \/ ConnectOk \/ ConnectFail \/ AfterRun

-----------------------------------------------------------------------------
(***************************************************************************)
(* HF_CloudRecvfunc: recv() on the cloud socket, then the use of its       *)
(* result.  Between the two the cloud task and those above it may run.     *)
(***************************************************************************)
\* What the cloud may send: any message, in the handshake with this or another
\* random number; a damaged one is recognised by its CRC first.
Incoming ==
    {m \in Message : /\ m.tag # "stale"
                     /\ m.tag = "other" =>
                          m.crc /\ m.kind \in {"HANDSHAKE_2", "HANDSHAKE_4",
                                                "ACCESS_POINT_RSP"}}

\* Messages arrive while the network is up; the connection may end at any time.
\* recv() on no socket (0 stands for PCT_INVAILD_SOCKET) is an error.
Recv ==
    /\ recvd = Nothing
    /\ CloudBlocked
    /\ state \in Receiving
    /\ recvd' \in IF sock \in open /\ netUp THEN Incoming \cup {Garbled, Closed}
                 ELSE {Closed}
    /\ UNCHANGED <<ctrl, timers, rbuf, conn, netUp, cloudPc>>

\* MSG_RecvDataFromCloud: data for a full buffer is lost; bytes that do not
\* decrypt leave the buffer full and out of the queue.
RecvDataFromCloud ==
    /\ recvd # Nothing
    /\ recvd # Closed
    /\ CloudBlocked
    /\ \/ /\ rbuf = Empty
          /\ rbuf' = IF recvd = Garbled THEN Unqueued ELSE recvd
       \/ /\ rbuf # Empty
          /\ UNCHANGED rbuf
    /\ recvd' = Nothing
    /\ UNCHANGED <<ctrl, timers, conn, netUp, cloudPc>>

RecvClosed ==
    /\ recvd = Closed
    /\ CloudBlocked
    /\ DisConnectCloud
    /\ recvd' = Nothing
    /\ UNCHANGED <<auth, timers, conn, netUp, cloudPc>>

-----------------------------------------------------------------------------
(***************************************************************************)
(* HF_timer_callback: TIMER_TimeoutAction, then TIMER_StopTimer, for a     *)
(* slot whose timer has expired.  (The REGISTER timer is set and stopped   *)
(* inside HF_WakeUp and never expires.)                                    *)
(***************************************************************************)
Expired(s, ty) == TimerTurn /\ timer[s] = ty

MutReconnectTimeout(s) ==
    /\ Expired(s, "RECONNECT")
    /\ Timers(StopTimer(Tm, s))
    /\ state' = "ACCESS_NET"
    /\ UNCHANGED <<keyRecv, auth, rbuf, resend, conn, netUp, cloudPc, recvd>>
ReconnectTimeout(s) ==
    /\ Expired(s, "RECONNECT")
    /\ Timers(StopTimer(Forget(Tm, {"RECONNECT"}), s))
    /\ state' = "ACCESS_NET"
    /\ UNCHANGED <<keyRecv, auth, rbuf, resend, conn, netUp, cloudPc, recvd>>

MutAccessTimeout(s) ==
    /\ Expired(s, "REACCESS")
    /\ state = "WAIT_ACCESSRSP"
    /\ DisConnectCloud
    /\ Timers(StopTimer(Tm, s))
    /\ UNCHANGED <<auth, resend, conn, netUp, cloudPc, recvd>>
AccessTimeout(s) ==
    /\ Expired(s, "REACCESS")
    /\ DisConnectCloud
    /\ Timers(StopTimer(Tm, s))
    /\ UNCHANGED <<auth, resend, conn, netUp, cloudPc, recvd>>

\* PCT_SendMoudleTimeout: give up after MaxResend retransmissions, or send
\* again and set the timer again.
MutGiveUp(num) == num > MaxResend
GiveUp(num) == num + 1 > MaxResend

MutSendMoudleTimeout(s) ==
    /\ Expired(s, "SENDMOUDLE")
    /\ \/ /\ GiveUp(resend)
          /\ Timers(StopTimer(Tm, s))
          /\ resend' = 0
       \/ /\ ~GiveUp(resend)
          /\ Timers(StopTimer(SetTimer(Tm, "SENDMOUDLE"), s))
          /\ resend' = resend + 1
    /\ UNCHANGED <<ctrl, rbuf, conn, netUp, cloudPc, recvd>>
SendMoudleTimeout(s) ==
    /\ Expired(s, "SENDMOUDLE")
    /\ \/ /\ GiveUp(resend)
          /\ Timers(StopTimer(Forget(Tm, {"SENDMOUDLE"}), s))
          /\ resend' = 0
       \/ /\ ~GiveUp(resend)
          /\ Timers(StopTimer(SetTimer(Tm, "SENDMOUDLE"), s))
          /\ resend' = resend + 1
    /\ UNCHANGED <<ctrl, rbuf, conn, netUp, cloudPc, recvd>>

\* PCT_SendHeartMsg.
HeartTimeout(s) ==
    /\ Expired(s, "SENDHEART")
    /\ Timers(StopTimer(SetTimer(Tm, "SENDHEART"), s))
    /\ UNCHANGED <<ctrl, resend, rbuf, conn, netUp, cloudPc, recvd>>

TimerCallback(s) == \/ ReconnectTimeout(s) \/ AccessTimeout(s)
                    \/ SendMoudleTimeout(s) \/ HeartTimeout(s)

-----------------------------------------------------------------------------
(***************************************************************************)
(* The tasks above the cloud task: Wi-Fi events and the device.            *)
(***************************************************************************)
Stale == {s \in Slot : timer[s] = "REACCESS"}

\* HF_WakeUp, on every MSG_NET_UP: after HF_Sleep, or on an agent that is awake
\* when DHCP lost its address and got another one.  PCT_WakeUp sets the register
\* timer in INIT only, and it is stopped at once; no other timer is.
WakeUp ==
    /\ Cardinality(Stale) <= MaxStale
    /\ netUp' = TRUE
    /\ Timers(Cancel(IF state = "INIT" THEN SetTimer(Tm, "REGISTER") ELSE Tm,
                     "REGISTER"))
    /\ state' = "ACCESS_NET"
    /\ cloudPc' = [cloudPc EXCEPT !.reach = cloudPc.pc = "connecting"]
    /\ UNCHANGED <<keyRecv, auth, resend, rbuf, conn, recvd>>

\* HF_Sleep, with PCT_Sleep, on every MSG_NET_DOWN, also of a Wi-Fi that had no
\* address yet: the access timer's handle is not reset.
MutSleep ==
    /\ netUp' = FALSE
    /\ open' = open \ {sock}
    /\ state' = "INIT"
    /\ keyRecv' = FALSE
    /\ rbuf' = Empty
    /\ Timers(Forget(StopAll(Tm), Type \ {"REACCESS"}))
    /\ UNCHANGED <<sock, auth, resend, cloudPc, recvd>>
Sleep ==
    /\ netUp' = FALSE
    /\ open' = open \ {sock}
    /\ sock' = 0
    /\ state' = "INIT"
    /\ keyRecv' = FALSE
    /\ rbuf' = Empty
    /\ Timers(Forget(StopAll(Tm), Type \ {"REACCESS"}))
    /\ UNCHANGED <<auth, resend, cloudPc, recvd>>

\* ZC_RecvDataFromMoudle: a message of the device, an answer or a report.  In
\* any other state the device is only told that there is no connection.
DeviceMessage ==
    /\ state = "CONNECT_CLOUD"
    /\ handle["SENDMOUDLE"] # INVALID
    /\ Timers(Answered(Tm))
    /\ resend' = AnsweredNum(Tm, resend)
    /\ UNCHANGED <<ctrl, rbuf, conn, netUp, cloudPc, recvd>>

-----------------------------------------------------------------------------
\* PCT_Init, and what the linker zeroes: u8AccessTimer is not set by it.
Init ==
    /\ state = "INIT"
    /\ keyRecv = FALSE
    /\ auth = {}
    /\ timer = [s \in Slot |-> "idle"]
    /\ handle = [ty \in Type |-> IF ty = "REACCESS" THEN 0 ELSE INVALID]
    /\ resend = 0
    /\ rbuf = Empty
    /\ sock = 0
    /\ open = {}
    /\ netUp = FALSE
    /\ cloudPc = Idle
    /\ recvd = Nothing

Next ==
    \/ Run \/ Handle \/ CreateSocket \/ ConnectOk \/ ConnectFail \/ AfterRun
    \/ Recv \/ RecvDataFromCloud \/ RecvClosed
    \/ \E s \in Slot : TimerCallback(s)
    \/ WakeUp \/ Sleep \/ DeviceMessage

Spec == Init /\ [][Next]_vars

\* The cloud task keeps being scheduled and connect() returns.  The tasks below
\* it run whenever it sleeps, which it does in every turn, so they run again
\* and again, though not all the time (strong fairness); of the timers of a type
\* that stay set one gets to expire (nothing waits for the heartbeat).
Fairness ==
    /\ WF_vars(CloudTask)
    /\ SF_vars(RecvDataFromCloud \/ RecvClosed)
    /\ SF_vars(\E s \in Slot : ReconnectTimeout(s))
    /\ SF_vars(\E s \in Slot : AccessTimeout(s))
    /\ SF_vars(\E s \in Slot : SendMoudleTimeout(s))

FairSpec == Spec /\ Fairness

-----------------------------------------------------------------------------
(***************************************************************************)
(* Properties.                                                             *)
(***************************************************************************)
\* The variables keep their types; the REGISTER timer is never left running.
TypeOK ==
    /\ state \in State
    /\ keyRecv \in BOOLEAN
    /\ auth \in SUBSET {"key", "peer"}
    /\ timer \in [Slot -> (Type \ {"REGISTER"}) \cup {"idle"}]
    /\ handle \in [Type -> Slot \cup {INVALID}]
    /\ handle["REACCESS"] \in Slot
    /\ handle["REGISTER"] = INVALID
    /\ resend \in 0 .. MaxResend
    /\ rbuf \in Rbuf
    /\ sock \in {0} \cup Sock
    /\ open \in SUBSET Sock
    /\ netUp \in BOOLEAN
    /\ cloudPc \in [pc : {"idle", "resolving", "connecting", "msg1", "msg2",
                          "msg4", "event", "ran"},
                    fd : {0} \cup Sock, new : {0} \cup Sock, reach : BOOLEAN,
                    msg : Recvd]
    /\ recvd \in Recvd

\* The session the agent believes in is this connection's: the key in use came
\* with the random number drawn for it, and once CONNECT_CLOUD is reached the
\* fourth message did too, whatever was received before, timed out or was
\* overtaken in between (PCT_RecvAccessMsg2, PCT_RecvAccessMsg4).
SessionAuthentic ==
    /\ keyRecv \/ state = "WAIT_MSG4" => "key" \in auth
    /\ state = "CONNECT_CLOUD" => auth = {"key", "peer"}

\* u32Socket is never the number of a socket that was closed, which the TCP/IP
\* stack may have given to another user by now: every closesocket() of HF_Sleep,
\* HF_Cloudfunc and HF_ConnectToCloud, in any interleaving, closes a socket that
\* u32Socket does not name afterwards.
SocketUse == sock \in open \cup {0}

\* A slot that is set for the type whose handle points at it.
Armed(ty) == handle[ty] # INVALID /\ timer[handle[ty]] = ty

\* In INIT with the network up only the reconnection timer leads on, and it is
\* running; a handle that says so is never out of date (PCT_ReconnectCloud and
\* PCT_ConnectCloud return early because of it).
ReconnectArmed ==
    /\ state = "INIT" /\ netUp => Armed("RECONNECT")
    /\ handle["RECONNECT"] # INVALID => Armed("RECONNECT")

\* An unfinished handshake has a running access timer, and it is the one that
\* the next message stops (u8AccessTimer is never reset).
HandshakeTimed ==
    state \in {"WAIT_ACCESSRSP", "WAIT_MSG4"} => Armed("REACCESS")

\* A connected agent never loses its heartbeat: PCT_RecvAccessMsg4,
\* PCT_HandleMoudleMsg and the timeout each stop one timer and set another.
HeartAlive == state = "CONNECT_CLOUD" => Armed("SENDHEART")

\* While u8SendMoudleTimer says that an event waits for the device, which makes
\* PCT_HandleEvent leave every further event in the queue, the retransmission
\* timer runs.
EventTimed == handle["SENDMOUDLE"] # INVALID => Armed("SENDMOUDLE")

\* HF_SetTimer, whose error every caller ignores, always finds an idle slot and
\* an OS timer for it, also when Wi-Fi comes up over running timers.
SlotLeft == CanSet(Tm)

\* Every wait of the controller has a running timer of its own, whatever Wi-Fi,
\* late messages and the other tasks do to the handles and to the slots.
TimersSound ==
    SlotLeft /\ ReconnectArmed /\ HandshakeTimed /\ HeartAlive /\ EventTimed

\* A lost connection is followed by a new attempt unless Wi-Fi goes down.
Reconnects ==
    state = "DISCONNECT_CLOUD" ~>
        cloudPc.pc \in {"resolving", "connecting"} \/ ~netUp

\* A handshake ends, in a connection or not, even if the cloud never answers
\* or its answer does not decrypt and blocks the receive buffer.
HandshakeEnds ==
    state \in {"WAIT_ACCESS", "WAIT_ACCESSRSP", "WAIT_MSG4"} ~>
        state \in {"CONNECT_CLOUD", "DISCONNECT_CLOUD", "INIT", "ACCESS_NET"}

\* A message in the receive queue is taken out, even behind an event that the
\* device never answers, or the connection ends (PCT_HandleEvent returns early
\* while u8SendMoudleTimer is set).
EventsDrain ==
    rbuf.kind \in Kinds /\ state \in Receiving ~>
        rbuf = Empty \/ state \notin Receiving
=============================================================================
