------------------------------ MODULE SendPath ------------------------------
(***************************************************************************)
(* The way of a message from the agent to the cloud: PCT_SendMsgToCloud    *)
(* takes an idle send buffer, encrypts into it and queues it, HF_Cloudfunc *)
(* takes one buffer a turn out of the queue and sends it, and MSG_Init,    *)
(* called wherever a connection is given up, resets buffers and queue      *)
(* whatever HF_Cloudfunc is doing with them.  Nothing is locked: what      *)
(* keeps the tasks apart is their priorities (see module Pct), and what    *)
(* repairs the rest is MSG_Init itself.                                    *)
(*                                                                         *)
(* A turn of HF_Cloudfunc is a program, the operations its handler         *)
(* performs; the Wi-Fi task can overtake it between any two of them and    *)
(* between the encryption and the queueing of a message.  The lower tasks  *)
(* run while it is blocked, in its delay, in connect() and in send().      *)
(*                                                                         *)
(* The device task answers inside the call that hands it an event, as its  *)
(* priority is the highest.  (Assumed here: no LAN client that does not    *)
(* take its data blocks it in send() just then.  It would answer later,    *)
(* overtaking HF_Cloudfunc inside PCT_SendMsgToCloud, and both would take  *)
(* the same idle buffer: QueueSound does not hold without the assumption.) *)
(***************************************************************************)
EXTENDS Integers, Sequences, FiniteSets, SequencesExt

CONSTANTS
    NBuf,       \* MSG_BUFFER_SEND_MAX_NUM, which is MSG_QUEUE_MAXLEN
    MaxConn,    \* bound: connections in a behaviour
    MaxMsg      \* bound: messages of a connection

ASSUME NBufAssumption == NBuf \in Nat \ {0}
ASSUME BoundAssumption == MaxConn \in Nat /\ MaxMsg \in Nat

VARIABLES
    state,      \* u8MainState
    keyRecv,    \* u8keyRecv = PCT_KEY_RECVED
    secSwitch,  \* u32SecSwitch (2 differs from 1 for RSA only)
    buf,        \* g_struSendBuffer: what each holds, and whether it is FULL
    queue,      \* g_struSendQueue
    sock,       \* struCloudConnection.u32Socket: its connection, 0 if invalid
    conn,       \* history: connections made so far
    num,        \* history: messages accepted since the last of them
    skipped,    \* history: HF_WakeUp has led an awake agent out of DISCONNECT_CLOUD,
                \* past the PCT_ReconnectCloud due; until the next or HF_Sleep
    alive,      \* the TCP connection still works
    netUp,      \* the agent is awake
    timer,      \* which of the timers that send or disconnect are running:
                \* "stale" are access timers that no handle names any more
    cloud,      \* HF_Cloudfunc: where it is and what is left of its program
    out         \* history: the last message sent over a connection

ctrl == <<state, keyRecv, secSwitch, skipped>>
store == <<buf, queue, num>>
link == <<sock, conn, alive>>
vars == <<ctrl, store, link, netUp, timer, cloud, out>>

Buf == 1 .. NBuf
Message == [conn : 0 .. MaxConn, num : Nat]
Receiving == {"WAIT_ACCESSRSP", "WAIT_MSG4", "CONNECT_CLOUD"}
State == Receiving \cup {"INIT", "ACCESS_NET", "WAIT_ACCESS", "DISCONNECT_CLOUD"}
Op == Receiving \cup {"aes", "rsa", "key", "heart", "device", "disconnect"}

Blank == [full |-> FALSE, msg |-> [conn |-> 0, num |-> 0]]

-----------------------------------------------------------------------------
(***************************************************************************)
(* Buffers and queue, as functions of a record s of both and the count.    *)
(***************************************************************************)
Store == [buf |-> buf, queue |-> queue, num |-> num]
SetStore(s) == buf' = s.buf /\ queue' = s.queue /\ num' = s.num

\* SEC_Encrypt refuses AES as long as there is no key, unless switched off.
Encrypts(alg) == alg = "aes" /\ secSwitch # 0 => keyRecv

IdleBufs(s) == {b \in Buf : ~s.buf[b].full}
FirstIdle(s) == CHOOSE b \in IdleBufs(s) : \A c \in IdleBufs(s) : b <= c

\* The first half of PCT_SendMsgToCloud: the message is in buffer b, which is
\* not marked yet.
Fill(s, b) ==
    [s EXCEPT !.buf[b].msg = [conn |-> conn, num |-> s.num + 1], !.num = @ + 1]

\* The second half, with MSG_PushMsg, whose result is not looked at.
MutEnqueue(s, b) ==
    [s EXCEPT !.buf[b].full = TRUE,
              !.queue = IF Len(@) < NBuf THEN <<b>> \o @ ELSE @]
Enqueue(s, b) ==
    [s EXCEPT !.buf[b].full = TRUE,
              !.queue = IF Len(@) < NBuf THEN Append(@, b) ELSE @]

\* All of it, by a task that the others do not overtake.
SendMsgToCloud(s, alg) ==
    IF IdleBufs(s) = {} \/ ~Encrypts(alg) THEN s
    ELSE LET b == FirstIdle(s) IN Enqueue(Fill(s, b), b)

\* MSG_Init.
MutMsgInit(s) == [s EXCEPT !.buf = [b \in Buf |-> [@[b] EXCEPT !.full = FALSE]]]
MsgInit(s) ==
    [s EXCEPT !.queue = <<>>, !.buf = [b \in Buf |-> [@[b] EXCEPT !.full = FALSE]]]

\* PCT_DisConnectCloud.
DisConnectCloud ==
    /\ state' = "DISCONNECT_CLOUD"
    /\ keyRecv' = FALSE
    /\ SetStore(MsgInit(Store))
    /\ UNCHANGED <<secSwitch, skipped>>

-----------------------------------------------------------------------------
(***************************************************************************)
(* The device: AC_RecvMessage on an event sends one message, or two        *)
(* (AC_DealLed and AC_DealEvent), or an application that knows better      *)
(* none.  PCT_HandleMoudleEvent stops the retransmission.                  *)
(***************************************************************************)
DeviceAnswers(s) ==
    IF state # "CONNECT_CLOUD" THEN {s}
    ELSE {s, SendMsgToCloud(s, "aes"),
          SendMsgToCloud(SendMsgToCloud(s, "aes"), "aes")}

\* The event is handed to the device; tmr is the timers before.
Deliver(tmr) ==
    \E s \in DeviceAnswers(Store) :
        /\ SetStore(s)
        /\ timer' = IF s = Store THEN tmr ELSE tmr \ {"moudle"}

-----------------------------------------------------------------------------
(***************************************************************************)
(* HF_Cloudfunc.                                                           *)
(***************************************************************************)
At(pc) == cloud.pc = pc
Goto(pc) == cloud' = [cloud EXCEPT !.pc = pc]
Idle == [pc |-> "idle", todo |-> <<>>, b |-> 0, fd |-> 0, msg |-> Blank.msg]

\* A message of this connection can have come in.
Online == sock # 0 /\ netUp

\* The operations of the handlers of PCT_Run, for what they may have received:
\* Msg1; Msg2 of this connection and the answer to it, or a refusal; Msg4, a
\* refusal, or another message; in CONNECT_CLOUD a damaged message or TOKEN_SET
\* (two answers), a step of the firmware update (one), an event for the device
\* without or with an empty answer, RESET_NETWORK.
Handlers(st) ==
    CASE st = "WAIT_ACCESS" -> {<<"rsa", "WAIT_ACCESSRSP">>}
      [] st = "WAIT_ACCESSRSP" ->
            {<<"disconnect">>} \cup {t \in {<<"key", "aes", "WAIT_MSG4">>} : Online}
      [] st = "WAIT_MSG4" ->
            {<<"disconnect", "heart">>, <<"heart">>}
            \cup {t \in {<<"CONNECT_CLOUD", "heart">>} : Online}
      [] st = "CONNECT_CLOUD" ->
            {<<"aes", "aes">>, <<"aes">>, <<"device", "heart">>,
             <<"device", "heart", "aes">>, <<"disconnect", "aes", "aes">>}
      [] OTHER -> {}

\* PCT_Run enters a handler with a message to handle; no message is handled
\* while an event waits for the device.
Handle ==
    /\ At("idle")
    /\ state = "WAIT_ACCESS" \/ num + 3 <= MaxMsg
    /\ state = "CONNECT_CLOUD" => "moudle" \notin timer
    /\ \E todo \in Handlers(state) :
          cloud' = [cloud EXCEPT !.pc = "run", !.todo = todo]
    /\ timer' = IF state = "WAIT_ACCESS" THEN timer \ {"reconnect"} ELSE timer
    /\ UNCHANGED <<ctrl, store, link, netUp, out>>

\* PCT_Run has nothing to do.
RunIdle ==
    /\ At("idle")
    /\ state # "WAIT_ACCESS"
    /\ Goto("run")
    /\ UNCHANGED <<ctrl, store, link, netUp, timer, out>>

\* PCT_ConnectCloud, until connect() returns.
ConnectCloud ==
    /\ At("idle")
    /\ state = "ACCESS_NET"
    /\ "reconnect" \notin timer
    /\ conn < MaxConn
    /\ Goto("connecting")
    /\ UNCHANGED <<ctrl, store, link, netUp, timer, out>>

ConnectOk ==
    /\ At("connecting")
    /\ conn' = conn + 1
    /\ sock' = conn + 1
    /\ alive' = TRUE
    /\ num' = 0
    /\ state' = "WAIT_ACCESS"
    /\ keyRecv' = FALSE
    /\ Goto("run")
    /\ UNCHANGED <<secSwitch, skipped, buf, queue, netUp, timer, out>>

ConnectFail ==
    /\ At("connecting")
    /\ Goto("run")
    /\ UNCHANGED <<ctrl, store, link, netUp, timer, out>>

\* The next operation of the program.
Next1 == cloud.todo[1]
Done == cloud' = [cloud EXCEPT !.todo = Tail(@)]
Doing(ops) == At("run") /\ cloud.todo # <<>> /\ Next1 \in ops

\* PCT_SendMsgToCloud fails: no matter but for Msg1.
SendFail ==
    /\ Doing({"aes", "rsa"})
    /\ IdleBufs(Store) = {} \/ ~Encrypts(Next1)
    /\ \/ /\ Next1 = "rsa"
          /\ DisConnectCloud
          /\ cloud' = [cloud EXCEPT !.todo = <<>>]
       \/ /\ Next1 = "aes"
          /\ Done
          /\ UNCHANGED <<ctrl, store>>
    /\ UNCHANGED <<link, netUp, timer, out>>

\* It encrypts into the first idle buffer ...
Encrypt ==
    /\ Doing({"aes", "rsa"})
    /\ IdleBufs(Store) # {} /\ Encrypts(Next1)
    /\ SetStore(Fill(Store, FirstIdle(Store)))
    /\ cloud' = [cloud EXCEPT !.pc = "encrypted", !.b = FirstIdle(Store)]
    /\ UNCHANGED <<ctrl, link, netUp, timer, out>>

\* ... marks it and queues it.
PushMsg ==
    /\ At("encrypted")
    /\ SetStore(Enqueue(Store, cloud.b))
    /\ cloud' = [cloud EXCEPT !.pc = "run", !.todo = Tail(@), !.b = 0]
    /\ UNCHANGED <<ctrl, link, netUp, timer, out>>

\* The state a handler ends in, with the access timer set or stopped.  Setting
\* it loses the handle of the one that runs since before HF_WakeUp.
SetState ==
    /\ Doing(Receiving)
    /\ state' = Next1
    /\ timer' = IF Next1 = "CONNECT_CLOUD" THEN timer \ {"access"}
                ELSE timer \cup {"access"} \cup {"stale" : t \in timer \cap {"access"}}
    /\ Done
    /\ UNCHANGED <<keyRecv, secSwitch, skipped, store, link, netUp, out>>

\* PCT_RecvAccessMsg2 and PCT_SendCloudAccessMsg3 take the key.
TakeKey ==
    /\ Doing({"key"})
    /\ keyRecv' = TRUE
    /\ timer' = timer \ {"access"}
    /\ Done
    /\ UNCHANGED <<state, secSwitch, skipped, store, link, netUp, out>>

\* The heartbeat is restarted.
RestartHeart ==
    /\ Doing({"heart"})
    /\ timer' = timer \cup {"heart"}
    /\ Done
    /\ UNCHANGED <<ctrl, store, link, netUp, out>>

\* PCT_HandleMoudleMsg up to there: the retransmission timer is set first.
HandleMoudleMsg ==
    /\ Doing({"device"})
    /\ Deliver(timer \cup {"moudle"})
    /\ Done
    /\ UNCHANGED <<ctrl, link, netUp, out>>

Refuse ==
    /\ Doing({"disconnect"})
    /\ DisConnectCloud
    /\ timer' = timer \ {"access"}
    /\ Done
    /\ UNCHANGED <<link, netUp, out>>

\* HF_Cloudfunc after PCT_Run.  In DISCONNECT_CLOUD: close, and
\* PCT_ReconnectCloud, with the MSG_Init it starts with.  (It does nothing when
\* the reconnection timer is running, which in DISCONNECT_CLOUD it is not: Msg1
\* stops it.)
MutReconnectCloud ==
    /\ At("run") /\ cloud.todo = <<>>
    /\ state = "DISCONNECT_CLOUD"
    /\ "reconnect" \notin timer
    /\ state' = "INIT"
    /\ keyRecv' = FALSE
    /\ sock' = 0
    /\ alive' = FALSE
    /\ timer' = {"reconnect"}
    /\ cloud' = Idle
    /\ skipped' = FALSE
    /\ UNCHANGED <<secSwitch, store, conn, netUp, out>>
ReconnectCloud ==
    /\ At("run") /\ cloud.todo = <<>>
    /\ state = "DISCONNECT_CLOUD"
    /\ "reconnect" \notin timer
    /\ SetStore(MsgInit(Store))
    /\ state' = "INIT"
    /\ keyRecv' = FALSE
    /\ sock' = 0
    /\ alive' = FALSE
    /\ timer' = {"reconnect"}
    /\ cloud' = Idle
    /\ skipped' = FALSE
    /\ UNCHANGED <<secSwitch, conn, netUp, out>>

\* Otherwise MSG_SendDataToCloud: pop one message ...
PopMsg ==
    /\ At("run") /\ cloud.todo = <<>>
    /\ state # "DISCONNECT_CLOUD"
    /\ \/ /\ queue = <<>>
          /\ cloud' = Idle
          /\ UNCHANGED queue
       \/ /\ queue # <<>>
          /\ cloud' = [cloud EXCEPT !.pc = "popped", !.b = Head(queue)]
          /\ queue' = Tail(queue)
    /\ UNCHANGED <<ctrl, buf, num, link, netUp, timer, out>>

\* Freed when it is taken out of the queue.
MutStartSend ==
    /\ At("popped")
    /\ cloud' = [cloud EXCEPT !.pc = "sending", !.fd = sock, !.msg = buf[cloud.b].msg]
    /\ buf' = [buf EXCEPT ![cloud.b].full = FALSE]
    /\ UNCHANGED <<ctrl, queue, num, link, netUp, timer, out>>

\* ... hand it to send() on the socket of that moment ...
StartSend ==
    /\ At("popped")
    /\ cloud' = [cloud EXCEPT !.pc = "sending", !.fd = sock, !.msg = buf[cloud.b].msg]
    /\ UNCHANGED <<ctrl, store, link, netUp, timer, out>>

\* ... and when that returns, sent or not, free the buffer.
MutSendDone ==
    /\ At("sending")
    /\ out' = IF cloud.fd # 0 /\ cloud.fd = conn /\ alive
              THEN [fd |-> cloud.fd, msg |-> cloud.msg] ELSE out
    /\ buf' = [buf EXCEPT ![cloud.b].full = out' = out]
    /\ cloud' = Idle
    /\ UNCHANGED <<ctrl, queue, num, link, netUp, timer>>
SendDone ==
    /\ At("sending")
    /\ out' = IF cloud.fd # 0 /\ cloud.fd = conn /\ alive
              THEN [fd |-> cloud.fd, msg |-> cloud.msg] ELSE out
    /\ buf' = [buf EXCEPT ![cloud.b].full = FALSE]
    /\ cloud' = Idle
    /\ UNCHANGED <<ctrl, queue, num, link, netUp, timer>>

CloudTask ==
    \/ Handle \/ RunIdle \/ ConnectCloud \/ ConnectOk \/ ConnectFail
    \/ SendFail \/ Encrypt \/ PushMsg \/ SetState \/ TakeKey \/ RestartHeart
    \/ HandleMoudleMsg \/ Refuse \/ ReconnectCloud
    \/ PopMsg \/ StartSend \/ SendDone

-----------------------------------------------------------------------------
(***************************************************************************)
(* The tasks below it, while it is blocked.                                *)
(***************************************************************************)
\* send() on the invalid socket returns at once.
Blocked == At("idle") \/ At("connecting") \/ (At("sending") /\ cloud.fd # 0)

\* HF_CloudRecvfunc finds the connection closed.
RecvClosed ==
    /\ Blocked
    /\ state \in Receiving
    /\ DisConnectCloud
    /\ UNCHANGED <<link, netUp, timer, cloud, out>>

\* HF_timer_callback.
Expired(ty) == Blocked /\ ty \in timer

ReconnectTimeout ==
    /\ Expired("reconnect")
    /\ state' = "ACCESS_NET"
    /\ timer' = timer \ {"reconnect"}
    /\ UNCHANGED <<keyRecv, secSwitch, skipped, store, link, netUp, cloud, out>>

\* (There may be several stale ones.)
AccessTimeout(ty) ==
    /\ Expired(ty)
    /\ DisConnectCloud
    /\ timer' \in {timer \ {ty}} \cup {timer : t \in {ty} \cap {"stale"}}
    /\ UNCHANGED <<link, netUp, cloud, out>>

HeartTimeout ==
    /\ Expired("heart")
    /\ num < MaxMsg
    /\ SetStore(SendMsgToCloud(Store, "aes"))
    /\ UNCHANGED <<ctrl, link, netUp, timer, cloud, out>>

\* PCT_SendMoudleTimeout: give up and tell the cloud, or send the event again.
MoudleTimeout ==
    /\ Expired("moudle")
    /\ num + 2 <= MaxMsg
    /\ \/ /\ SetStore(SendMsgToCloud(Store, "aes"))
          /\ timer' = timer \ {"moudle"}
       \/ Deliver(timer)
    /\ UNCHANGED <<ctrl, link, netUp, cloud, out>>

-----------------------------------------------------------------------------
(***************************************************************************)
(* The Wi-Fi task, above it, at any time; and the network.                 *)
(***************************************************************************)
\* HF_WakeUp, on every MSG_NET_UP, of an agent that is awake, too: DHCP has lost
\* its address and got another one.  The socket stays until the next connection
\* overwrites it, and neither MSG_Init nor a stop of the timers comes with it.
WakeUp ==
    /\ netUp' = TRUE
    /\ state' = "ACCESS_NET"
    /\ skipped' = (skipped \/ (netUp /\ state = "DISCONNECT_CLOUD"))
    /\ UNCHANGED <<keyRecv, secSwitch, store, link, timer, cloud, out>>

\* HF_Sleep, on every MSG_NET_DOWN.
Sleep ==
    /\ netUp' = FALSE
    /\ sock' = 0
    /\ alive' = FALSE
    /\ SetStore(MsgInit(Store))
    /\ state' = "INIT"
    /\ keyRecv' = FALSE
    /\ timer' = {}
    /\ skipped' = FALSE
    /\ UNCHANGED <<secSwitch, conn, cloud, out>>

ConnectionBreaks ==
    /\ alive
    /\ alive' = FALSE
    /\ UNCHANGED <<ctrl, store, sock, conn, netUp, timer, cloud, out>>

-----------------------------------------------------------------------------
Init ==
    /\ state = "INIT"
    /\ keyRecv = FALSE
    /\ secSwitch \in 0 .. 1
    /\ skipped = FALSE
    /\ buf = [b \in Buf |-> Blank]
    /\ queue = <<>>
    /\ sock = 0 /\ conn = 0 /\ num = 0
    /\ alive = FALSE
    /\ netUp = FALSE
    /\ timer = {}
    /\ cloud = Idle
    /\ out = [fd |-> 0, msg |-> Blank.msg]

Next ==
    \/ CloudTask
    \/ RecvClosed \/ ReconnectTimeout \/ HeartTimeout \/ MoudleTimeout
    \/ \E ty \in {"access", "stale"} : AccessTimeout(ty)
    \/ WakeUp \/ Sleep \/ ConnectionBreaks

\* HF_Cloudfunc is scheduled again and again, and send() and connect() return.
Spec == Init /\ [][Next]_vars /\ WF_vars(CloudTask)

-----------------------------------------------------------------------------
(***************************************************************************)
(* Properties.                                                             *)
(***************************************************************************)
\* The variables keep their types.
TypeOK ==
    /\ state \in State
    /\ keyRecv \in BOOLEAN
    /\ secSwitch \in 0 .. 1
    /\ skipped \in BOOLEAN
    /\ \A b \in Buf : buf[b].full \in BOOLEAN /\ buf[b].msg \in Message
    /\ queue \in Seq(Buf) /\ Len(queue) <= NBuf
    /\ sock \in {0, conn}
    /\ conn \in 0 .. MaxConn
    /\ num \in Nat
    /\ timer \subseteq {"reconnect", "access", "stale", "heart", "moudle"}
    /\ cloud.pc \in {"idle", "run", "encrypted", "connecting", "popped", "sending"}
    /\ cloud.todo \in Seq(Op)

\* While a connection is not being given up, no buffer is queued twice and a
\* queued one is marked FULL, so that no other message can be built in it, and
\* MSG_PushMsg, whose result PCT_SendMsgToCloud ignores, never refuses one.  In
\* DISCONNECT_CLOUD it can happen: MSG_Init freed the buffer that send() works
\* on, a heartbeat took and queued it, the end of the send marked it idle
\* (MSG_SendDataToCloud) and another message takes it.  PCT_ReconnectCloud, or
\* HF_Sleep, repairs it; what HF_WakeUp takes past them is excepted.
InUse == state # "DISCONNECT_CLOUD" /\ ~skipped
QueueSound ==
    InUse =>
        /\ IsInjective(queue)
        /\ \A i \in DOMAIN queue : buf[queue[i]].full

\* And no send buffer leaks: a FULL one is queued or being sent.
FullQueued ==
    InUse =>
        \A b \in Buf : buf[b].full =>
            \/ \E i \in DOMAIN queue : queue[i] = b
            \/ cloud.pc \in {"popped", "sending"} /\ cloud.b = b

\* Buffers and queue fit together whenever a message can be made or sent: each
\* FULL buffer has one place, whatever MSG_Init and the tasks do in between.
BuffersSound == TypeOK /\ QueueSound /\ FullQueued

\* The bytes that send() is working on do not change while the connection they
\* are for is in use, though other tasks fill buffers meanwhile.
SendStable ==
    At("sending") /\ cloud.fd # 0 /\ cloud.fd = sock
        /\ InUse => buf[cloud.b].msg = cloud.msg

\* Once a connection has carried its first message, Msg1, it carries only
\* messages made for it.  What a handler that HF_Sleep overtook, or a timer it
\* set afterwards, left in the queue goes to the invalid socket or ahead of
\* Msg1, never into the session.  (Excepted as above: Msg1 may take a buffer that
\* is still queued, ahead of messages of the old connection.)
NoStaleMessage ==
    [][out' # out /\ out.fd = out'.fd /\ out.msg.conn = out.fd /\ ~skipped =>
         out'.msg.conn = out'.fd]_vars

\* On one connection every message that PCT_SendMsgToCloud accepted is sent, in
\* the order in which they were accepted, and once.
InOrder ==
    [][out' # out /\ out'.msg.conn = out'.fd /\ ~skipped =>
         out'.msg.num = 1 + (IF out.fd = out'.fd /\ out.msg.conn = out.fd
                             THEN out.msg.num ELSE 0)]_vars

\* A send buffer is freed again: HF_Cloudfunc sends one a turn in every state, or
\* a reset frees it.  (Excepted as above: MSG_PushMsg then refuses a buffer, as one
\* that is queued twice takes its place, and no turn of HF_Cloudfunc frees it.)
BufferFreed ==
    \A b \in Buf : buf[b].full ~> ~buf[b].full \/ skipped
=============================================================================
