------------------------------- MODULE NetLink -------------------------------
(***************************************************************************)
(* How the module gets onto the network and how its application is told:   *)
(* the events of the Wi-Fi driver (ethernet.c), the system task that acts  *)
(* on them (tls_sys.c), the DHCP client of lwIP (dhcp.c), which runs in the*)
(* TCP/IP thread, and the user task (user_main.c), which wakes the cloud   *)
(* connection up and puts it to sleep.                                     *)
(*                                                                         *)
(* The Wi-Fi task, the system task, the TCP/IP thread and the user task    *)
(* interleave.  The system task calls lwIP through netifapi: each call is  *)
(* carried out by the TCP/IP thread and is a step.  A Wi-Fi event is told  *)
(* to the system task first and to the user task in a later step.          *)
(*                                                                         *)
(* Transaction identifiers are random in this build; two of them are taken *)
(* to differ, so that an answer to an earlier one, which dhcp_recv drops,  *)
(* is gone when a new one is drawn.  How long a timeout lasts is left      *)
(* open: for a retransmission because its length only grows with the       *)
(* tries, for T1 and T2 because their counters wrap.  netif_set_link_up is *)
(* called nowhere, so that the REBOOTING state is never entered, and the   *)
(* ARP check is compiled out.  The user task switches the automatic        *)
(* reconnection on, and nothing in the repository sets its temporary off.  *)
(***************************************************************************)
EXTENDS Integers, Sequences, SequencesExt

CONSTANTS
    QLen,       \* bound: messages in a queue (both hold 20)
    TryMod,     \* 2^8, where tries wraps
    ReqTries,   \* 5, requests repeated before the offer is given up
    RebindTries \* 8, the same when rebinding

ASSUME NetLinkBounds ==
    /\ QLen \in Nat \ {0} /\ TryMod \in Nat \ {0}
    /\ ReqTries \in 0 .. TryMod - 2
    /\ RebindTries \in 0 .. TryMod - 2

VARIABLES
    wifi,       \* "lost", "joining" or "joined"
    event,      \* the Wi-Fi event the user task has not been told of, or "none"
    oneshot,    \* the one-shot configuration is under way
    useDhcp,    \* dhcp_enable of the stored parameters
    sysQ,       \* msg_queue
    sysPc,      \* where tls_sys_task is
    nif,        \* the interface: NETIF_FLAG_UP and its address
    dhcp,       \* the DHCP client, see Fresh
    userQ,      \* gsUserTaskQueue
    awake       \* HF_WakeUp was called after the last HF_Sleep

link == <<wifi, event, oneshot, useDhcp>>
sys == <<sysQ, sysPc>>
lwip == <<nif, dhcp>>
user == <<userQ, awake>>
vars == <<link, sys, lwip, user>>

NoAddr == "0"

\* The structure after the memset of dhcp_start; the state of a client that
\* does not exist yet is "none".
Fresh == [
    state   |-> "off",
    tries   |-> 0,
    timer   |-> FALSE,      \* request_timeout is not zero
    offered |-> NoAddr,     \* offered_ip_addr
    asked   |-> {},         \* requests of this transaction the server got
    inbox   |-> {},         \* answers to it in the mailbox of lwIP
    deaf    |-> FALSE]      \* an offer without server id was the last event

\* tls_os_queue_send
Room(q) == Len(q) < QLen

-----------------------------------------------------------------------------
\* dhcp.c: what the functions make of the client.  A message is created by
\* dhcp_create_msg, which draws a new transaction identifier for the first
\* try.  One that cannot be allocated counts as a message lost on the way.

NewXid(d) == d.tries = 0

dhcp_set_state(d, s) ==
    IF d.state = s THEN d ELSE [d EXCEPT !.state = s, !.tries = 0, !.timer = FALSE]

\* Sends message m, counts the try and sets request_timeout.
Transmit(d, m) ==
    [d EXCEPT !.asked = IF wifi = "joined" THEN {m} ELSE IF NewXid(d) THEN {} ELSE @,
              !.inbox = IF NewXid(d) THEN {} ELSE @,
              !.tries = (@ + 1) % TryMod,
              !.timer = TRUE,
              !.deaf = FALSE]

dhcp_discover(d) ==
    Transmit([dhcp_set_state(d, "selecting") EXCEPT !.offered = NoAddr], "DISCOVER")

dhcp_select(d) == Transmit(dhcp_set_state(d, "requesting"), "REQUEST")
dhcp_renew(d) == Transmit(dhcp_set_state(d, "renewing"), "REQUEST")
dhcp_rebind(d) == Transmit(dhcp_set_state(d, "rebinding"), "REQUEST")

dhcp_release(d) ==
    Transmit([dhcp_set_state(d, "off") EXCEPT !.offered = NoAddr], "RELEASE")

-----------------------------------------------------------------------------
\* netif.c and the status callbacks of ethernet.c

\* netif_set_up calls netif_status_changed if the interface was down, and that
\* tells the user task.
BringUp(addr) ==
    /\ nif' = [up |-> TRUE, ip |-> addr]
    /\ IF nif.up THEN UNCHANGED userQ
       ELSE Room(userQ) /\ userQ' = Append(userQ, "NET_UP")

\* netif_set_down and the removal of the address: netif_status_changed tells
\* nobody of an interface that is down.
TakeDown == nif' = [up |-> FALSE, ip |-> NoAddr] /\ UNCHANGED userQ

-----------------------------------------------------------------------------
\* The TCP/IP thread

\* dhcp_fine_tmr, when request_timeout runs out: dhcp_timeout.
TimeoutSelecting ==
    /\ dhcp.state = "selecting"
    /\ dhcp' = dhcp_discover([dhcp EXCEPT !.timer = FALSE])
    /\ UNCHANGED <<nif, userQ>>

TimeoutRequesting ==
    /\ dhcp.state = "requesting"
    /\ dhcp.tries <= ReqTries
    /\ dhcp' = dhcp_select([dhcp EXCEPT !.timer = FALSE])
    /\ UNCHANGED <<nif, userQ>>

TimeoutRenewing ==
    /\ dhcp.state = "renewing"
    /\ dhcp' = dhcp_renew([dhcp EXCEPT !.timer = FALSE])
    /\ UNCHANGED <<nif, userQ>>

TimeoutRebinding ==
    /\ dhcp.state = "rebinding"
    /\ dhcp.tries <= RebindTries
    /\ dhcp' = dhcp_rebind([dhcp EXCEPT !.timer = FALSE])
    /\ UNCHANGED <<nif, userQ>>

\* Retried for ever.
MutGiveUp ==
    /\ \/ dhcp.state = "requesting" /\ dhcp.tries > ReqTries
       \/ dhcp.state = "rebinding" /\ dhcp.tries > RebindTries
    /\ dhcp' = Transmit([dhcp EXCEPT !.timer = FALSE], "REQUEST")
    /\ UNCHANGED <<nif, userQ>>

\* dhcp_release and dhcp_discover.
GiveUp ==
    /\ \/ dhcp.state = "requesting" /\ dhcp.tries > ReqTries
       \/ dhcp.state = "rebinding" /\ dhcp.tries > RebindTries
    /\ dhcp' = dhcp_discover(dhcp_release(dhcp))
    /\ TakeDown

dhcp_fine_tmr ==
    /\ dhcp.timer
    /\ TimeoutSelecting \/ TimeoutRequesting \/ TimeoutRenewing
        \/ TimeoutRebinding \/ GiveUp
    /\ UNCHANGED <<link, sys, awake>>

\* dhcp_coarse_tmr: t1_timeout and t2_timeout run in every state and wrap at
\* zero, so that each is one time and again, whether the lease set it or not.
dhcp_t1_timeout ==
    /\ dhcp.state \in {"requesting", "bound", "renewing"}
    /\ dhcp' = dhcp_renew(dhcp)
    /\ UNCHANGED <<link, sys, nif, user>>

dhcp_t2_timeout ==
    /\ dhcp.state \in {"requesting", "bound", "renewing"}
    /\ dhcp' = dhcp_rebind(dhcp)
    /\ UNCHANGED <<link, sys, nif, user>>

\* The states that wait for the answer to a request.
Requesting == {"requesting", "rebinding", "renewing"}

\* dhcp_recv of an offer: without a server id the client only forgets its
\* timeout.
RecvOffer(d, r) ==
    /\ d.state = "selecting"
    /\ dhcp' = IF r.good THEN dhcp_select([d EXCEPT !.offered = "a", !.timer = FALSE])
               ELSE [d EXCEPT !.timer = FALSE, !.deaf = TRUE]
    /\ UNCHANGED <<nif, userQ>>

\* dhcp_bind
RecvAck(d) ==
    /\ d.state \in Requesting
    /\ \E addr \in {IF d.state = "requesting" THEN "a" ELSE d.offered} :
          /\ dhcp' = dhcp_set_state([d EXCEPT !.offered = addr], "bound")
          /\ BringUp(addr)

\* The interface stays up.
MutRecvNak(d) ==
    /\ d.state \in Requesting
    /\ dhcp' = dhcp_discover(dhcp_set_state(d, "backing_off"))
    /\ nif' = [nif EXCEPT !.ip = NoAddr]
    /\ UNCHANGED userQ

RecvNak(d) ==
    /\ d.state \in Requesting
    /\ dhcp' = dhcp_discover(dhcp_set_state(d, "backing_off"))
    /\ TakeDown

\* An answer the state has no use for is dropped.
Useless(d, r) ==
    /\ d.state \notin (IF r.type = "OFFER" THEN {"selecting"} ELSE Requesting)
    /\ dhcp' = d
    /\ UNCHANGED <<nif, userQ>>

dhcp_recv(r) ==
    /\ \E d \in {[dhcp EXCEPT !.inbox = {}]} :
          \/ Useless(d, r)
          \/ r.type = "ACK" /\ RecvAck(d)
          \/ r.type = "OFFER" /\ RecvOffer(d, r)
          \/ r.type = "NAK" /\ RecvNak(d)
    /\ UNCHANGED <<link, sys, awake>>

-----------------------------------------------------------------------------
\* tls_sys_task

Received(q, pc) ==
    /\ sysPc' = pc
    /\ sysQ' = Tail(q)
    /\ UNCHANGED <<link, lwip, user>>

tls_sys_task ==
    /\ sysPc = "idle"
    /\ sysQ # << >>
    /\ CASE Head(sysQ) = "NET_UP" -> Received(sysQ, IF useDhcp THEN "set_addr" ELSE "dhcp_stop")
         [] Head(sysQ) = "NET_DOWN" -> Received(sysQ, "set_down")
         [] OTHER -> Received(sysQ, "delay")    \* CONNECT_FAILED, AUTO_MODE_RUN

\* sys_net_up with DHCP: the address is removed,
SetAddr ==
    /\ sysPc = "set_addr"
    /\ nif' = [nif EXCEPT !.ip = NoAddr]
    /\ sysPc' = "clear_up"
    /\ UNCHANGED <<link, sysQ, dhcp, user>>

\* The flag stays set.
MutClearUp ==
    /\ sysPc = "clear_up"
    /\ sysPc' = "dhcp_start"
    /\ UNCHANGED <<link, sysQ, nif, dhcp, user>>

\* tls_dhcp_start clears the flag behind the back of netif_set_down, so that
\* the next lease is announced,
ClearUp ==
    /\ sysPc = "clear_up"
    /\ nif' = [nif EXCEPT !.up = FALSE]
    /\ sysPc' = "dhcp_start"
    /\ UNCHANGED <<link, sysQ, dhcp, user>>

\* and dhcp_start begins anew; if it cannot send, dhcp_stop turns it off, and
\* nobody tries again before the next join.
dhcp_start ==
    /\ sysPc = "dhcp_start"
    /\ sysPc' = "idle"
    /\ \/ dhcp' = dhcp_discover(Fresh)
       \/ dhcp' = Fresh
       \/ dhcp.state = "none" /\ dhcp' = dhcp
    /\ UNCHANGED <<link, sysQ, nif, user>>

\* sys_net_up with a stored address.
dhcp_stop ==
    /\ sysPc = "dhcp_stop"
    /\ sysPc' = "set_static"
    /\ dhcp' = IF dhcp.state = "none" THEN dhcp
               ELSE [dhcp_set_state(dhcp, "off") EXCEPT !.asked = {}, !.inbox = {}, !.deaf = FALSE]
    /\ UNCHANGED <<link, sysQ, nif, user>>

SetStatic ==
    /\ sysPc = "set_static"
    /\ sysPc' = "set_up"
    /\ nif' = [nif EXCEPT !.ip = "static"]
    /\ UNCHANGED <<link, sysQ, dhcp, user>>

SetUp ==
    /\ sysPc = "set_up"
    /\ sysPc' = "idle"
    /\ BringUp(nif.ip)
    /\ UNCHANGED <<link, sysQ, dhcp, awake>>

\* sys_net_down: the DHCP client goes on.
SetDown ==
    /\ sysPc = "set_down"
    /\ sysPc' = "delay"
    /\ nif' = [nif EXCEPT !.up = FALSE]
    /\ UNCHANGED <<link, sysQ, dhcp, user>>

\* Nothing is reconnected.
MutAutoReconnect ==
    /\ sysPc = "delay"
    /\ sysPc' = "idle"
    /\ UNCHANGED <<link, sysQ, lwip, user>>

\* tls_auto_reconnect, after its delay.
AutoReconnect ==
    /\ sysPc = "delay"
    /\ sysPc' = "idle"
    /\ wifi' = IF ~oneshot /\ wifi = "lost" THEN "joining" ELSE wifi
    /\ UNCHANGED <<event, oneshot, useDhcp, sysQ, lwip, user>>

SysTask ==
    \/ tls_sys_task \/ SetAddr \/ ClearUp \/ dhcp_start
    \/ dhcp_stop \/ SetStatic \/ SetUp \/ SetDown \/ AutoReconnect

-----------------------------------------------------------------------------
\* The Wi-Fi driver and the supplicant (external); wifi_status_changed tells
\* the system task and then the user task.

Tell(m) ==
    /\ Room(sysQ)
    /\ sysQ' = Append(sysQ, m)

JoinOk ==
    /\ event = "none"
    /\ wifi = "joining"
    /\ wifi' = "joined"
    /\ Tell("NET_UP")
    /\ UNCHANGED <<event, oneshot, useDhcp, sysPc, lwip, user>>

JoinFails ==
    /\ event = "none"
    /\ wifi = "joining"
    /\ wifi' = "lost"
    /\ Tell("CONNECT_FAILED")
    /\ UNCHANGED <<event, oneshot, useDhcp, sysPc, lwip, user>>

\* The network is lost.
Disconnect ==
    /\ event = "none"
    /\ wifi = "joined"
    /\ wifi' = "lost"
    /\ event' = "NET_DOWN"
    /\ Tell("NET_DOWN")
    /\ UNCHANGED <<oneshot, useDhcp, sysPc, lwip, user>>

\* UserWlanStatusChangedEvent, the last of the callbacks.
TellUser ==
    /\ event # "none"
    /\ event' = "none"
    /\ Room(userQ)
    /\ userQ' = Append(userQ, event)
    /\ UNCHANGED <<wifi, oneshot, useDhcp, sys, lwip, awake>>

\* A command, or the end of the one-shot configuration, connects.
Connect ==
    /\ wifi = "lost"
    /\ wifi' = "joining"
    /\ oneshot' = FALSE
    /\ UNCHANGED <<event, useDhcp, sys, lwip, user>>

\* The server answers a request it got, in time or late, or not at all.
Reply(m, r) ==
    /\ wifi = "joined"
    /\ m \in dhcp.asked
    /\ dhcp.inbox = {}
    /\ dhcp' = [dhcp EXCEPT !.inbox = {r}]
    /\ UNCHANGED <<link, sys, nif, user>>

ReplyOffer(good) == Reply("DISCOVER", [type |-> "OFFER", good |-> good])
ReplyAck == Reply("REQUEST", [type |-> "ACK"])
ReplyNak == Reply("REQUEST", [type |-> "NAK"])

-----------------------------------------------------------------------------
\* UserTaskProc

UserTask ==
    /\ userQ # << >>
    /\ userQ' = Tail(userQ)
    /\ awake' = (Head(userQ) = "NET_UP")    \* HF_WakeUp or HF_Sleep
    /\ UNCHANGED <<link, sys, lwip>>

\* MSG_ONESHOT: the button starts the one-shot configuration.
Oneshot ==
    /\ ~oneshot
    /\ oneshot' = TRUE
    /\ UNCHANGED <<wifi, event, useDhcp, sys, lwip, user>>

\* wm_main starts everything and sends AUTO_MODE_RUN.
Init ==
    /\ wifi = "lost" /\ event = "none" /\ oneshot = FALSE
    /\ useDhcp \in BOOLEAN
    /\ sysQ = <<"AUTO_MODE_RUN">> /\ sysPc = "idle"
    /\ nif = [up |-> FALSE, ip |-> NoAddr]
    /\ dhcp = [Fresh EXCEPT !.state = "none"]
    /\ userQ = << >> /\ awake = FALSE

Next ==
    \/ dhcp_fine_tmr
    \/ dhcp_t1_timeout \/ dhcp_t2_timeout
    \/ \E r \in dhcp.inbox : dhcp_recv(r)
    \/ SysTask \/ UserTask \/ Oneshot
    \/ JoinOk \/ JoinFails \/ Disconnect \/ TellUser \/ Connect
    \/ \E good \in BOOLEAN : ReplyOffer(good)
    \/ ReplyAck \/ ReplyNak

\* An answer that starts or ends a negotiation is taken.
TakeOffer ==
    \E r \in dhcp.inbox : r.type = "OFFER" /\ r.good /\ dhcp_recv(r) /\ dhcp'.state = "requesting"
TakeAck == \E r \in dhcp.inbox : r.type = "ACK" /\ dhcp_recv(r) /\ dhcp'.state = "bound"

\* The tasks run and the timers of lwIP tick.  The server answers now and then,
\* and now and then the answer is taken from the mailbox before the timeout,
\* which is a thousand times longer, begins a new transaction.
Fairness ==
    /\ WF_vars(SysTask) /\ WF_vars(UserTask) /\ WF_vars(TellUser)
    /\ WF_vars(dhcp_fine_tmr) /\ WF_vars(dhcp_t2_timeout)
    /\ WF_vars(\E r \in dhcp.inbox : dhcp_recv(r))
    /\ SF_vars(ReplyOffer(TRUE)) /\ SF_vars(TakeOffer)
    /\ SF_vars(ReplyAck) /\ SF_vars(TakeAck)

Spec == Init /\ [][Next]_vars /\ Fairness

-----------------------------------------------------------------------------
\* Properties

Replies ==
    [type : {"OFFER"}, good : BOOLEAN] \cup [type : {"ACK", "NAK"}]
States == {"none", "off", "selecting", "requesting", "bound", "renewing", "rebinding"}

\* The types: tries stays in its eight bits, and no state but these is rested
\* in (BACKING_OFF is left at once).
TypeOK ==
    /\ wifi \in {"lost", "joining", "joined"}
    /\ event \in {"none", "NET_DOWN"}
    /\ oneshot \in BOOLEAN /\ useDhcp \in BOOLEAN
    /\ sysQ \in BoundedSeq({"NET_UP", "NET_DOWN", "CONNECT_FAILED", "AUTO_MODE_RUN"}, QLen)
    /\ sysPc \in {"idle", "set_addr", "clear_up", "dhcp_start", "dhcp_stop",
                  "set_static", "set_up", "set_down", "delay"}
    /\ nif \in [up : BOOLEAN, ip : {NoAddr, "a", "static"}]
    /\ dhcp \in [state : States, tries : 0 .. TryMod - 1, timer : BOOLEAN,
                offered : {NoAddr, "a"}, deaf : BOOLEAN,
                asked : SUBSET {"DISCOVER", "REQUEST"},
                inbox : {{}} \cup {{r} : r \in Replies}]
    /\ userQ \in BoundedSeq({"NET_UP", "NET_DOWN"}, QLen)
    /\ awake \in BOOLEAN

\* The interface is never up without an address, whatever NAK, release, late
\* ACK or new join comes in between, except for the moment between the two
\* calls of sys_net_up that remove the address and clear the flag.
UpHasAddr == (nif.up /\ sysPc # "clear_up") => nif.ip # NoAddr

\* The DHCP client never stops trying by itself: while it waits for an answer
\* its timeout is armed.  The one exception is an offer without a server id,
\* after which dhcp_recv leaves it waiting for ever.
TriesOn ==
    dhcp.state \in {"selecting", "requesting", "renewing", "rebinding"} =>
        (dhcp.timer \/ dhcp.deaf)

\* Interface and DHCP client fit together, in whatever state a loss, a NAK or an
\* expired lease meets them.
LinkSound == TypeOK /\ UpHasAddr /\ TriesOn

\* What the user task will believe when it has read its queue.
Believes == IF userQ = << >> THEN awake ELSE Last(userQ) = "NET_UP"

\* No wake-up is lost between the four tasks: once the system task has dealt
\* with a join and the interface is up, the user task has been told after the
\* last time it was told of a disconnection.
UserTold ==
    (nif.up /\ wifi = "joined" /\ sysQ = << >> /\ sysPc = "idle") => Believes

\* If the Wi-Fi stays, the cloud connection is woken up and stays so, and the
\* interface comes up again whenever a NAK or a release took it down, unless
\* dhcp_start failed or an offer had no server id.
ComesUp ==
    <>[](wifi = "joined") =>
        (<>[]awake /\ []<>nif.up) \/ <>[](useDhcp /\ (dhcp.state \in {"none", "off"} \/ dhcp.deaf))

\* A network that is lost, or could not be joined, is tried again, unless the
\* one-shot configuration is under way.
Rejoins == wifi = "lost" ~> (wifi # "lost" \/ oneshot)

\* A lease the server no longer confirms is not kept for ever: renewing ends in
\* rebinding, and that in the release of the address.
LeaseEnds ==
    []<>(dhcp.state \notin {"bound", "renewing", "rebinding"})
        \/ []<>(\E r \in dhcp.inbox : r.type = "ACK")
=============================================================================
