--------------------------- MODULE ClientManager ----------------------------
(***************************************************************************)
(* Clients of the local network: zc_client_manager.c, and the part of      *)
(* HF_CloudRecvfunc that listens, accepts and receives.  The receive task  *)
(* has the lowest priority but one, so the Wi-Fi task (HF_Sleep, HF_WakeUp)*)
(* and the cloud task (MSG_Init) may run between any two of its steps; a   *)
(* call is split where it takes longest: after listen(), after recv(),     *)
(* after accept(), and while a client's message is decrypted and handed to *)
(* the device.                                                             *)
(*                                                                         *)
(* A socket is a number.  FirstFd is the stack's socket 0, which           *)
(* u32ClientBusyId names at the start because it is zero; NoFd is          *)
(* PCT_INVAILD_SOCKET and also what accept() returns on an error,          *)
(* 0xFFFFFFFF in both cases.  The client buffer is framed as in            *)
(* RecvFramer; here only whose bytes it holds matters.                     *)
(***************************************************************************)
EXTENDS Naturals

CONSTANTS
    NClient,     \* ZC_MAX_CLIENT_NUM
    NFd          \* bound: sockets of the stack that clients may use

ASSUME NClientAssumption == NClient \in Nat \ {0}
ASSUME NFdAssumption == NFd \in Nat \ {0}

VARIABLES
    cstate,     \* u8ClientStates
    busy,       \* u32ClientBusyId
    used,       \* slots whose u32ClientVaildFlag is ZC_CLIENT_INVAILD_FLAG
    fds,        \* u32ClientFd
    listen,     \* struClientConnection.u32Socket
    from,       \* the clients whose bytes are in g_struClientBuffer
    task,       \* where the receive task is
    open,       \* external: the sockets that are open in the stack
    netUp,      \* external: the last word of Wi-Fi was NET_UP
    mainInit    \* u8MainState = PCT_STATE_INIT

vars == <<cstate, busy, used, fds, listen, from, task, open, netUp, mainInit>>

NoFd == 0
FirstFd == 1
Fd == FirstFd .. NFd
Slot == 1 .. NClient
ClientState == {"INIT", "WAKEUP", "IDLE", "BUSY"}

\* The owner of bytes that nobody will complete: of a client that was lost in the
\* middle of its message, or from before PCT_WakeUp took the client manager out
\* of its state.
Gone == NFd + 1

\* What recv() may return: a piece that leaves the message incomplete, one that
\* completes it, one with a header that announces too much, or no data.
Piece == {"part", "last", "toolong", "closed"}

At(pc) == [pc |-> pc, fd |-> NoFd, slot |-> 1, piece |-> "closed"]

-----------------------------------------------------------------------------
\* HF_ListenClient: socket(), bind() and listen().  While another socket listens
\* on the port bind() fails and the new one is closed: nothing changes.
ListenOpen ==
    /\ task.pc = "idle"
    /\ cstate = "WAKEUP"
    /\ listen = NoFd
    /\ \E fd \in Fd \ open :
          /\ open' = open \cup {fd}
          /\ task' = [At("listen") EXCEPT !.fd = fd]
    /\ UNCHANGED <<cstate, busy, used, fds, listen, from, netUp, mainInit>>

\* HF_ListenClient returns, and ZC_StartClientListen sets the state.
StartClientListen ==
    /\ task.pc = "listen"
    /\ listen' = task.fd
    /\ cstate' = "IDLE"
    /\ task' = At("idle")
    /\ UNCHANGED <<busy, used, fds, from, open, netUp, mainInit>>

\* recv() on the socket of a client that select() reports.  A slot with NoFd can
\* only give an error.
ClientRecv(i) ==
    /\ task.pc = "idle"
    /\ i \in used
    /\ \E p \in Piece :
          /\ fds[i] = NoFd => p = "closed"
          /\ task' = [At("got") EXCEPT !.slot = i, !.piece = p]
    /\ UNCHANGED <<cstate, busy, used, fds, listen, from, open, netUp, mainInit>>

\* The client may send, or is the one that was served last.  u32ClientBusyId has
\* eight bits, so PCT_INVAILD_SOCKET never equals it.
MutCheckClientIdle(fd) == fd # NoFd
CheckClientIdle(fd) == cstate = "IDLE" \/ (fd = busy /\ fd # NoFd)

\* ZC_RecvDataFromClient refuses a second client with ZC_CODE_ERR.
ClientRefused ==
    /\ task.pc = "got"
    /\ task.piece # "closed"
    /\ ~CheckClientIdle(fds[task.slot])
    /\ task' = At("idle")
    /\ UNCHANGED <<cstate, busy, used, fds, listen, from, open, netUp, mainInit>>

\* ZC_RecvDataFromClient as far as MSG_RecvData; a header that announces too much
\* empties the buffer and leaves the client busy.
ClientData ==
    LET c == fds[task.slot]
    IN /\ task.pc = "got"
       /\ task.piece # "closed"
       /\ CheckClientIdle(c)
       /\ cstate' = "BUSY"
       /\ busy' = c
       /\ from' = IF task.piece = "toolong" THEN {} ELSE from \cup {c}
       /\ task' = IF task.piece = "last" THEN At("full") ELSE At("idle")
       /\ UNCHANGED <<used, fds, listen, open, netUp, mainInit>>

\* The rest of ZC_RecvDataFromClient: the message goes to the device (or is
\* dropped), the buffer and the client manager are idle.
ClientMessage ==
    /\ task.pc = "full"
    /\ from' = {}
    /\ cstate' = "IDLE"
    /\ task' = At("idle")
    /\ UNCHANGED <<busy, used, fds, listen, open, netUp, mainInit>>

\* ZC_ClientDisconnect and closesocket(): every slot with the same number is
\* free, and a busy client is no longer served.
ClientClosed ==
    LET c == fds[task.slot]
    IN /\ task.pc = "got"
       /\ task.piece = "closed"
       /\ used' = used \ {i \in Slot : fds[i] = c}
       /\ cstate' = IF cstate = "BUSY" /\ busy = c THEN "IDLE" ELSE cstate
       /\ from' = IF c \in from THEN (from \ {c}) \cup {Gone} ELSE from
       /\ open' = open \ {c}
       /\ task' = At("idle")
       /\ UNCHANGED <<busy, fds, listen, netUp, mainInit>>

\* accept(): a new socket, or an error.
Accept ==
    /\ task.pc = "idle"
    /\ listen # NoFd
    /\ \E fd \in (Fd \ open) \cup {NoFd} :
          /\ open' = open \cup ({fd} \ {NoFd})
          /\ task' = [At("accepted") EXCEPT !.fd = fd]
    /\ UNCHANGED <<cstate, busy, used, fds, listen, from, netUp, mainInit>>

\* ZC_ClientConnect takes the first free slot; without one the socket is closed.
ClientConnect ==
    /\ task.pc = "accepted"
    /\ \/ \E i \in Slot \ used :
             /\ \A j \in Slot : j < i => j \in used
             /\ used' = used \cup {i}
             /\ fds' = [fds EXCEPT ![i] = task.fd]
             /\ UNCHANGED open
       \/ /\ used = Slot
          /\ open' = open \ {task.fd}
          /\ UNCHANGED <<used, fds>>
    /\ task' = At("idle")
    /\ UNCHANGED <<cstate, busy, listen, from, netUp, mainInit>>

RecvTask ==
    \/ ListenOpen \/ StartClientListen
    \/ \E i \in Slot : ClientRecv(i)
    \/ ClientRefused \/ ClientData \/ ClientMessage \/ ClientClosed
    \/ Accept \/ ClientConnect

-----------------------------------------------------------------------------
\* MSG_Init, when the cloud task loses or renews its connection.
BuffersInit ==
    /\ from' = {}
    /\ UNCHANGED <<cstate, busy, used, fds, listen, task, open, netUp, mainInit>>

\* MSG_NET_DOWN, of an agent that is awake or not: HF_Sleep closes the listener
\* and the clients that are in a slot; PCT_Sleep clears the buffers, and
\* ZC_ClientSleep the slots.
MutSleep ==
    /\ open' = open \ {fds[i] : i \in used}
    /\ listen' = NoFd
    /\ fds' = [i \in Slot |-> IF i \in used THEN NoFd ELSE fds[i]]
    /\ used' = {}
    /\ cstate' = "INIT"
    /\ from' = {}
    /\ netUp' = FALSE
    /\ mainInit' = TRUE
    /\ UNCHANGED <<busy, task>>
Sleep ==
    /\ open' = open \ ({listen} \cup {fds[i] : i \in used})
    /\ listen' = NoFd
    /\ fds' = [i \in Slot |-> IF i \in used THEN NoFd ELSE fds[i]]
    /\ used' = {}
    /\ cstate' = "INIT"
    /\ from' = {}
    /\ netUp' = FALSE
    /\ mainInit' = TRUE
    /\ UNCHANGED <<busy, task>>

\* PCT_ReconnectCloud puts the controller into PCT_STATE_INIT until the
\* reconnection timer takes it out again; so does the cloud task that was in
\* PCT_SendCloudAccessMsg1 when Wi-Fi went down.
EnterInit ==
    /\ ~mainInit
    /\ mainInit' = TRUE
    /\ UNCHANGED <<cstate, busy, used, fds, listen, from, task, open, netUp>>

LeaveInit ==
    /\ mainInit
    /\ mainInit' = FALSE
    /\ UNCHANGED <<cstate, busy, used, fds, listen, from, task, open, netUp>>

\* MSG_NET_UP, of an agent that is asleep or not: PCT_WakeUp wakes the client
\* manager in PCT_STATE_INIT only, whatever it is doing.
WakeUp ==
    /\ cstate' = IF mainInit THEN "WAKEUP" ELSE cstate
    /\ from' = IF mainInit THEN {Gone : c \in from} ELSE from
    /\ netUp' = TRUE
    /\ mainInit' = FALSE
    /\ UNCHANGED <<busy, used, fds, listen, task, open>>

Init ==
    /\ cstate = "INIT"
    /\ busy = FirstFd
    /\ used = {}
    /\ fds = [i \in Slot |-> NoFd]
    /\ listen = NoFd
    /\ from = {}
    /\ task = At("idle")
    /\ open = {}
    /\ netUp = FALSE
    /\ mainInit = TRUE

Next == RecvTask \/ BuffersInit \/ Sleep \/ EnterInit \/ LeaveInit \/ WakeUp

Spec == Init /\ [][Next]_vars

-----------------------------------------------------------------------------
\* The fields of ZC_ClientInfo and of the receive task.
TypeOK ==
    /\ cstate \in ClientState
    /\ busy \in Fd \cup {NoFd}
    /\ used \subseteq Slot
    /\ fds \in [Slot -> Fd \cup {NoFd}]
    /\ listen \in Fd \cup {NoFd}
    /\ from \subseteq Fd \cup {Gone}
    /\ task \in [pc : {"idle", "listen", "got", "full", "accepted"},
                 fd : Fd \cup {NoFd}, slot : Slot, piece : Piece]
    /\ open \subseteq Fd
    /\ netUp \in BOOLEAN
    /\ mainInit \in BOOLEAN

\* The sockets that the client manager still knows: in a slot, listening, or in
\* the hands of the receive task.
Known ==
    ({fds[i] : i \in used} \cup {listen, task.fd}) \ {NoFd}

\* No two of them have the same socket.
OneOwner ==
    /\ \A i, j \in used : fds[i] = fds[j] => i = j \/ fds[i] = NoFd
    /\ \A i \in used : fds[i] = listen => listen = NoFd
    /\ \A i \in used : fds[i] = task.fd => task.fd = NoFd
    /\ listen = task.fd => listen = NoFd

\* No socket is lost and none is used after it was closed: however Wi-Fi comes,
\* goes, or comes again between listen(), accept(), recv() and what follows, the open
\* sockets are those that the agent will close, and each has one owner.
SocketsAccounted == open = Known /\ OneOwner

\* While a client's message is put together nobody else's bytes get into it,
\* except those left over by a client that was lost in the middle of its own or
\* from before PCT_WakeUp, which forgets who was busy but empties no buffer.
OneSender ==
    from \ {Gone} \subseteq IF cstate = "BUSY" THEN {busy} ELSE {}

\* "change status to idle, wait accept and recv" (zc_client_manager.c:159): an
\* idle client manager waits for clients on a listening socket.
IdleListens == netUp /\ cstate = "IDLE" => listen # NoFd
=============================================================================
