------------------------ MODULE ClientManagerProofs -------------------------
(***************************************************************************)
(* For any number of client slots and sockets: the client manager loses no *)
(* socket, and uses none that is closed, whatever the Wi-Fi task and the   *)
(* cloud task do between the steps of the receive task.                    *)
(***************************************************************************)
EXTENDS ClientManager, TLAPS

\* Where the receive task holds a socket that is in no slot yet, and that it is
\* only about to listen when nobody listens.
TaskHolds ==
    /\ task.pc \in {"idle", "got", "full"} => task.fd = NoFd
    /\ task.pc = "listen" => listen = NoFd /\ task.fd # NoFd

\* A client's data is not used after HF_Sleep has closed its socket: the client
\* manager is no longer idle then.  Nor is another socket closed in its place: the
\* slot that was read still has the client, or no socket.
GotLive ==
    task.pc = "got" =>
        /\ task.slot \in used \/ fds[task.slot] = NoFd
        /\ task.piece # "closed" /\ fds[task.slot] = NoFd => cstate # "IDLE"

IInv == TypeOK /\ SocketsAccounted /\ TaskHolds /\ GotLive

TaskRec == [pc : {"idle", "listen", "got", "full", "accepted"},
            fd : Fd \cup {NoFd}, slot : Slot, piece : Piece]

USE NClientAssumption, NFdAssumption

\* A task record that names no socket.
LEMMA AtType ==
    ASSUME NEW pc \in {"idle", "listen", "got", "full", "accepted"}
    PROVE  /\ At(pc) \in TaskRec /\ At(pc).fd = NoFd /\ At(pc).pc = pc
BY DEF At, TaskRec, Slot, Piece

\* One that names socket fd.
LEMMA AtFd ==
    ASSUME NEW pc \in {"listen", "accepted"}, NEW fd \in Fd \cup {NoFd},
           NEW t, t = [At(pc) EXCEPT !.fd = fd]
    PROVE  t \in TaskRec /\ t.fd = fd /\ t.pc = pc
BY DEF At, TaskRec, Slot, Piece

\* One that has a piece from a slot.
LEMMA AtGot ==
    ASSUME NEW i \in Slot, NEW p \in Piece,
           NEW t, t = [At("got") EXCEPT !.slot = i, !.piece = p]
    PROVE  t \in TaskRec /\ t.fd = NoFd /\ t.pc = "got"
BY DEF At, TaskRec, Slot, Piece

\* NoFd is not the number of a socket.
LEMMA FdFacts == NoFd \notin Fd /\ FirstFd \in Fd
BY DEF NoFd, Fd, FirstFd

\* The client manager starts without sockets.
LEMMA InitIInv == Init => IInv
BY AtType, FdFacts
   DEF Init, IInv, TypeOK, SocketsAccounted, TaskHolds, GotLive, Known,
       OneOwner, ClientState, TaskRec

\* The steps that change no socket and no slot.
LEMMA QuietStep ==
    ASSUME IInv, UNCHANGED <<used, fds, listen, open>>,
           task' \in TaskRec, task'.fd = task.fd,
           task'.pc \in {"idle", "got", "full"} \/ task'.pc = task.pc,
           task'.pc # task.pc => task.fd = NoFd
    PROVE  SocketsAccounted' /\ TaskHolds'
BY FdFacts DEF IInv, SocketsAccounted, TaskHolds, Known, OneOwner

-----------------------------------------------------------------------------
\* A new socket goes to the listener that was being opened.
LEMMA ListenKeeps == IInv /\ (ListenOpen \/ StartClientListen) => IInv'
<1> SUFFICES ASSUME IInv, ListenOpen \/ StartClientListen PROVE IInv'
  OBVIOUS
<1>1. CASE ListenOpen
  <2>1. PICK fd \in Fd \ open : /\ open' = open \cup {fd}
                                /\ task' = [At("listen") EXCEPT !.fd = fd]
    BY <1>1 DEF ListenOpen
  <2>2. task' \in TaskRec /\ task'.fd = fd /\ task'.pc = "listen"
    BY <2>1, AtFd
  <2>3. UNCHANGED <<cstate, busy, used, fds, listen, from, netUp, mainInit>>
        /\ listen = NoFd /\ task.fd = NoFd
    BY <1>1 DEF ListenOpen, IInv, TaskHolds
  <2>4. TypeOK'
    BY <2>1, <2>2, <2>3 DEF IInv, TypeOK, TaskRec
  <2>5. \A i \in used : fds[i] # fd
    BY <2>1, FdFacts DEF IInv, SocketsAccounted, Known
  <2>6. SocketsAccounted' /\ TaskHolds'
    BY <2>1, <2>2, <2>3, <2>5, FdFacts
       DEF IInv, SocketsAccounted, Known, OneOwner, TaskHolds
  <2> QED
    BY <2>2, <2>4, <2>6 DEF IInv, GotLive
<1>2. CASE StartClientListen
  <2>1. /\ task.pc = "listen" /\ listen = NoFd /\ task.fd # NoFd
        /\ listen' = task.fd /\ cstate' = "IDLE" /\ task' = At("idle")
        /\ UNCHANGED <<busy, used, fds, from, open, netUp, mainInit>>
    BY <1>2 DEF StartClientListen, IInv, TaskHolds
  <2>2. task' \in TaskRec /\ task'.fd = NoFd /\ task'.pc = "idle"
    BY <2>1, AtType
  <2>3. TypeOK'
    BY <2>1, <2>2 DEF IInv, TypeOK, TaskRec, ClientState
  <2>4. SocketsAccounted' /\ TaskHolds'
    BY <2>1, <2>2, FdFacts
       DEF IInv, SocketsAccounted, Known, OneOwner, TaskHolds
  <2> QED
    BY <2>2, <2>3, <2>4 DEF IInv, GotLive
<1> QED
  BY <1>1, <1>2

\* The receive task reads from a client; no socket changes hands.
LEMMA DataKeeps ==
    IInv /\ ((\E i \in Slot : ClientRecv(i)) \/ ClientRefused \/ ClientData
             \/ ClientMessage) => IInv'
<1> SUFFICES ASSUME IInv,
                    \/ \E i \in Slot : ClientRecv(i)
                    \/ ClientRefused \/ ClientData \/ ClientMessage
             PROVE  IInv'
  OBVIOUS
<1>1. task.pc \in {"idle", "got", "full"} /\ task.fd = NoFd
  BY DEF ClientRecv, ClientRefused, ClientData, ClientMessage, IInv, TaskHolds
<1>2. task' \in TaskRec /\ task'.fd = NoFd /\ task'.pc \in {"idle", "got", "full"}
  <2>1. CASE \E i \in Slot : ClientRecv(i)
    <3>1. PICK i \in Slot, q \in Piece :
                 task' = [At("got") EXCEPT !.slot = i, !.piece = q]
      BY <2>1 DEF ClientRecv
    <3> QED
      BY <3>1, AtGot
  <2>2. CASE ClientRefused \/ ClientData \/ ClientMessage
    <3>1. task' = At("idle") \/ task' = At("full")
      BY <2>2 DEF ClientRefused, ClientData, ClientMessage
    <3> QED
      BY <3>1, AtType
  <2> QED
    BY <2>1, <2>2
<1>3. UNCHANGED <<used, fds, listen, open, netUp, mainInit>>
  BY DEF ClientRecv, ClientRefused, ClientData, ClientMessage
<1>4. /\ cstate' \in ClientState /\ busy' \in Fd \cup {NoFd}
      /\ from' \subseteq Fd \cup {Gone}
  <2>1. CASE (\E i \in Slot : ClientRecv(i)) \/ ClientRefused
    BY <2>1 DEF ClientRecv, ClientRefused, IInv, TypeOK
  <2>2. CASE ClientMessage
    BY <2>2 DEF ClientMessage, IInv, TypeOK, ClientState
  <2>3. CASE ClientData
    <3>1. fds[task.slot] \in Fd \cup {NoFd}
      BY DEF IInv, TypeOK
    <3>2. fds[task.slot] \in Fd
      BY <2>3, <3>1 DEF ClientData, CheckClientIdle, IInv, GotLive
    <3> QED
      BY <2>3, <3>2 DEF ClientData, IInv, TypeOK, ClientState
  <2> QED
    BY <2>1, <2>2, <2>3
<1>5. TypeOK'
  BY <1>2, <1>3, <1>4 DEF IInv, TypeOK, TaskRec
<1>6. SocketsAccounted' /\ TaskHolds'
  BY <1>1, <1>2, <1>3, QuietStep
<1>7. GotLive'
  <2>1. CASE \E i \in Slot : ClientRecv(i)
    <3>1. PICK i \in Slot, q \in Piece :
                 /\ i \in used
                 /\ fds[i] = NoFd => q = "closed"
                 /\ task' = [At("got") EXCEPT !.slot = i, !.piece = q]
      BY <2>1 DEF ClientRecv
    <3>2. task'.slot = i /\ task'.piece = q
      BY <3>1 DEF At
    <3> QED
      BY <1>3, <3>1, <3>2 DEF GotLive
  <2>2. CASE ClientRefused \/ ClientData \/ ClientMessage
    <3>1. task' = At("idle") \/ task' = At("full")
      BY <2>2 DEF ClientRefused, ClientData, ClientMessage
    <3> QED
      BY <3>1, AtType DEF GotLive
  <2> QED
    BY <2>1, <2>2
<1> QED
  BY <1>5, <1>6, <1>7 DEF IInv

\* A client is gone, and with its slot its socket.
LEMMA ClosedKeeps == IInv /\ ClientClosed => IInv'
<1> SUFFICES ASSUME IInv, ClientClosed PROVE IInv'
  OBVIOUS
<1> DEFINE c == fds[task.slot]
<1>1. /\ task.pc = "got" /\ task.fd = NoFd /\ task' = At("idle")
      /\ used' = used \ {i \in Slot : fds[i] = c}
      /\ open' = open \ {c}
      /\ cstate' \in {cstate, "IDLE"}
      /\ from' \subseteq from \cup {Gone}
      /\ UNCHANGED <<busy, fds, listen, netUp, mainInit>>
  BY DEF ClientClosed, IInv, TaskHolds
<1>2. task' \in TaskRec /\ task'.fd = NoFd /\ task'.pc = "idle"
  BY <1>1, AtType
<1>3. TypeOK'
  BY <1>1, <1>2 DEF IInv, TypeOK, TaskRec, ClientState
<1>4. c = NoFd \/ c # listen
  BY <1>1 DEF IInv, GotLive, SocketsAccounted, OneOwner
<1>5. SocketsAccounted' /\ TaskHolds'
  BY <1>1, <1>2, <1>4, FdFacts
     DEF IInv, TypeOK, SocketsAccounted, Known, OneOwner, TaskHolds
<1> QED
  BY <1>2, <1>3, <1>5 DEF IInv, GotLive

\* A new client gets a free slot, or its socket is closed again.
LEMMA AcceptKeeps == IInv /\ (Accept \/ ClientConnect) => IInv'
<1> SUFFICES ASSUME IInv, Accept \/ ClientConnect PROVE IInv'
  OBVIOUS
<1>1. CASE Accept
  <2>1. PICK fd \in (Fd \ open) \cup {NoFd} :
              /\ open' = open \cup ({fd} \ {NoFd})
              /\ task' = [At("accepted") EXCEPT !.fd = fd]
    BY <1>1 DEF Accept
  <2>2. task' \in TaskRec /\ task'.fd = fd /\ task'.pc = "accepted"
    BY <2>1, AtFd
  <2>3. UNCHANGED <<cstate, busy, used, fds, listen, from, netUp, mainInit>>
        /\ task.fd = NoFd
    BY <1>1 DEF Accept, IInv, TaskHolds
  <2>4. TypeOK'
    BY <2>1, <2>2, <2>3 DEF IInv, TypeOK, TaskRec
  <2>5. fd = NoFd \/ (fd # listen /\ \A i \in used : fds[i] # fd)
    BY <2>1, FdFacts DEF IInv, SocketsAccounted, Known
  <2>6. SocketsAccounted' /\ TaskHolds'
    BY <2>1, <2>2, <2>3, <2>5, FdFacts
       DEF IInv, SocketsAccounted, Known, OneOwner, TaskHolds
  <2> QED
    BY <2>2, <2>4, <2>6 DEF IInv, GotLive
<1>2. CASE ClientConnect
  <2>1. /\ task.pc = "accepted" /\ task' = At("idle")
        /\ UNCHANGED <<cstate, busy, listen, from, netUp, mainInit>>
    BY <1>2 DEF ClientConnect
  <2>2. task' \in TaskRec /\ task'.fd = NoFd /\ task'.pc = "idle"
    BY <2>1, AtType
  <2>3. task.fd \in Fd \cup {NoFd} /\ fds \in [Slot -> Fd \cup {NoFd}]
        /\ used \subseteq Slot
    BY DEF IInv, TypeOK
  <2>4. CASE \E i \in Slot \ used : /\ used' = used \cup {i}
                                    /\ fds' = [fds EXCEPT ![i] = task.fd]
                                    /\ UNCHANGED open
    <3>1. PICK i \in Slot \ used : /\ used' = used \cup {i}
                                   /\ fds' = [fds EXCEPT ![i] = task.fd]
                                   /\ UNCHANGED open
      BY <2>4
    <3>2. fds' \in [Slot -> Fd \cup {NoFd}] /\ fds'[i] = task.fd
          /\ \A j \in used : fds'[j] = fds[j]
      BY <2>3, <3>1
    <3>3. TypeOK'
      BY <2>1, <2>2, <3>1, <3>2 DEF IInv, TypeOK, TaskRec
    <3>4. Known' = Known
      BY <2>1, <2>2, <3>1, <3>2 DEF Known
    <3>5. OneOwner'
      BY <2>1, <2>2, <3>1, <3>2 DEF IInv, SocketsAccounted, OneOwner
    <3> QED
      BY <2>2, <3>1, <3>3, <3>4, <3>5 DEF IInv, SocketsAccounted, TaskHolds, GotLive
  <2>5. CASE open' = open \ {task.fd} /\ UNCHANGED <<used, fds>>
    <3>1. TypeOK'
      BY <2>1, <2>2, <2>5 DEF IInv, TypeOK, TaskRec
    <3>2. SocketsAccounted'
      BY <2>1, <2>2, <2>5, FdFacts DEF IInv, SocketsAccounted, Known, OneOwner
    <3> QED
      BY <2>2, <3>1, <3>2 DEF IInv, TaskHolds, GotLive
  <2> QED
    BY <1>2, <2>4, <2>5 DEF ClientConnect
<1> QED
  BY <1>1, <1>2

\* The other tasks, at any moment of the receive task.
LEMMA OthersKeep == IInv /\ (BuffersInit \/ Sleep \/ EnterInit \/ LeaveInit \/ WakeUp) => IInv'
<1> SUFFICES ASSUME IInv, BuffersInit \/ Sleep \/ EnterInit \/ LeaveInit \/ WakeUp PROVE IInv'
  OBVIOUS
<1>1. task \in TaskRec
  BY DEF IInv, TypeOK, TaskRec
<1>2. CASE BuffersInit \/ EnterInit \/ LeaveInit \/ WakeUp
  <2>1. /\ UNCHANGED <<busy, used, fds, listen, task, open>>
        /\ cstate' \in {cstate, "WAKEUP"}
        /\ from' \subseteq from \cup {Gone}
        /\ netUp' \in BOOLEAN /\ mainInit' \in BOOLEAN
    BY <1>2 DEF BuffersInit, EnterInit, LeaveInit, WakeUp, IInv, TypeOK
  <2>2. TypeOK'
    BY <2>1 DEF IInv, TypeOK, ClientState
  <2>3. SocketsAccounted' /\ TaskHolds' /\ GotLive'
    BY <2>1 DEF IInv, SocketsAccounted, TaskHolds, GotLive, Known, OneOwner
  <2> QED
    BY <2>2, <2>3 DEF IInv
<1>3. CASE Sleep
  <2>1. /\ open' = open \ ({listen} \cup {fds[i] : i \in used})
        /\ listen' = NoFd
        /\ fds' = [i \in Slot |-> IF i \in used THEN NoFd ELSE fds[i]]
        /\ used' = {} /\ cstate' = "INIT" /\ from' = {}
        /\ netUp' = FALSE /\ mainInit' = TRUE /\ UNCHANGED <<busy, task>>
    BY <1>3 DEF Sleep
  <2>2. fds' \in [Slot -> Fd \cup {NoFd}]
    BY <2>1 DEF IInv, TypeOK
  <2>3. TypeOK'
    BY <2>1, <2>2 DEF IInv, TypeOK, ClientState
  <2>4. SocketsAccounted' /\ TaskHolds'
    BY <2>1, FdFacts DEF IInv, SocketsAccounted, Known, OneOwner, TaskHolds
  <2>5. GotLive'
    BY <1>1, <2>1 DEF IInv, GotLive, TypeOK, TaskRec
  <2> QED
    BY <2>3, <2>4, <2>5 DEF IInv
<1> QED
  BY <1>2, <1>3

\* In every reachable state the open sockets of the clients and of the listener
\* are those that the agent knows, and each has one owner.
THEOREM NoSocketLost == Spec => [](TypeOK /\ SocketsAccounted)
<1>1. Init => IInv
  BY InitIInv
<1>2. IInv /\ [Next]_vars => IInv'
  <2>1. IInv /\ UNCHANGED vars => IInv'
    BY DEF IInv, TypeOK, SocketsAccounted, TaskHolds, GotLive, Known, OneOwner, vars
  <2> QED
    BY <2>1, ListenKeeps, DataKeeps, ClosedKeeps, AcceptKeeps, OthersKeep
       DEF Next, RecvTask
<1>3. IInv => TypeOK /\ SocketsAccounted
  BY DEF IInv
<1> QED
  BY <1>1, <1>2, <1>3, PTL DEF Spec

-----------------------------------------------------------------------------
\* The receive task opens a listener only while nobody is served.
ListenFree == task.pc = "listen" => cstate # "BUSY"

\* The bytes in the client buffer have one owner, the client that is served.
THEOREM BufferHasOneSender == Spec => []OneSender
<1> DEFINE J == OneSender /\ ListenFree
<1>1. Init => J
  BY AtType DEF Init, OneSender, ListenFree
<1>2. J /\ [Next]_vars => J'
  <2> SUFFICES ASSUME J, [Next]_vars PROVE J'
    OBVIOUS
  <2>1. CASE ListenOpen
    <3>1. /\ cstate = "WAKEUP" /\ UNCHANGED <<cstate, busy, from>>
      BY <2>1 DEF ListenOpen
    <3> QED
      BY <3>1 DEF OneSender, ListenFree
  <2>2. CASE StartClientListen
    <3>1. task.pc = "listen" /\ task' = At("idle") /\ UNCHANGED <<busy, from>>
          /\ cstate' = "IDLE"
      BY <2>2 DEF StartClientListen
    <3> QED
      BY <3>1, AtType DEF OneSender, ListenFree
  <2>3. CASE \E i \in Slot : ClientRecv(i)
    <3>1. PICK i \in Slot, q \in Piece :
                 /\ task' = [At("got") EXCEPT !.slot = i, !.piece = q]
                 /\ UNCHANGED <<cstate, busy, from>>
      BY <2>3 DEF ClientRecv
    <3>2. task'.pc = "got"
      BY <3>1, AtGot
    <3> QED
      BY <3>1, <3>2 DEF OneSender, ListenFree
  <2>4. CASE ClientRefused
    BY <2>4, AtType DEF ClientRefused, OneSender, ListenFree
  <2>5. CASE ClientData
    <3> DEFINE c == fds[task.slot]
    <3>1. /\ CheckClientIdle(c) /\ cstate' = "BUSY" /\ busy' = c
          /\ from' = {} \/ from' = from \cup {c}
          /\ task' = At("full") \/ task' = At("idle")
      BY <2>5 DEF ClientData
    <3>2. from \ {Gone} \subseteq {c}
      BY <3>1 DEF CheckClientIdle, OneSender
    <3> QED
      BY <3>1, <3>2, AtType DEF OneSender, ListenFree
  <2>6. CASE ClientMessage
    BY <2>6, AtType DEF ClientMessage, OneSender, ListenFree
  <2>7. CASE ClientClosed
    <3> DEFINE c == fds[task.slot]
    <3>1. /\ cstate' = IF cstate = "BUSY" /\ busy = c THEN "IDLE" ELSE cstate
          /\ from' = IF c \in from THEN (from \ {c}) \cup {Gone} ELSE from
          /\ task' = At("idle") /\ busy' = busy
      BY <2>7 DEF ClientClosed
    <3>2. task'.pc = "idle"
      BY <3>1, AtType
    <3> HIDE DEF c
    <3> QED
      BY <3>1, <3>2 DEF OneSender, ListenFree
  <2>8. CASE Accept
    <3>1. PICK fd \in Fd \cup {NoFd} :
                 /\ task' = [At("accepted") EXCEPT !.fd = fd]
                 /\ UNCHANGED <<cstate, busy, from>>
      BY <2>8 DEF Accept
    <3>2. task'.pc = "accepted"
      BY <3>1, AtFd
    <3> QED
      BY <3>1, <3>2 DEF OneSender, ListenFree
  <2>9. CASE ClientConnect
    BY <2>9, AtType DEF ClientConnect, OneSender, ListenFree
  <2>10. CASE BuffersInit
    BY <2>10 DEF BuffersInit, OneSender, ListenFree
  <2>11. CASE Sleep
    BY <2>11 DEF Sleep, OneSender, ListenFree
  <2>12. CASE EnterInit \/ LeaveInit
    BY <2>12 DEF EnterInit, LeaveInit, OneSender, ListenFree
  <2>13. CASE WakeUp
    BY <2>13 DEF WakeUp, OneSender, ListenFree
  <2>14. CASE UNCHANGED vars
    BY <2>14 DEF vars, OneSender, ListenFree
  <2> QED
    BY <2>1, <2>2, <2>3, <2>4, <2>5, <2>6, <2>7, <2>8, <2>9, <2>10, <2>11,
       <2>12, <2>13, <2>14 DEF Next, RecvTask
<1>3. J => OneSender
  OBVIOUS
<1> HIDE DEF J
<1> QED
  BY <1>1, <1>2, <1>3, PTL DEF Spec

=============================================================================
