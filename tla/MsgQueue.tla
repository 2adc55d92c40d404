------------------------------ MODULE MsgQueue ------------------------------
(***************************************************************************)
(* The ring of message pointers of zc_message_queue.c: MSG_QUEUE_MAXLEN+1  *)
(* nodes, each linked to the one before it, a head and a tail pointer.     *)
(* Nodes are named by their index in struQueue.  Each operation is one     *)
(* step: module Pct is about the tasks that share the queues.              *)
(***************************************************************************)
EXTENDS Naturals, Sequences

CONSTANTS
    N,      \* MSG_QUEUE_MAXLEN
    Msg,    \* message pointers that are pushed
    NULL    \* the null pointer

ASSUME NAssumption == N \in Nat \ {0}
ASSUME MsgAssumption == NULL \notin Msg

VARIABLES
    link,   \* struQueue[i].pstruNext
    slot,   \* struQueue[i].pu8Msg
    head,   \* pstruHead
    tail,   \* pstruTail
    result  \* what the last operation returned

queueVars == <<link, slot, head, tail, result>>

Node == 0 .. N

-----------------------------------------------------------------------------
\* MSG_InitQueue: node 0 points to the last node, every other one to the one
\* before it.
RingLink == [i \in Node |-> IF i = 0 THEN N ELSE i - 1]

QueueInit ==
    /\ link = RingLink
    /\ slot = [i \in Node |-> NULL]
    /\ head = 0
    /\ tail = 0
    /\ result = "none"

InitQueue ==
    /\ link' = RingLink
    /\ slot' = [i \in Node |-> NULL]
    /\ head' = 0
    /\ tail' = 0
    /\ result' = "none"

\* A push that tests for a full ring only at the wrap, as an index
\* comparison would.
MutQueueFull == tail = N /\ head = N - 1

QueueFull == link[tail] = head

\* MSG_PushMsg: refused when the node after the tail is the head.
PushMsg(m) ==
    \/ /\ QueueFull
       /\ result' = "ZC_RET_ERROR"
       /\ UNCHANGED <<link, slot, head, tail>>
    \/ /\ ~QueueFull
       /\ slot' = [slot EXCEPT ![tail] = m]
       /\ tail' = link[tail]
       /\ result' = "ZC_RET_OK"
       /\ UNCHANGED <<link, head>>

\* A pop that moves the head before it clears the node.
MutPopMsg ==
    \/ /\ head = tail
       /\ result' = NULL
       /\ UNCHANGED <<link, slot, head, tail>>
    \/ /\ head # tail
       /\ result' = slot[head]
       /\ head' = link[head]
       /\ slot' = [slot EXCEPT ![link[head]] = NULL]
       /\ UNCHANGED <<link, tail>>

\* MSG_PopMsg: the null pointer when head and tail are the same node.
PopMsg ==
    \/ /\ head = tail
       /\ result' = NULL
       /\ UNCHANGED <<link, slot, head, tail>>
    \/ /\ head # tail
       /\ result' = slot[head]
       /\ slot' = [slot EXCEPT ![head] = NULL]
       /\ head' = link[head]
       /\ UNCHANGED <<link, tail>>

QueueNext == InitQueue \/ PopMsg \/ \E m \in Msg : PushMsg(m)

QueueSpec == QueueInit /\ [][QueueNext]_queueVars

-----------------------------------------------------------------------------
(***************************************************************************)
(* The refinement mapping: the queue's contents are the Count nodes met    *)
(* from the head, following the links, before the tail.                    *)
(***************************************************************************)
Count == IF tail <= head THEN head - tail ELSE head + N + 1 - tail

\* The node of the k-th oldest message.
NodeAt(k) == IF k - 1 <= head THEN head - (k - 1) ELSE head + N + 1 - (k - 1)

Contents == [k \in 1 .. Count |-> slot[NodeAt(k)]]

Live == {NodeAt(k) : k \in 1 .. Count}

\* Every variable keeps the values the C types allow.
QueueTypeOK ==
    /\ link \in [Node -> Node]
    /\ slot \in [Node -> Msg \cup {NULL}]
    /\ head \in Node
    /\ tail \in Node
    /\ result \in Msg \cup {NULL, "none", "ZC_RET_OK", "ZC_RET_ERROR"}

\* MSG_PushMsg / MSG_PopMsg: the nodes from the head up to the tail hold
\* messages and every other node is NULL, so a pop of a non-empty ring never
\* returns NULL (MSG_SendDataToCloud and PCT_HandleEvent take NULL for
\* "empty") and no pointer is left behind the head.
RingConsistent ==
    /\ link = RingLink
    /\ \A i \in Node : slot[i] # NULL <=> i \in Live

Fifo == INSTANCE MsgFifo WITH fifo <- Contents, result <- result

\* MSG_InitQueue, MSG_PushMsg and MSG_PopMsg implement a FIFO that really
\* holds MSG_QUEUE_MAXLEN messages: none is lost, repeated or overtaken while
\* the ring wraps.
RefinesFifo == Fifo!Spec
=============================================================================
