------------------------------- MODULE MsgFifo -------------------------------
(***************************************************************************)
(* What the message queues of zc_message_queue.c promise their users: a    *)
(* first-in first-out queue of at most N messages, in which a push to a    *)
(* full queue is refused and a pop of an empty queue returns NULL.         *)
(***************************************************************************)
EXTENDS Naturals, Sequences

CONSTANTS
    N,      \* MSG_QUEUE_MAXLEN, the number of messages the queue promises to hold
    Msg,    \* the messages (addresses of message buffers)
    NULL    \* the null pointer

VARIABLES
    fifo,   \* the queued messages, oldest first
    result  \* what the last operation returned

vars == <<fifo, result>>

Init == fifo = << >> /\ result = "none"

Push(m) ==
    \/ /\ Len(fifo) < N
       /\ fifo' = Append(fifo, m)
       /\ result' = "ZC_RET_OK"
    \/ /\ Len(fifo) = N
       /\ result' = "ZC_RET_ERROR"
       /\ UNCHANGED fifo

Pop ==
    \/ /\ fifo # << >>
       /\ fifo' = Tail(fifo)
       /\ result' = Head(fifo)
    \/ /\ fifo = << >>
       /\ result' = NULL
       /\ UNCHANGED fifo

\* MSG_InitQueue forgets whatever is queued.
Clear == fifo' = << >> /\ result' = "none"

Next == Pop \/ Clear \/ \E m \in Msg : Push(m)

Spec == Init /\ [][Next]_vars
=============================================================================
