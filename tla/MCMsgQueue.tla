----------------------------- MODULE MCMsgQueue -----------------------------
(* MSG_QUEUE_MAXLEN is 3 in zc_message_queue.h; four message pointers, one  *)
(* more than the queue holds.                                               *)
EXTENDS MsgQueue
=============================================================================
