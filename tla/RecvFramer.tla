----------------------------- MODULE RecvFramer -----------------------------
(***************************************************************************)
(* MSG_RecvData (zc_message_queue.c): one message is put together from the *)
(* pieces in which recv() delivers it, in g_struRecvBuffer and in          *)
(* g_struClientBuffer.  The buffer is modelled cell by cell, with every    *)
(* memcpy, because what is copied where is what this function is about.    *)
(*                                                                         *)
(* A byte is a number, and the first byte of a header stands for the two   *)
(* bytes of u16TotalMsg.                                                   *)
(***************************************************************************)
EXTENDS Integers, Sequences

CONSTANTS
    HeadLen,     \* sizeof(ZC_SecHead)
    MaxLen,      \* MSG_BUFFER_MAXLEN
    MaxChunk,    \* HF_MAX_SOCKET_LEN, the most that one recv() returns
    MaxByte      \* largest value of a byte

ASSUME HeadLenAssumption == HeadLen \in Nat \ {0}
ASSUME MaxLenAssumption == MaxLen \in Nat /\ HeadLen <= MaxLen
ASSUME MaxChunkAssumption == MaxChunk \in Nat \ {0}
ASSUME MaxByteAssumption == MaxByte \in Nat

VARIABLES
    status,   \* u8Status
    len,      \* u32Len
    cells,    \* u8MsgBuffer
    extent,   \* history: the end of the farthest write to u8MsgBuffer
    since     \* history: the bytes received since the buffer was last idle

vars == <<status, len, cells, extent, since>>

Byte == 0 .. MaxByte
Status == {"IDLE", "FULL", "SEGMENT_NOHEAD", "SEGMENT_HEAD"}

-----------------------------------------------------------------------------
\* The buffer as one value, for the function that changes it.
Buffer == [status |-> status, len |-> len, cells |-> cells, extent |-> extent]

Become(b) == /\ status' = b.status
             /\ len' = b.len
             /\ cells' = b.cells
             /\ extent' = b.extent

\* memcpy of the first n bytes of data to the cells after offset at.
memcpy(b, at, data, n) ==
    [status |-> b.status,
     len    |-> b.len,
     cells  |-> [i \in 1 .. MaxLen |->
                   IF at < i /\ i <= at + n THEN data[i - at] ELSE b.cells[i]],
     extent |-> IF at + n > b.extent THEN at + n ELSE b.extent]

Set(b, st, n) == [b EXCEPT !.status = st, !.len = n]

\* ZC_HTONS(u16TotalMsg) + sizeof(ZC_SecHead), of a header.
MsgLen(head) == head[1] + HeadLen

\* The buffer is idle.
RecvFirst(b, data) ==
    LET n == Len(data)
    IN IF n < HeadLen THEN Set(memcpy(b, 0, data, n), "SEGMENT_NOHEAD", n)
       ELSE IF MsgLen(data) > MaxLen THEN Set(b, "IDLE", 0)
       ELSE IF MsgLen(data) <= n
         THEN Set(memcpy(b, 0, data, MsgLen(data)), "FULL", MsgLen(data))
         ELSE Set(memcpy(b, 0, data, n), "SEGMENT_HEAD", n)

\* The buffer has a header and a part of the message.
RecvMore(b, data) ==
    LET total == MsgLen(b.cells)
        n == Len(data)
    IN IF total <= n + b.len
       THEN Set(memcpy(b, b.len, data, total - b.len), "FULL", total)
       ELSE Set(memcpy(b, b.len, data, n), "SEGMENT_HEAD", b.len + n)

\* The buffer has a part of a header: it is completed first, then read.
MutRecvHead(b, data) ==
    LET n == Len(data)
        h == memcpy(b, b.len, data, HeadLen - b.len)
        total == MsgLen(h.cells)
    IN IF b.len + n < HeadLen
         THEN Set(memcpy(b, b.len, data, n), "SEGMENT_NOHEAD", b.len + n)
       ELSE IF total > MaxLen THEN Set(h, "IDLE", 0)
       ELSE IF total <= n
         THEN Set(memcpy(h, b.len, data, total - b.len), "FULL", total)
         ELSE Set(memcpy(h, b.len, data, n), "SEGMENT_HEAD", b.len + n)
RecvHead(b, data) ==
    LET n == Len(data)
        h == memcpy(b, b.len, data, HeadLen - b.len)
        total == MsgLen(h.cells)
    IN IF b.len + n < HeadLen
         THEN Set(memcpy(b, b.len, data, n), "SEGMENT_NOHEAD", b.len + n)
       ELSE IF total > MaxLen THEN Set(h, "IDLE", 0)
       ELSE IF total <= n + b.len
         THEN Set(memcpy(h, b.len, data, total - b.len), "FULL", total)
         ELSE Set(memcpy(h, b.len, data, n), "SEGMENT_HEAD", b.len + n)

\* MSG_RecvData: data for a full buffer is refused.
RecvData(b, data) ==
    CASE b.status = "FULL" -> b
      [] b.status = "IDLE" -> RecvFirst(b, data)
      [] b.status = "SEGMENT_HEAD" -> RecvMore(b, data)
      [] b.status = "SEGMENT_NOHEAD" -> RecvHead(b, data)

-----------------------------------------------------------------------------
\* One recv() of n bytes, whatever they are: recv() cuts the stream anywhere.
Recv ==
    \E n \in 1 .. MaxChunk : \E data \in [1 .. n -> Byte] :
        /\ Become(RecvData(Buffer, data))
        /\ since' = IF status = "FULL" THEN since
                    ELSE IF status' = "IDLE" THEN <<>>
                    ELSE since \o data

\* The end of the handlers that take the message (PCT_HandleEvent and others),
\* and MSG_Init, which may come at any time.
Release ==
    /\ status' = "IDLE"
    /\ len' = 0
    /\ since' = <<>>
    /\ UNCHANGED <<cells, extent>>

Init ==
    /\ status = "IDLE"
    /\ len = 0
    /\ cells = [i \in 1 .. MaxLen |-> 0]
    /\ extent = 0
    /\ since = <<>>

Next == Recv \/ Release

Spec == Init /\ [][Next]_vars

-----------------------------------------------------------------------------
\* The fields of MSG_Buffer: in particular u32Len never passes the end of the
\* buffer, whatever length a header announces.
TypeOK ==
    /\ status \in Status
    /\ len \in 0 .. MaxLen
    /\ cells \in [1 .. MaxLen -> Byte]
    /\ extent \in Nat
    /\ since \in Seq(Byte)

\* No copy ends beyond the end of u8MsgBuffer, whatever lengths the headers
\* announce and wherever recv() cuts the stream.
WithinBuffer == extent <= MaxLen

\* However the bytes were cut, the buffer holds exactly those received since it
\* was idle, and MSG_RecvData has recognised the end of the header and of the
\* message at the byte where it is: the buffer is full with the first message
\* and no more, or the bytes do not make a message yet.
Framed ==
    /\ \A i \in 1 .. len : cells[i] = since[i]
    /\ len <= Len(since)
    /\ CASE status = "IDLE" -> len = 0 /\ since = <<>>
         [] status = "SEGMENT_NOHEAD" -> len = Len(since) /\ len < HeadLen
         [] status = "SEGMENT_HEAD" -> /\ len = Len(since)
                                       /\ HeadLen <= len
                                       /\ len < MsgLen(since)
                                       /\ MsgLen(since) <= MaxLen
         [] status = "FULL" -> HeadLen <= len /\ len = MsgLen(since)
=============================================================================
