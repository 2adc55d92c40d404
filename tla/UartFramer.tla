----------------------------- MODULE UartFramer -----------------------------
(***************************************************************************)
(* ZC_AssemblePkt and ZC_Moudlefunc (zc_moudle_manager.c): packets of the  *)
(* device, cut anywhere by the UART, in g_struUartBuffer.  ZC_AssemblePkt  *)
(* is MSG_RecvData with a magic number in the header and with the length   *)
(* of what it has not used; ZC_Moudlefunc hands a full packet on and calls *)
(* itself with the rest.  One level of that recursion is one step.         *)
(*                                                                         *)
(* The second byte of a header stands for the magic number, the first for  *)
(* Payloadlen: neither is looked at before the header is complete.         *)
(***************************************************************************)
EXTENDS RecvFramer

ASSUME TwoBytesAssumption == HeadLen > 1

VARIABLES
    rest,     \* pu8Data and u32DataLen of the next call of ZC_Moudlefunc
    packet    \* history: what this call has given ZC_RecvDataFromMoudle last

uartVars == <<status, len, cells, extent, since, rest, packet>>

\* u8MagicHead, as one byte.
Magic == 1

-----------------------------------------------------------------------------
\* The header that a call of ZC_AssemblePkt completes, in data or in the buffer.
HeadFound(b, data) ==
    IF b.status = "IDLE" THEN Len(data) >= HeadLen
    ELSE b.status = "SEGMENT_NOHEAD" /\ b.len + Len(data) >= HeadLen

WithHead(b, data) == memcpy(b, b.len, data, HeadLen - b.len)

HeadOf(b, data) == IF b.status = "IDLE" THEN data ELSE WithHead(b, data).cells

\* A wrong magic number, or a packet that is too long: ZC_RET_ERROR.
MutRefused(b, data) ==
    HeadFound(b, data) /\ MsgLen(HeadOf(b, data)) > MaxLen
Refused(b, data) ==
    /\ HeadFound(b, data)
    /\ \/ HeadOf(b, data)[2] # Magic
       \/ MsgLen(HeadOf(b, data)) > MaxLen

AssemblePkt(b, data) ==
    IF Refused(b, data)
    THEN Set(IF b.status = "IDLE" THEN b ELSE WithHead(b, data), "IDLE", 0)
    ELSE RecvData(b, data)

\* *pu32LeftLen of a call that completes a packet, which is r.  Outside the IDLE
\* case it is computed from u32RecvLen after u32RecvLen has become the length of
\* the packet.
MutLeftLen(b, r, data) == Len(data) + r.len - MsgLen(r.cells)
LeftLen(b, r, data) ==
    IF b.status = "IDLE" THEN Len(data) - MsgLen(data)
    ELSE Len(data) + r.len - MsgLen(r.cells)

-----------------------------------------------------------------------------
\* A call of ZC_Moudlefunc by the driver.
Uart ==
    /\ rest = <<>>
    /\ \E n \in 1 .. MaxChunk : \E data \in [1 .. n -> Byte] : rest' = data
    /\ packet' = <<>>
    /\ UNCHANGED vars

Last(data, n) == SubSeq(data, Len(data) - n + 1, Len(data))

\* ZC_RET_ERROR: the rest of the data is dropped.
AssembleError ==
    /\ rest # <<>>
    /\ Refused(Buffer, rest)
    /\ Become(AssemblePkt(Buffer, rest))
    /\ since' = <<>>
    /\ rest' = <<>>
    /\ UNCHANGED packet

\* The packet is still incomplete, and nothing is left.
AssemblePart ==
    /\ rest # <<>>
    /\ ~Refused(Buffer, rest)
    /\ AssemblePkt(Buffer, rest).status # "FULL"
    /\ Become(AssemblePkt(Buffer, rest))
    /\ since' = since \o rest
    /\ rest' = <<>>
    /\ UNCHANGED packet

\* A packet goes to ZC_RecvDataFromMoudle, the buffer is idle, and the function
\* calls itself when something is left.
AssembleFull ==
    LET r == AssemblePkt(Buffer, rest)
    IN /\ rest # <<>>
       /\ ~Refused(Buffer, rest)
       /\ r.status = "FULL"
       /\ Become(Set(r, "IDLE", 0))
       /\ since' = <<>>
       /\ packet' = SubSeq(r.cells, 1, r.len)
       /\ rest' = Last(rest, LeftLen(Buffer, r, rest))

Moudlefunc == AssembleError \/ AssemblePart \/ AssembleFull

\* HF_CloudRecvfunc, HF_Cloudfunc and HF_Sleep empty the buffer at any time.
Reset == Release /\ UNCHANGED <<rest, packet>>

UartInit == Init /\ rest = <<>> /\ packet = <<>>

UartNext == Uart \/ Moudlefunc \/ Reset

UartSpec == UartInit /\ [][UartNext]_uartVars /\ WF_uartVars(Moudlefunc)

-----------------------------------------------------------------------------
\* The buffer is as in RecvFramer, and between two calls it is never FULL: the
\* status in which ZC_AssemblePkt would refuse every byte from then on.
UartTypeOK ==
    /\ TypeOK
    /\ status # "FULL"
    /\ rest \in Seq(Byte)
    /\ packet \in Seq(Byte)

\* Whatever the cuts, the resets and the garbage on the line, what reaches
\* ZC_RecvDataFromMoudle begins with the magic number, is as long as its header
\* announces and fits in the buffer.
PacketWhole ==
    packet # <<>> => /\ packet[2] = Magic
                     /\ Len(packet) = MsgLen(packet)
                     /\ Len(packet) <= MaxLen

\* In any interleaving of UART, recursion and resets the buffer is whole, no copy
\* leaves it and only whole packets leave the framer.
UartSound == UartTypeOK /\ WithinBuffer /\ PacketWhole

\* ZC_Moudlefunc returns: the recursion ends, although a level may be called
\* with as many bytes as the one that calls it.
Returns == []<>(rest = <<>>)
=============================================================================
