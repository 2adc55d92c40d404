--------------------------- MODULE MessageProofs ---------------------------
(***************************************************************************)
(* zc_message_queue.c and the framer of the UART.                          *)
(*                                                                         *)
(* The ring implements a FIFO of N messages, for every capacity N and      *)
(* every set of messages.  The invariant is QueueTypeOK with               *)
(* RingConsistent; the mapped variable is Contents.                        *)
(*                                                                         *)
(* MSG_RecvData for every header length, buffer length, piece and byte:    *)
(* the three invariants of RecvFramer together are inductive.  One lemma   *)
(* per branch of the function, over a buffer that satisfies them.          *)
(* ZC_AssemblePkt is MSG_RecvData with one more check, so that the same    *)
(* lemmas carry the proof about the framer of the UART.                    *)
(***************************************************************************)
EXTENDS UartFramer, MsgQueue, SequenceTheorems, TLAPS

-----------------------------------------------------------------------------
(***************************************************************************)
(* The ring of messages.                                                   *)
(***************************************************************************)
RingInv == QueueTypeOK /\ RingConsistent

\* Positions within the count are nodes of the ring.
LEMMA NodeAtType ==
    ASSUME QueueTypeOK, NEW k \in 1 .. Count
    PROVE  NodeAt(k) \in Node
BY NAssumption DEF QueueTypeOK, Node, Count, NodeAt

\* The ring holds at most N messages, and N exactly when a push is refused.
LEMMA CountBounds ==
    ASSUME QueueTypeOK, link = RingLink
    PROVE  /\ Count \in 0 .. N
           /\ QueueFull <=> Count = N
           /\ head = tail <=> Count = 0
BY NAssumption DEF QueueTypeOK, Node, Count, RingLink, QueueFull

\* Contents is a sequence of messages of length Count.
LEMMA ContentsType ==
    ASSUME RingInv
    PROVE  /\ Contents \in Seq(Msg)
           /\ Len(Contents) = Count
           /\ \A k \in 1 .. Count : Contents[k] = slot[NodeAt(k)]
<1>1. Count \in Nat
  BY CountBounds DEF RingInv, RingConsistent
<1>2. \A k \in 1 .. Count : slot[NodeAt(k)] \in Msg
  <2>1. SUFFICES ASSUME NEW k \in 1 .. Count
                 PROVE  slot[NodeAt(k)] \in Msg
    OBVIOUS
  <2>2. NodeAt(k) \in Node /\ NodeAt(k) \in Live
    BY NodeAtType DEF RingInv, Live
  <2> QED BY <2>2 DEF RingInv, QueueTypeOK, RingConsistent
<1> QED BY <1>1, <1>2 DEF Contents

\* The same for the state after a step.
LEMMA ContentsSeqPrime ==
    RingInv' => (Contents \in Seq(Msg))' /\ (Len(Contents) = Count)'
<1>1. RingInv => Contents \in Seq(Msg) /\ Len(Contents) = Count
  BY ContentsType
<1> QED BY <1>1, PTL

-----------------------------------------------------------------------------
\* MSG_InitQueue leaves a well-formed, empty ring.
LEMMA RingInitially == QueueInit => RingInv
<1>1. SUFFICES ASSUME QueueInit PROVE RingInv
  OBVIOUS
<1>2. QueueTypeOK
  BY <1>1, NAssumption DEF QueueInit, QueueTypeOK, Node, RingLink
<1>3. RingConsistent
  <2>1. Count = 0
    BY <1>1 DEF QueueInit, Count
  <2>2. Live = {}
    BY <2>1 DEF Live
  <2> QED BY <1>1, <2>2 DEF QueueInit, RingConsistent
<1> QED BY <1>2, <1>3 DEF RingInv

\* What a push that is not refused does to the positions of the queue.
LEMMA PushPositions ==
    ASSUME RingInv, NEW m \in Msg, PushMsg(m), ~QueueFull
    PROVE  /\ QueueTypeOK'
           /\ link' = RingLink
           /\ Count' = Count + 1
           /\ \A k \in 1 .. Count : NodeAt(k)' = NodeAt(k) /\ NodeAt(k) # tail
           /\ \A k \in Nat : k = Count + 1 => NodeAt(k)' = tail
<1> USE NAssumption DEF RingInv, RingConsistent
<1>1. QueueTypeOK'
  BY DEF QueueTypeOK, PushMsg
<1>2. link' = RingLink
  BY DEF PushMsg
<1>3. tail' = (IF tail = 0 THEN N ELSE tail - 1) /\ head' = head
  BY DEF PushMsg, RingLink, QueueTypeOK, Node
<1>4. head # (IF tail = 0 THEN N ELSE tail - 1)
  BY DEF PushMsg, RingLink, QueueTypeOK, Node, QueueFull
<1>5. Count' = Count + 1
  BY <1>3, <1>4 DEF Count, QueueTypeOK, Node
<1>6. \A k \in 1 .. Count : NodeAt(k)' = NodeAt(k) /\ NodeAt(k) # tail
  BY <1>3 DEF NodeAt, Count, QueueTypeOK, Node
<1>7. \A k \in Nat : k = Count + 1 => NodeAt(k)' = tail
  BY <1>3 DEF NodeAt, Count, QueueTypeOK, Node
<1> QED BY <1>1, <1>2, <1>5, <1>6, <1>7

\* What a pop of a non-empty ring does to the positions of the queue.
LEMMA PopPositions ==
    ASSUME RingInv, PopMsg, head # tail
    PROVE  /\ QueueTypeOK'
           /\ link' = RingLink
           /\ Count \in Nat \ {0}
           /\ Count' = Count - 1
           /\ NodeAt(1) = head
           /\ \A k \in 1 .. Count - 1 : NodeAt(k)' = NodeAt(k + 1)
           /\ \A k \in 1 .. Count - 1 : NodeAt(k + 1) # head
<1> USE NAssumption DEF RingInv, RingConsistent
<1>1. QueueTypeOK'
  BY DEF QueueTypeOK, PopMsg
<1>2. link' = RingLink
  BY DEF PopMsg
<1>3. head' = (IF head = 0 THEN N ELSE head - 1) /\ tail' = tail
  BY DEF PopMsg, RingLink, QueueTypeOK, Node
<1>4. Count \in Nat \ {0} /\ Count' = Count - 1
  BY <1>3 DEF Count, QueueTypeOK, Node
<1>5. NodeAt(1) = head
  BY DEF NodeAt, QueueTypeOK, Node
<1>6. \A k \in 1 .. Count - 1 : NodeAt(k)' = NodeAt(k + 1)
  BY <1>3 DEF NodeAt, Count, QueueTypeOK, Node
<1>7. \A k \in 1 .. Count - 1 : NodeAt(k + 1) # head
  BY DEF NodeAt, Count, QueueTypeOK, Node
<1> QED BY <1>1, <1>2, <1>4, <1>5, <1>6, <1>7

\* Every operation of the ring keeps it well formed.
LEMMA RingKept == RingInv /\ [QueueNext]_queueVars => RingInv'
<1>1. SUFFICES ASSUME RingInv, [QueueNext]_queueVars PROVE RingInv'
  OBVIOUS
<1>2. CASE InitQueue
  <2>1. QueueTypeOK'
    BY <1>2, NAssumption DEF InitQueue, QueueTypeOK, Node, RingLink
  <2>2. Live' = {}
    BY <1>2 DEF InitQueue, Live, Count
  <2> QED BY <1>2, <2>1, <2>2 DEF InitQueue, RingInv, RingConsistent
<1>3. ASSUME NEW m \in Msg, PushMsg(m) PROVE RingInv'
  <2>1. CASE QueueFull
    BY <1>1, <1>3, <2>1 DEF PushMsg, RingInv, QueueTypeOK, RingConsistent, Live, Count, NodeAt
  <2>2. CASE ~QueueFull
    <3>1. Live' = Live \cup {tail}
      <4>1. Count \in Nat
        BY <1>1, CountBounds DEF RingInv, RingConsistent
      <4>2. Count' = Count + 1
        BY <1>1, <1>3, <2>2, PushPositions
      <4>3. \A k \in 1 .. Count : NodeAt(k)' = NodeAt(k)
        BY <1>1, <1>3, <2>2, PushPositions
      <4>4. \A k \in Nat : k = Count + 1 => NodeAt(k)' = tail
        BY <1>1, <1>3, <2>2, PushPositions
      <4>5. Live' = {NodeAt(k)' : k \in 1 .. Count + 1}
        BY <4>2 DEF Live
      <4>6. 1 .. Count + 1 = (1 .. Count) \cup {Count + 1} /\ Count + 1 \in Nat
        BY <4>1
      <4> QED BY <4>3, <4>4, <4>5, <4>6 DEF Live
    <3>2. slot' = [slot EXCEPT ![tail] = m] /\ m # NULL
      BY <1>3, <2>2, MsgAssumption DEF PushMsg
    <3>3. QueueTypeOK' /\ link' = RingLink
      BY <1>1, <1>3, <2>2, PushPositions
    <3> QED BY <1>1, <3>1, <3>2, <3>3 DEF RingInv, RingConsistent, QueueTypeOK
  <2> QED BY <2>1, <2>2
<1>4. CASE PopMsg
  <2>1. CASE head = tail
    BY <1>1, <1>4, <2>1 DEF PopMsg, RingInv, QueueTypeOK, RingConsistent, Live, Count, NodeAt
  <2>2. CASE head # tail
    <3>1. Live' = Live \ {head}
      <4>1. Count \in Nat \ {0} /\ Count' = Count - 1 /\ NodeAt(1) = head
        BY <1>1, <1>4, <2>2, PopPositions
      <4>2. \A k \in 1 .. Count - 1 : NodeAt(k)' = NodeAt(k + 1) /\ NodeAt(k + 1) # head
        BY <1>1, <1>4, <2>2, PopPositions
      <4>3. Live' = {NodeAt(k)' : k \in 1 .. Count - 1}
        BY <4>1 DEF Live
      <4>4. \A j \in 1 .. Count : j = 1 \/ (j - 1 \in 1 .. Count - 1 /\ (j - 1) + 1 = j)
        BY <4>1
      <4>5. \A k \in 1 .. Count - 1 : k + 1 \in 1 .. Count
        BY <4>1
      <4>6. Live' \subseteq Live \ {head}
        BY <4>2, <4>3, <4>5 DEF Live
      <4>7. Live \ {head} \subseteq Live'
        <5>1. SUFFICES ASSUME NEW j \in 1 .. Count, NodeAt(j) # head
                       PROVE  NodeAt(j) \in Live'
          BY DEF Live
        <5>2. j - 1 \in 1 .. Count - 1 /\ (j - 1) + 1 = j
          BY <4>1, <4>4, <5>1
        <5>3. PICK k \in 1 .. Count - 1 : k + 1 = j
          BY <5>2
        <5> QED BY <4>2, <4>3, <5>3
      <4> QED BY <4>6, <4>7
    <3>2. slot' = [slot EXCEPT ![head] = NULL]
      BY <1>4, <2>2 DEF PopMsg
    <3>3. QueueTypeOK' /\ link' = RingLink
      BY <1>1, <1>4, <2>2, PopPositions
    <3> QED BY <1>1, <3>1, <3>2, <3>3 DEF RingInv, RingConsistent, QueueTypeOK
  <2> QED BY <2>1, <2>2
<1>5. CASE UNCHANGED queueVars
  BY <1>1, <1>5 DEF queueVars, RingInv, QueueTypeOK, RingConsistent, Live, Count, NodeAt
<1> QED BY <1>1, <1>2, <1>3, <1>4, <1>5 DEF QueueNext

\* Every reachable ring of MSG_InitQueue / MSG_PushMsg / MSG_PopMsg is well
\* formed: exactly the nodes between head and tail hold a message.
THEOREM RingSafe == QueueSpec => [](QueueTypeOK /\ RingConsistent)
<1>1. QueueInit => RingInv
  BY RingInitially
<1>2. RingInv /\ [QueueNext]_queueVars => RingInv'
  BY RingKept
<1> QED BY <1>1, <1>2, PTL DEF QueueSpec, RingInv

-----------------------------------------------------------------------------
\* Every step of the ring is a step of the FIFO on the mapped variable.
LEMMA StepRefines == RingInv /\ RingInv' /\ [QueueNext]_queueVars => [Fifo!Next]_(Fifo!vars)
<1>1. SUFFICES ASSUME RingInv, RingInv', [QueueNext]_queueVars
               PROVE  [Fifo!Next]_(Fifo!vars)
  OBVIOUS
<1>a. /\ Contents \in Seq(Msg)
      /\ Len(Contents) = Count
      /\ \A k \in 1 .. Count : Contents[k] = slot[NodeAt(k)]
  BY <1>1, ContentsType
<1>c. /\ Count \in 0 .. N
      /\ QueueFull <=> Count = N
      /\ head = tail <=> Count = 0
  BY <1>1, CountBounds DEF RingInv, RingConsistent
<1>2. CASE InitQueue
  <2>1. Contents' = << >>
    BY <1>2 DEF InitQueue, Contents, Count
  <2>2. Fifo!Clear
    BY <1>2, <2>1 DEF InitQueue, Fifo!Clear
  <2> QED BY <2>2 DEF Fifo!Next
<1>3. ASSUME NEW m \in Msg, PushMsg(m) PROVE Fifo!Push(m)
  <2>1. CASE QueueFull
    <3>1. Contents' = Contents
      BY <1>3, <2>1 DEF PushMsg, Contents, Count, NodeAt
    <3> QED BY <1>3, <2>1, <3>1, <1>a, <1>c DEF PushMsg, Fifo!Push
  <2>2. CASE ~QueueFull
    <3>1. Contents' = Append(Contents, m)
      <4>1. Contents' = [k \in 1 .. Count + 1 |-> (slot[NodeAt(k)])']
        BY <1>1, <1>3, <2>2, PushPositions DEF Contents
      <4>2. slot' = [slot EXCEPT ![tail] = m] /\ tail \in Node
        BY <1>1, <1>3, <2>2 DEF PushMsg, RingInv, QueueTypeOK
      <4>3. \A k \in 1 .. Count : (slot[NodeAt(k)])' = Contents[k]
        <5>1. SUFFICES ASSUME NEW k \in 1 .. Count
                       PROVE  (slot[NodeAt(k)])' = Contents[k]
          OBVIOUS
        <5>2. NodeAt(k)' = NodeAt(k) /\ NodeAt(k) # tail /\ NodeAt(k) \in Node
          BY <1>1, <1>3, <2>2, PushPositions, NodeAtType DEF RingInv
        <5> QED BY <1>1, <4>2, <5>2, <1>a DEF RingInv, QueueTypeOK
      <4>4. ASSUME NEW k \in Nat, k = Count + 1
            PROVE  (slot[NodeAt(k)])' = m
        <5>1. NodeAt(k)' = tail
          BY <1>1, <1>3, <2>2, <4>4, PushPositions
        <5> QED BY <1>1, <4>2, <5>1 DEF RingInv, QueueTypeOK
      <4>5. /\ Contents' \in Seq(Msg)
            /\ Len(Contents') = Count + 1
            /\ \A k \in 1 .. Count + 1 : Contents'[k] = (slot[NodeAt(k)])'
        <5>1. Contents' \in Seq(Msg) /\ Len(Contents') = Count'
          BY <1>1, ContentsSeqPrime
        <5>2. Count' = Count + 1
          BY <1>1, <1>3, <2>2, PushPositions
        <5> QED BY <4>1, <5>1, <5>2
      <4>6. /\ Append(Contents, m) \in Seq(Msg)
            /\ Len(Append(Contents, m)) = Count + 1
            /\ \A k \in 1 .. Count : Append(Contents, m)[k] = Contents[k]
            /\ Append(Contents, m)[Count + 1] = m
        BY <1>a, <1>c, AppendProperties
      <4>7. ASSUME NEW k \in 1 .. Count + 1
            PROVE  Contents'[k] = Append(Contents, m)[k]
        <5>1. k \in 1 .. Count \/ k = Count + 1
          BY <1>c
        <5> QED BY <5>1, <1>c, <4>3, <4>4, <4>5, <4>6
      <4> QED BY <1>c, <4>5, <4>6, <4>7, SeqEqual
    <3>2. Count < N
      BY <2>2, <1>c, NAssumption
    <3> QED BY <1>3, <2>2, <3>1, <3>2, <1>a DEF PushMsg, Fifo!Push
  <2> QED BY <2>1, <2>2
<1>4. CASE PopMsg
  <2>1. CASE head = tail
    <3>1. Contents' = Contents
      BY <1>4, <2>1 DEF PopMsg, Contents, Count, NodeAt
    <3>2. Fifo!Pop
      BY <1>4, <2>1, <3>1, <1>a, <1>c DEF PopMsg, Fifo!Pop
    <3> QED BY <3>2 DEF Fifo!Next
  <2>2. CASE head # tail
    <3>1. Contents # << >> /\ Head(Contents) = slot[head]
      BY <1>1, <1>4, <2>2, <1>a, <1>c, PopPositions
    <3>2. Contents' = Tail(Contents)
      <4>1. Contents' = [k \in 1 .. Count - 1 |-> (slot[NodeAt(k)])']
        BY <1>1, <1>4, <2>2, PopPositions DEF Contents
      <4>2. \A k \in 1 .. Count - 1 : (slot[NodeAt(k)])' = Contents[k + 1]
        <5>1. SUFFICES ASSUME NEW k \in 1 .. Count - 1
                       PROVE  (slot[NodeAt(k)])' = Contents[k + 1]
          OBVIOUS
        <5>2. k + 1 \in 1 .. Count
          BY <1>c
        <5>3. NodeAt(k)' = NodeAt(k + 1) /\ NodeAt(k + 1) # head
          BY <1>1, <1>4, <2>2, PopPositions
        <5>4. NodeAt(k + 1) \in Node
          BY <1>1, <5>2, NodeAtType DEF RingInv
        <5>5. slot' = [slot EXCEPT ![head] = NULL]
          BY <1>4, <2>2 DEF PopMsg
        <5> QED BY <1>1, <5>2, <5>3, <5>4, <5>5, <1>a DEF RingInv, QueueTypeOK
      <4>3. /\ Contents' \in Seq(Msg)
            /\ Len(Contents') = Count - 1
            /\ \A k \in 1 .. Count - 1 : Contents'[k] = (slot[NodeAt(k)])'
        <5>1. Contents' \in Seq(Msg) /\ Len(Contents') = Count'
          BY <1>1, ContentsSeqPrime
        <5>2. Count' = Count - 1
          BY <1>1, <1>4, <2>2, PopPositions
        <5> QED BY <4>1, <5>1, <5>2
      <4>4. /\ Tail(Contents) \in Seq(Msg)
            /\ Len(Tail(Contents)) = Count - 1
            /\ \A k \in 1 .. Count - 1 : Tail(Contents)[k] = Contents[k + 1]
        BY <1>a, <1>c, <3>1, HeadTailProperties
      <4> QED BY <1>c, <4>2, <4>3, <4>4, SeqEqual
    <3>3. Fifo!Pop
      BY <1>4, <2>2, <3>1, <3>2 DEF PopMsg, Fifo!Pop
    <3> QED BY <3>3 DEF Fifo!Next
  <2> QED BY <2>1, <2>2
<1>5. CASE UNCHANGED queueVars
  <2>1. Contents' = Contents /\ result' = result
    BY <1>5 DEF queueVars, Contents, Count, NodeAt
  <2> QED BY <2>1 DEF Fifo!vars
<1> QED BY <1>1, <1>2, <1>3, <1>4, <1>5 DEF QueueNext, Fifo!Next

\* The ring implements the FIFO of module MsgFifo.
THEOREM RingRefinesFifo == QueueSpec => RefinesFifo
<1>1. QueueInit => Fifo!Init
  BY DEF QueueInit, Fifo!Init, Contents, Count
<1>2. QueueInit => RingInv
  BY RingInitially
<1>3. RingInv /\ [QueueNext]_queueVars => RingInv'
  BY RingKept
<1>4. RingInv /\ RingInv' /\ [QueueNext]_queueVars => [Fifo!Next]_(Fifo!vars)
  BY StepRefines
<1> QED BY <1>1, <1>2, <1>3, <1>4, PTL DEF QueueSpec, Fifo!Spec, RefinesFifo

-----------------------------------------------------------------------------
(***************************************************************************)
(* The framer of the cloud's messages.                                     *)
(***************************************************************************)
IInv == TypeOK /\ WithinBuffer /\ Framed

Buf == [status : Status, len : Nat, cells : [1 .. MaxLen -> Byte], extent : Nat]

\* The initial buffer is empty.
LEMMA InitIInv == Init => IInv
BY HeadLenAssumption, MaxLenAssumption, MaxByteAssumption
   DEF Init, IInv, TypeOK, WithinBuffer, Framed, Status, Byte


\* The invariants over a buffer b and the bytes s received since it was idle.
Good(b, s) ==
    /\ b \in Buf
    /\ b.len <= MaxLen
    /\ b.extent <= MaxLen
    /\ s \in Seq(Byte)
    /\ b.len <= Len(s)
    /\ \A i \in 1 .. b.len : b.cells[i] = s[i]
    /\ b.status = "IDLE" => b.len = 0 /\ s = <<>>
    /\ b.status = "SEGMENT_NOHEAD" => b.len = Len(s) /\ b.len < HeadLen
    /\ b.status = "SEGMENT_HEAD" => /\ b.len = Len(s)
                                    /\ HeadLen <= b.len
                                    /\ b.len < MsgLen(s)
                                    /\ MsgLen(s) <= MaxLen
    /\ b.status = "FULL" => HeadLen <= b.len /\ b.len = MsgLen(s)

\* Buffer r is b with the first n bytes of data after offset at.
Copied(r, b, at, data, n) ==
    /\ \A i \in 1 .. MaxLen : at < i /\ i <= at + n => r.cells[i] = data[i - at]
    /\ \A i \in 1 .. MaxLen : i <= at => r.cells[i] = b.cells[i]

\* One copy that stays within the buffer.
LEMMA MemcpyOK ==
    ASSUME NEW b \in Buf, b.extent <= MaxLen, NEW at \in Nat, NEW n \in Nat,
           NEW data \in Seq(Byte), n <= Len(data), at + n <= MaxLen,
           NEW r, r = memcpy(b, at, data, n)
    PROVE  /\ r \in Buf
           /\ r.extent <= MaxLen
           /\ Copied(r, b, at, data, n)
<1> DEFINE c == [i \in 1 .. MaxLen |->
                    IF at < i /\ i <= at + n THEN data[i - at] ELSE b.cells[i]]
           e == IF at + n > b.extent THEN at + n ELSE b.extent
<1>1. r = [status |-> b.status, len |-> b.len, cells |-> c, extent |-> e]
  BY DEF memcpy
<1>2. \A i \in 1 .. MaxLen : at < i /\ i <= at + n => data[i - at] \in Byte
  BY MaxLenAssumption
<1>3. c \in [1 .. MaxLen -> Byte]
  BY <1>2 DEF Buf
<1>4. e \in Nat /\ e <= MaxLen
  BY MaxLenAssumption DEF Buf
<1>5. /\ \A i \in 1 .. MaxLen : at < i /\ i <= at + n => c[i] = data[i - at]
      /\ \A i \in 1 .. MaxLen : i <= at => c[i] = b.cells[i]
  OBVIOUS
<1> HIDE DEF c, e
<1> QED
  BY <1>1, <1>3, <1>4, <1>5 DEF Buf, Copied

\* The same with a new status and length.
CopyMade(r, b, at, data, n, st, l) ==
    /\ r \in Buf
    /\ r.status = st
    /\ r.len = l
    /\ r.extent <= MaxLen
    /\ Copied(r, b, at, data, n)

\* A copy that stays within the buffer, followed by the new status and length.
LEMMA CopyOK ==
    ASSUME NEW b \in Buf, b.extent <= MaxLen, NEW at \in Nat, NEW n \in Nat,
           NEW data \in Seq(Byte), n <= Len(data), at + n <= MaxLen,
           NEW st \in Status, NEW l \in Nat
    PROVE  CopyMade(Set(memcpy(b, at, data, n), st, l), b, at, data, n, st, l)
<1> DEFINE m == memcpy(b, at, data, n)
           r == Set(m, st, l)
<1>1. /\ m \in Buf
      /\ m.extent <= MaxLen
      /\ Copied(m, b, at, data, n)
  BY MemcpyOK
<1> HIDE DEF m
<1>2. /\ r \in Buf /\ r.status = st /\ r.len = l
      /\ r.cells = m.cells /\ r.extent = m.extent
  BY <1>1 DEF Set, Buf
<1> HIDE DEF r
<1>3. CopyMade(r, b, at, data, n, st, l)
  BY <1>1, <1>2 DEF Copied, CopyMade
<1> QED
  BY <1>3 DEF r, m

\* The first l cells hold the first l bytes of s.
Holds(r, s, l) ==
    /\ s \in Seq(Byte)
    /\ l <= Len(s)
    /\ \A i \in 1 .. l : r.cells[i] = s[i]

\* A copy to the end of the buffer's contents appends the bytes to them.
LEMMA Appended ==
    ASSUME NEW b \in Buf, NEW s \in Seq(Byte), b.len = Len(s),
           Holds(b, s, b.len),
           NEW data \in Seq(Byte), NEW n \in Nat, n <= Len(data),
           b.len + n <= MaxLen,
           NEW r, Copied(r, b, b.len, data, n)
    PROVE  Holds(r, s \o data, b.len + n)
<1>1. Len(s \o data) = b.len + Len(data) /\ s \o data \in Seq(Byte)
  OBVIOUS
<1>2. ASSUME NEW i \in 1 .. b.len + n
      PROVE  r.cells[i] = (s \o data)[i]
  <2>1. CASE i <= b.len
    <3>1. i \in 1 .. b.len /\ i \in 1 .. MaxLen
      BY <2>1, MaxLenAssumption DEF Buf
    <3>2. r.cells[i] = b.cells[i] /\ b.cells[i] = s[i]
      BY <2>1, <3>1 DEF Copied, Holds
    <3> QED
      BY <3>1, <3>2
  <2>2. CASE i > b.len
    <3>1. i \in 1 .. MaxLen /\ b.len < i /\ i <= b.len + n
      BY <2>2, MaxLenAssumption DEF Buf
    <3>2. r.cells[i] = data[i - b.len]
      BY <3>1 DEF Copied
    <3>3. (s \o data)[i] = data[i - b.len]
      BY <3>1 DEF Buf
    <3> QED
      BY <3>2, <3>3
  <2> QED
    BY <2>1, <2>2 DEF Buf
<1> QED
  BY <1>1, <1>2 DEF Holds, Buf

-----------------------------------------------------------------------------
\* What the buffer must be after the bytes `data` came in.
After(r, s, data) == IF r.status = "IDLE" THEN <<>> ELSE s \o data

\* Where a header is in s, the length it announces does not change when bytes
\* are appended, and is a number.
LEMMA MsgLenStable ==
    ASSUME NEW s \in Seq(Byte), NEW data \in Seq(Byte), Len(s) >= 1
    PROVE  MsgLen(s \o data) = MsgLen(s) /\ MsgLen(s) \in Nat /\ HeadLen <= MsgLen(s)
<1>1. (s \o data)[1] = s[1] /\ s[1] \in Byte
  OBVIOUS
<1> QED
  BY <1>1, HeadLenAssumption, MaxByteAssumption DEF MsgLen, Byte

\* A copy to the end of the contents that leaves the message unfinished.
LEMMA PartGood ==
    ASSUME NEW b \in Buf, b.extent <= MaxLen, NEW s \in Seq(Byte), b.len = Len(s),
           Holds(b, s, b.len),
           NEW data \in Seq(Byte), b.len + Len(data) <= MaxLen,
           NEW st \in {"SEGMENT_NOHEAD", "SEGMENT_HEAD"},
           st = "SEGMENT_NOHEAD" => b.len + Len(data) < HeadLen,
           st = "SEGMENT_HEAD" => /\ HeadLen <= b.len + Len(data)
                                  /\ b.len + Len(data) < MsgLen(s \o data)
                                  /\ MsgLen(s \o data) <= MaxLen
    PROVE  LET r == Set(memcpy(b, b.len, data, Len(data)), st, b.len + Len(data))
           IN Good(r, s \o data) /\ r.status = st
<1> DEFINE n == Len(data)
           l == b.len + Len(data)
           r == Set(memcpy(b, b.len, data, n), st, l)
<1>1. /\ n \in Nat /\ n <= Len(data) /\ b.len \in Nat
      /\ b.len + n <= MaxLen /\ l \in Nat /\ st \in Status
  BY DEF Buf, Status
<1>2. CopyMade(r, b, b.len, data, n, st, l)
  <2> HIDE DEF n, l
  <2> QED
    BY <1>1, CopyOK
<1> HIDE DEF r
<1>3. r \in Buf /\ Copied(r, b, b.len, data, n)
  BY <1>2 DEF CopyMade
<1>4. Holds(r, s \o data, b.len + n)
  <2> HIDE DEF n
  <2> QED
    BY <1>1, <1>3, Appended
<1>5. Len(s \o data) = l
  BY <1>1
<1>6. Good(r, s \o data) /\ r.status = st
  BY <1>1, <1>2, <1>4, <1>5 DEF Good, CopyMade, Holds
<1> QED
  BY <1>6 DEF r

\* A copy of as many bytes as the message still lacks.
LEMMA FullGood ==
    ASSUME NEW b \in Buf, b.extent <= MaxLen, NEW s \in Seq(Byte), b.len = Len(s),
           Holds(b, s, b.len),
           NEW data \in Seq(Byte), NEW total \in Nat,
           b.len <= total, total <= b.len + Len(data), total <= MaxLen,
           HeadLen <= total, total = MsgLen(s \o data)
    PROVE  LET r == Set(memcpy(b, b.len, data, total - b.len), "FULL", total)
           IN Good(r, s \o data) /\ r.status = "FULL"
<1> DEFINE n == total - b.len
           r == Set(memcpy(b, b.len, data, n), "FULL", total)
<1>1. /\ n \in Nat /\ n <= Len(data) /\ b.len \in Nat
      /\ b.len + n = total /\ b.len + n <= MaxLen /\ "FULL" \in Status
  BY DEF Buf, Status
<1>2. CopyMade(r, b, b.len, data, n, "FULL", total)
  <2> HIDE DEF n
  <2> QED
    BY <1>1, CopyOK
<1> HIDE DEF r
<1>3. r \in Buf /\ Copied(r, b, b.len, data, n)
  BY <1>2 DEF CopyMade
<1>4. Holds(r, s \o data, total)
  <2> HIDE DEF n
  <2>1. Holds(r, s \o data, b.len + n)
    BY <1>1, <1>3, Appended
  <2> QED
    BY <1>1, <2>1
<1>5. Len(s \o data) = b.len + Len(data)
  BY <1>1
<1>6. Good(r, s \o data) /\ r.status = "FULL"
  <2> HIDE DEF n
  <2> QED
    BY <1>1, <1>2, <1>4, <1>5 DEF Good, CopyMade, Holds
<1> QED
  BY <1>6 DEF r

\* A message that is too long is forgotten.
LEMMA DropGood ==
    ASSUME NEW b \in Buf, b.extent <= MaxLen, NEW r, r = Set(b, "IDLE", 0)
    PROVE  Good(r, <<>>) /\ r.status = "IDLE"
<1>1. /\ r \in Buf /\ r.status = "IDLE" /\ r.len = 0 /\ r.extent = b.extent
  BY DEF Set, Buf, Status
<1>2. <<>> \in Seq(Byte) /\ Len(<<>>) = 0
  OBVIOUS
<1> QED
  BY <1>1, <1>2, MaxLenAssumption DEF Good

\* The first piece of a message.
LEMMA FirstGood ==
    ASSUME NEW b, NEW s, Good(b, s), b.status = "IDLE",
           NEW data \in Seq(Byte), Len(data) >= 1
    PROVE  Good(RecvFirst(b, data), After(RecvFirst(b, data), s, data))
<1> DEFINE n == Len(data)
           total == MsgLen(data)
<1>1. /\ b \in Buf /\ b.extent <= MaxLen /\ s \in Seq(Byte)
      /\ b.len = 0 /\ b.len = Len(s) /\ s = <<>> /\ Holds(b, s, b.len)
  BY DEF Good, Holds
<1>2. s \o data = data
  BY <1>1
<1>3. total \in Nat /\ HeadLen <= total /\ n \in Nat
  BY MsgLenStable
<1>4. CASE n < HeadLen
  <2> DEFINE r == Set(memcpy(b, b.len, data, n), "SEGMENT_NOHEAD", b.len + n)
  <2>1. RecvFirst(b, data) = r
    BY <1>1, <1>3, <1>4 DEF RecvFirst
  <2>2. /\ b.len + n <= MaxLen /\ b.len + n < HeadLen
        /\ "SEGMENT_NOHEAD" \in {"SEGMENT_NOHEAD", "SEGMENT_HEAD"}
    BY <1>1, <1>3, <1>4, MaxLenAssumption, HeadLenAssumption
  <2>3. Good(r, s \o data) /\ r.status = "SEGMENT_NOHEAD"
    BY <1>1, <2>2, PartGood
  <2> QED
    BY <2>1, <2>3 DEF After
<1>5. CASE n >= HeadLen /\ total > MaxLen
  <2>1. RecvFirst(b, data) = Set(b, "IDLE", 0)
    BY <1>3, <1>5, HeadLenAssumption, MaxLenAssumption DEF RecvFirst
  <2> QED
    BY <1>1, <2>1, DropGood DEF After
<1>6. CASE n >= HeadLen /\ total <= MaxLen /\ total <= n
  <2> DEFINE r == Set(memcpy(b, b.len, data, total - b.len), "FULL", total)
  <2>1. RecvFirst(b, data) = r
    BY <1>1, <1>3, <1>6, HeadLenAssumption, MaxLenAssumption DEF RecvFirst
  <2>2. b.len <= total /\ total <= b.len + n /\ total = MsgLen(s \o data)
    BY <1>1, <1>2, <1>3, <1>6
  <2> HIDE DEF total
  <2>3. Good(r, s \o data) /\ r.status = "FULL"
    BY <1>1, <1>3, <1>6, <2>2, FullGood
  <2> QED
    BY <2>1, <2>3 DEF After
<1>7. CASE n >= HeadLen /\ total <= MaxLen /\ total > n
  <2> DEFINE r == Set(memcpy(b, b.len, data, n), "SEGMENT_HEAD", b.len + n)
  <2>1. RecvFirst(b, data) = r
    BY <1>1, <1>3, <1>7, HeadLenAssumption, MaxLenAssumption DEF RecvFirst
  <2>2. /\ b.len + n <= MaxLen /\ HeadLen <= b.len + n
        /\ b.len + n < MsgLen(s \o data) /\ MsgLen(s \o data) <= MaxLen
        /\ "SEGMENT_HEAD" \in {"SEGMENT_NOHEAD", "SEGMENT_HEAD"}
    BY <1>1, <1>2, <1>3, <1>7, MaxLenAssumption
  <2>3. Good(r, s \o data) /\ r.status = "SEGMENT_HEAD"
    BY <1>1, <2>2, PartGood
  <2> QED
    BY <2>1, <2>3 DEF After
<1> QED
  BY <1>3, <1>4, <1>5, <1>6, <1>7, HeadLenAssumption, MaxLenAssumption

\* A further piece of a message whose header has come.
LEMMA MoreGood ==
    ASSUME NEW b, NEW s, Good(b, s), b.status = "SEGMENT_HEAD",
           NEW data \in Seq(Byte), Len(data) >= 1
    PROVE  Good(RecvMore(b, data), After(RecvMore(b, data), s, data))
<1> DEFINE n == Len(data)
           total == MsgLen(b.cells)
<1>1. /\ b \in Buf /\ b.extent <= MaxLen /\ s \in Seq(Byte) /\ b.len \in Nat
      /\ b.len = Len(s) /\ HeadLen <= b.len /\ Holds(b, s, b.len)
      /\ b.len < MsgLen(s) /\ MsgLen(s) <= MaxLen
  BY DEF Good, Holds, Buf
<1>2. Len(s) >= 1 /\ n \in Nat
  BY <1>1, HeadLenAssumption
<1>3. b.cells[1] = s[1]
  BY <1>1, <1>2 DEF Holds
<1>4. /\ total = MsgLen(s \o data) /\ total = MsgLen(s)
      /\ total \in Nat /\ HeadLen <= total
  BY <1>1, <1>2, <1>3, MsgLenStable DEF MsgLen
<1> HIDE DEF total
<1>5. CASE total <= n + b.len
  <2> DEFINE r == Set(memcpy(b, b.len, data, total - b.len), "FULL", total)
  <2>1. RecvMore(b, data) = r
    BY <1>5 DEF RecvMore, total
  <2>2. b.len <= total /\ total <= b.len + n /\ total <= MaxLen
    BY <1>1, <1>2, <1>4, <1>5
  <2>3. Good(r, s \o data) /\ r.status = "FULL"
    BY <1>1, <1>4, <2>2, FullGood
  <2> QED
    BY <2>1, <2>3 DEF After
<1>6. CASE total > n + b.len
  <2> DEFINE r == Set(memcpy(b, b.len, data, n), "SEGMENT_HEAD", b.len + n)
  <2>1. RecvMore(b, data) = r
    BY <1>1, <1>2, <1>4, <1>6 DEF RecvMore, total
  <2>2. /\ b.len + n <= MaxLen /\ HeadLen <= b.len + n
        /\ b.len + n < MsgLen(s \o data) /\ MsgLen(s \o data) <= MaxLen
        /\ "SEGMENT_HEAD" \in {"SEGMENT_NOHEAD", "SEGMENT_HEAD"}
    BY <1>1, <1>2, <1>4, <1>6, MaxLenAssumption, HeadLenAssumption
  <2>3. Good(r, s \o data) /\ r.status = "SEGMENT_HEAD"
    BY <1>1, <2>2, PartGood
  <2> QED
    BY <2>1, <2>3 DEF After
<1> QED
  BY <1>1, <1>2, <1>4, <1>5, <1>6

\* A further piece of a message whose header is incomplete.  The bytes that
\* complete the header are copied twice, to the same place.
LEMMA HeadGood ==
    ASSUME NEW b, NEW s, Good(b, s), b.status = "SEGMENT_NOHEAD",
           NEW data \in Seq(Byte), Len(data) >= 1
    PROVE  Good(RecvHead(b, data), After(RecvHead(b, data), s, data))
<1> DEFINE n == Len(data)
           k == HeadLen - b.len
           h == memcpy(b, b.len, data, k)
           total == MsgLen(h.cells)
<1>1. /\ b \in Buf /\ b.extent <= MaxLen /\ s \in Seq(Byte) /\ b.len \in Nat
      /\ b.len = Len(s) /\ b.len < HeadLen /\ Holds(b, s, b.len)
  BY DEF Good, Holds, Buf
<1>2. n \in Nat
  OBVIOUS
<1>3. CASE b.len + n < HeadLen
  <2> DEFINE r == Set(memcpy(b, b.len, data, n), "SEGMENT_NOHEAD", b.len + n)
  <2>1. RecvHead(b, data) = r
    BY <1>3 DEF RecvHead
  <2>2. /\ b.len + n <= MaxLen
        /\ "SEGMENT_NOHEAD" \in {"SEGMENT_NOHEAD", "SEGMENT_HEAD"}
    BY <1>1, <1>2, <1>3, MaxLenAssumption, HeadLenAssumption
  <2>3. Good(r, s \o data) /\ r.status = "SEGMENT_NOHEAD"
    BY <1>1, <1>3, <2>2, PartGood
  <2> QED
    BY <2>1, <2>3 DEF After
<1>4. CASE b.len + n >= HeadLen
  <2>1. /\ k \in Nat /\ k <= n /\ b.len + k = HeadLen /\ b.len + k <= MaxLen
    BY <1>1, <1>2, <1>4, HeadLenAssumption, MaxLenAssumption
  <2>2. h.len = b.len
    BY DEF memcpy
  <2> HIDE DEF k
  <2>3. h \in Buf /\ h.extent <= MaxLen /\ Copied(h, b, b.len, data, k)
    BY <1>1, <2>1, MemcpyOK
  <2> HIDE DEF h
  <2>4. Holds(h, s \o data, b.len + k)
    BY <1>1, <2>1, <2>3, Appended
  <2>5. Holds(h, s, h.len)
    <3>1. \A i \in 1 .. b.len : i \in 1 .. MaxLen /\ i <= b.len
      BY <1>1, HeadLenAssumption, MaxLenAssumption
    <3>2. \A i \in 1 .. b.len : h.cells[i] = b.cells[i] /\ b.cells[i] = s[i]
      BY <1>1, <2>3, <3>1 DEF Copied, Holds
    <3> QED
      BY <1>1, <2>2, <3>2 DEF Holds
  <2>6. s \o data \in Seq(Byte) /\ Len(s \o data) = b.len + n
    BY <1>1
  <2>7. 1 \in 1 .. b.len + k /\ Len(s \o data) >= 1
    BY <1>1, <1>4, <2>1, <2>6, HeadLenAssumption
  <2>8. h.cells[1] = (s \o data)[1] /\ (s \o data)[1] \in Byte
    BY <2>4, <2>6, <2>7 DEF Holds
  <2>9. total = MsgLen(s \o data) /\ total \in Nat /\ HeadLen <= total
    BY <2>8, HeadLenAssumption, MaxByteAssumption DEF MsgLen, Byte
  <2> HIDE DEF total
  <2>10. ~(b.len + n < HeadLen)
    BY <1>1, <1>2, <1>4, HeadLenAssumption
  <2>11. h.len \in Nat /\ h.len = Len(s)
    BY <1>1, <2>2
  <2>12. CASE total > MaxLen
    <3>1. RecvHead(b, data) = Set(h, "IDLE", 0)
      BY <2>10, <2>12 DEF RecvHead, total, h, k
    <3> QED
      BY <2>3, <3>1, DropGood DEF After
  <2>13. CASE total <= MaxLen /\ total <= n + b.len
    <3> DEFINE r == Set(memcpy(h, h.len, data, total - h.len), "FULL", total)
    <3>0. ~(total > MaxLen)
      BY <2>9, <2>13, MaxLenAssumption
    <3>1. RecvHead(b, data) = r
      BY <2>2, <2>10, <2>13, <3>0 DEF RecvHead, total, h, k
    <3>2. h.len <= total /\ total <= h.len + n
      BY <1>1, <1>2, <2>2, <2>9, <2>13, HeadLenAssumption
    <3>3. Good(r, s \o data) /\ r.status = "FULL"
      BY <1>1, <2>3, <2>5, <2>9, <2>11, <2>13, <3>2, FullGood
    <3> QED
      BY <3>1, <3>3 DEF After
  <2>14. CASE total <= MaxLen /\ total > n + b.len
    <3> DEFINE r == Set(memcpy(h, h.len, data, n), "SEGMENT_HEAD", h.len + n)
    <3>0. ~(total > MaxLen) /\ ~(total <= n + b.len)
      BY <1>1, <1>2, <2>9, <2>14, MaxLenAssumption
    <3>1. RecvHead(b, data) = r
      BY <2>2, <2>10, <3>0 DEF RecvHead, total, h, k
    <3>2. /\ h.len + n <= MaxLen /\ HeadLen <= h.len + n
          /\ h.len + n < MsgLen(s \o data) /\ MsgLen(s \o data) <= MaxLen
          /\ "SEGMENT_HEAD" \in {"SEGMENT_NOHEAD", "SEGMENT_HEAD"}
      BY <1>1, <1>2, <1>4, <2>2, <2>9, <2>14, MaxLenAssumption, HeadLenAssumption
    <3>3. Good(r, s \o data) /\ r.status = "SEGMENT_HEAD"
      BY <1>1, <2>3, <2>5, <2>11, <3>2, PartGood
    <3> QED
      BY <3>1, <3>3 DEF After
  <2> QED
    BY <1>1, <1>2, <2>9, <2>12, <2>13, <2>14, MaxLenAssumption
<1> QED
  BY <1>1, <1>2, <1>3, <1>4, HeadLenAssumption

-----------------------------------------------------------------------------
\* The invariants of the specification are Good of its buffer.
LEMMA InvIsGood == IInv => Good(Buffer, since)
<1> SUFFICES ASSUME IInv PROVE Good(Buffer, since)
  OBVIOUS
<1>1. /\ Buffer.status = status /\ Buffer.len = len
      /\ Buffer.cells = cells /\ Buffer.extent = extent
  BY DEF Buffer
<1>2. Buffer \in Buf
  BY MaxLenAssumption DEF IInv, TypeOK, Buffer, Buf
<1>3. len <= MaxLen /\ extent <= MaxLen /\ since \in Seq(Byte) /\ len <= Len(since)
  BY MaxLenAssumption DEF IInv, TypeOK, WithinBuffer, Framed
<1>4. \A i \in 1 .. len : cells[i] = since[i]
  BY DEF IInv, Framed
<1>5. /\ status = "IDLE" => len = 0 /\ since = <<>>
      /\ status = "SEGMENT_NOHEAD" => len = Len(since) /\ len < HeadLen
      /\ status = "SEGMENT_HEAD" => /\ len = Len(since)
                                    /\ HeadLen <= len
                                    /\ len < MsgLen(since)
                                    /\ MsgLen(since) <= MaxLen
      /\ status = "FULL" => HeadLen <= len /\ len = MsgLen(since)
  BY DEF IInv, Framed
<1> HIDE DEF Buffer
<1> QED
  BY <1>1, <1>2, <1>3, <1>4, <1>5 DEF Good

\* One call of MSG_RecvData, whatever it is given.
LEMMA RecvKeeps == IInv /\ Recv => IInv'
<1> SUFFICES ASSUME IInv, Recv PROVE IInv'
  OBVIOUS
<1>1. PICK n \in 1 .. MaxChunk : \E data \in [1 .. n -> Byte] :
          /\ Become(RecvData(Buffer, data))
          /\ since' = IF status = "FULL" THEN since
                      ELSE IF status' = "IDLE" THEN <<>>
                      ELSE since \o data
  BY DEF Recv
<1>2. PICK data \in [1 .. n -> Byte] :
          /\ Become(RecvData(Buffer, data))
          /\ since' = IF status = "FULL" THEN since
                      ELSE IF status' = "IDLE" THEN <<>>
                      ELSE since \o data
  BY <1>1
<1>3. data \in Seq(Byte) /\ Len(data) >= 1
  BY MaxChunkAssumption
<1> DEFINE b == Buffer
           r == RecvData(b, data)
<1>4. Good(b, since) /\ b.status = status
  BY InvIsGood DEF Buffer
<1>5. status' = r.status /\ since' = IF status = "FULL" THEN since
                                     ELSE After(r, since, data)
  BY <1>2 DEF Become, After
<1>6. status \in Status
  BY DEF IInv, TypeOK
<1> HIDE DEF b
<1>7. Good(r, since')
  <2>1. CASE status = "FULL"
    BY <1>4, <1>5, <2>1 DEF RecvData
  <2>2. CASE status = "IDLE"
    <3>1. r = RecvFirst(b, data)
      BY <1>4, <2>2 DEF RecvData
    <3> QED
      BY <1>3, <1>4, <1>5, <2>2, <3>1, FirstGood
  <2>3. CASE status = "SEGMENT_HEAD"
    <3>1. r = RecvMore(b, data)
      BY <1>4, <2>3 DEF RecvData
    <3> QED
      BY <1>3, <1>4, <1>5, <2>3, <3>1, MoreGood
  <2>4. CASE status = "SEGMENT_NOHEAD"
    <3>1. r = RecvHead(b, data)
      BY <1>4, <2>4 DEF RecvData
    <3> QED
      BY <1>3, <1>4, <1>5, <2>4, <3>1, HeadGood
  <2> QED
    BY <1>6, <2>1, <2>2, <2>3, <2>4 DEF Status
<1> HIDE DEF r
<1>8. /\ status' = r.status /\ len' = r.len
      /\ cells' = r.cells /\ extent' = r.extent
  BY <1>2 DEF Become, r, b
<1>9. TypeOK'
  BY <1>7, <1>8, MaxLenAssumption DEF Good, Buf, TypeOK
<1>10. WithinBuffer'
  BY <1>7, <1>8 DEF Good, WithinBuffer
<1>11. Framed'
  BY <1>7, <1>8, <1>9 DEF Good, TypeOK, Status, Framed
<1> QED
  BY <1>9, <1>10, <1>11 DEF IInv

\* Giving the buffer back.
LEMMA ReleaseKeeps == IInv /\ Release => IInv'
BY HeadLenAssumption, MaxLenAssumption
   DEF IInv, TypeOK, WithinBuffer, Framed, Release, Status

\* However recv() cuts the stream, and whatever lengths the headers announce,
\* MSG_RecvData writes only inside u8MsgBuffer and recognises the end of a
\* header and of a message exactly where they are.
THEOREM FramerCorrect == Spec => [](TypeOK /\ WithinBuffer /\ Framed)
<1>1. Init => IInv
  BY InitIInv
<1>2. IInv /\ [Next]_vars => IInv'
  <2>1. IInv /\ UNCHANGED vars => IInv'
    BY DEF IInv, TypeOK, WithinBuffer, Framed, vars
  <2> QED
    BY <2>1, RecvKeeps, ReleaseKeeps DEF Next
<1>3. IInv => TypeOK /\ WithinBuffer /\ Framed
  BY DEF IInv
<1> QED
  BY <1>1, <1>2, <1>3, PTL DEF Spec

-----------------------------------------------------------------------------
(***************************************************************************)
(* The framer of the UART.                                                 *)
(***************************************************************************)
\* Between two calls the buffer is not FULL, and a header in it is one with the
\* magic number: ZC_AssemblePkt looked at it when it became complete.
UartInv ==
    /\ IInv
    /\ status # "FULL"
    /\ status = "SEGMENT_HEAD" => since[2] = Magic
    /\ rest \in Seq(Byte) /\ packet \in Seq(Byte)
    /\ PacketWhole

\* The invariants of RecvFramer follow from Good of the next buffer.
LEMMA BecomeGood ==
    ASSUME NEW r, Become(r), Good(r, since')
    PROVE  IInv' /\ status' = r.status
<1>1. /\ status' = r.status /\ len' = r.len
      /\ cells' = r.cells /\ extent' = r.extent
  BY DEF Become
<1>2. TypeOK'
  BY <1>1, MaxLenAssumption DEF Good, Buf, TypeOK
<1>3. WithinBuffer'
  BY <1>1 DEF Good, WithinBuffer
<1>4. Framed'
  BY <1>1, <1>2 DEF Good, TypeOK, Status, Framed
<1> QED BY <1>1, <1>2, <1>3, <1>4 DEF IInv

\* The status after a copy.
LEMMA CopyStatus ==
    ASSUME NEW b, NEW at, NEW data, NEW n, NEW st, NEW l
    PROVE  Set(memcpy(b, at, data, n), st, l).status = st
BY DEF Set, memcpy

\* MSG_RecvData forgets only a packet that ZC_AssemblePkt refuses.
LEMMA NotForgotten ==
    ASSUME NEW b, NEW s, Good(b, s), b.status # "FULL",
           NEW data \in Seq(Byte), Len(data) >= 1, ~Refused(b, data)
    PROVE  RecvData(b, data).status # "IDLE"
<1>1. /\ b.status \in Status /\ b.len \in Nat /\ b.cells \in [1 .. MaxLen -> Byte]
      /\ Len(data) \in Nat
  BY DEF Good, Buf
<1>2. CASE b.status = "IDLE"
  <2>1. RecvData(b, data) = RecvFirst(b, data)
    BY <1>2 DEF RecvData
  <2>2. CASE Len(data) < HeadLen
    BY <2>1, <2>2, CopyStatus DEF RecvFirst
  <2>3. CASE ~(Len(data) < HeadLen)
    <3>1. Len(data) >= HeadLen
      BY <1>1, <2>3, HeadLenAssumption
    <3>2. ~(MsgLen(data) > MaxLen)
      BY <1>2, <3>1 DEF Refused, HeadFound, HeadOf
    <3>3. CASE MsgLen(data) <= Len(data)
      BY <2>1, <2>3, <3>2, <3>3, CopyStatus DEF RecvFirst
    <3>4. CASE ~(MsgLen(data) <= Len(data))
      BY <2>1, <2>3, <3>2, <3>4, CopyStatus DEF RecvFirst
    <3> QED BY <3>3, <3>4
  <2> QED BY <2>2, <2>3
<1>3. CASE b.status = "SEGMENT_HEAD"
  BY <1>1, <1>3, CopyStatus DEF RecvData, RecvMore
<1>4. CASE b.status = "SEGMENT_NOHEAD"
  <2> DEFINE h == memcpy(b, b.len, data, HeadLen - b.len)
  <2>1. b.len + Len(data) >= HeadLen => ~(MsgLen(h.cells) > MaxLen)
    BY <1>4 DEF Refused, HeadFound, HeadOf, WithHead
  <2>2. RecvData(b, data) = RecvHead(b, data)
    BY <1>4 DEF RecvData
  <2>3. CASE b.len + Len(data) < HeadLen
    BY <2>2, <2>3, CopyStatus DEF RecvHead
  <2>4. CASE ~(b.len + Len(data) < HeadLen)
    <3>1. ~(MsgLen(h.cells) > MaxLen)
      BY <1>1, <2>1, <2>4, HeadLenAssumption
    <3>2. CASE MsgLen(h.cells) <= Len(data) + b.len
      BY <2>2, <2>4, <3>1, <3>2, CopyStatus DEF RecvHead
    <3>3. CASE ~(MsgLen(h.cells) <= Len(data) + b.len)
      BY <2>2, <2>4, <3>1, <3>3, CopyStatus DEF RecvHead
    <3> QED BY <3>2, <3>3
  <2> QED BY <2>3, <2>4
<1> QED BY <1>1, <1>2, <1>3, <1>4 DEF Status

\* What is put together from a piece that ZC_AssemblePkt does not refuse.
LEMMA DataGood ==
    ASSUME NEW b, NEW s, Good(b, s), b.status # "FULL",
           NEW data \in Seq(Byte), Len(data) >= 1, ~Refused(b, data)
    PROVE  LET r == AssemblePkt(b, data)
           IN Good(r, s \o data) /\ r.status # "IDLE"
<1> DEFINE r == RecvData(b, data)
<1>1. AssemblePkt(b, data) = r
  BY DEF AssemblePkt
<1>2. r.status # "IDLE"
  BY NotForgotten
<1>3. b.status \in Status
  BY DEF Good, Buf
<1>4. Good(r, After(r, s, data))
  <2>1. CASE b.status = "IDLE"
    <3>1. r = RecvFirst(b, data)
      BY <2>1 DEF RecvData
    <3> QED BY <2>1, <3>1, FirstGood
  <2>2. CASE b.status = "SEGMENT_HEAD"
    <3>1. r = RecvMore(b, data)
      BY <2>2 DEF RecvData
    <3> QED BY <2>2, <3>1, MoreGood
  <2>3. CASE b.status = "SEGMENT_NOHEAD"
    <3>1. r = RecvHead(b, data)
      BY <2>3 DEF RecvData
    <3> QED BY <2>3, <3>1, HeadGood
  <2> QED BY <1>3, <2>1, <2>2, <2>3 DEF Status
<1> QED BY <1>1, <1>2, <1>4 DEF After

\* The header that is complete now has the magic number, or had it before.
LEMMA MagicSeen ==
    ASSUME NEW b, NEW s, Good(b, s), b.status # "FULL",
           b.status = "SEGMENT_HEAD" => s[2] = Magic,
           NEW data \in Seq(Byte), Len(data) >= 1, ~Refused(b, data),
           HeadLen <= Len(s \o data)
    PROVE  (s \o data)[2] = Magic
<1>1. /\ b \in Buf /\ b.status \in Status /\ b.len \in Nat /\ s \in Seq(Byte)
      /\ b.extent <= MaxLen
  BY DEF Good, Buf
<1>2. HeadLen \in Nat /\ 2 <= HeadLen /\ HeadLen <= MaxLen /\ MaxLen \in Nat
  BY HeadLenAssumption, MaxLenAssumption, TwoBytesAssumption
<1>3. CASE b.status = "IDLE"
  <2>1. s \o data = data
    BY <1>3 DEF Good
  <2>2. HeadFound(b, data) /\ HeadOf(b, data) = data
    BY <1>2, <1>3, <2>1 DEF HeadFound, HeadOf
  <2> QED BY <2>1, <2>2 DEF Refused
<1>4. CASE b.status = "SEGMENT_HEAD"
  <2>1. Len(s) >= 2 /\ s[2] = Magic
    BY <1>1, <1>2, <1>4 DEF Good
  <2> QED BY <1>1, <2>1
<1>5. CASE b.status = "SEGMENT_NOHEAD"
  <2> DEFINE k == HeadLen - b.len
             h == memcpy(b, b.len, data, k)
  <2>1. b.len = Len(s) /\ b.len < HeadLen /\ Holds(b, s, b.len)
    BY <1>1, <1>5 DEF Good, Holds
  <2>2. Len(s \o data) = b.len + Len(data) /\ Len(data) \in Nat
    BY <1>1, <2>1
  <2>3. /\ k \in Nat /\ k <= Len(data) /\ b.len + k = HeadLen /\ b.len + k <= MaxLen
    BY <1>1, <1>2, <2>1, <2>2
  <2>4. HeadFound(b, data) /\ HeadOf(b, data) = h.cells
    BY <1>1, <1>2, <1>5, <2>2 DEF HeadFound, HeadOf, WithHead
  <2> HIDE DEF k
  <2>5. h \in Buf /\ Copied(h, b, b.len, data, k)
    BY <1>1, <2>3, MemcpyOK
  <2> HIDE DEF h
  <2>6. Holds(h, s \o data, b.len + k)
    BY <1>1, <2>1, <2>3, <2>5, Appended
  <2>7. 2 \in 1 .. b.len + k
    BY <1>1, <1>2, <2>3
  <2>8. h.cells[2] = (s \o data)[2]
    BY <2>6, <2>7 DEF Holds
  <2> QED BY <2>4, <2>8 DEF Refused
<1> QED BY <1>1, <1>3, <1>4, <1>5 DEF Status

\* A header that is refused was copied within the buffer.
LEMMA RefusedGood ==
    ASSUME NEW b, NEW s, Good(b, s), b.status # "FULL",
           NEW data \in Seq(Byte), Refused(b, data)
    PROVE  LET r == AssemblePkt(b, data)
           IN Good(r, <<>>) /\ r.status = "IDLE"
<1>1. b \in Buf /\ b.len \in Nat /\ b.extent <= MaxLen
  BY DEF Good, Buf
<1>2. CASE b.status = "IDLE"
  <2>1. AssemblePkt(b, data) = Set(b, "IDLE", 0)
    BY <1>2 DEF AssemblePkt
  <2> QED BY <1>1, <2>1, DropGood
<1>3. CASE b.status # "IDLE"
  <2> DEFINE k == HeadLen - b.len
             h == memcpy(b, b.len, data, k)
  <2>1. AssemblePkt(b, data) = Set(h, "IDLE", 0)
    BY <1>3 DEF AssemblePkt, WithHead
  <2>2. b.status = "SEGMENT_NOHEAD" /\ b.len + Len(data) >= HeadLen /\ b.len < HeadLen
    BY <1>3 DEF Refused, HeadFound, Good
  <2>3. k \in Nat /\ k <= Len(data) /\ b.len + k <= MaxLen
    BY <1>1, <2>2, HeadLenAssumption, MaxLenAssumption
  <2> HIDE DEF k
  <2>4. h \in Buf /\ h.extent <= MaxLen
    BY <1>1, <2>3, MemcpyOK
  <2> HIDE DEF h
  <2> QED BY <2>1, <2>4, DropGood
<1> QED BY <1>2, <1>3

\* The invariant makes a good buffer.
LEMMA BufferGood ==
    ASSUME UartInv
    PROVE  /\ Good(Buffer, since) /\ Buffer.status = status
           /\ Buffer.status # "FULL"
           /\ Buffer.status = "SEGMENT_HEAD" => since[2] = Magic
BY InvIsGood DEF UartInv, Buffer

\* ZC_RET_ERROR.
LEMMA ErrorStep ==
    ASSUME UartInv, AssembleError
    PROVE  UartInv'
<1> DEFINE r == AssemblePkt(Buffer, rest)
<1>1. Refused(Buffer, rest) /\ Become(r) /\ since' = <<>> /\ rest' = <<>> /\ packet' = packet
  BY DEF AssembleError
<1>2. rest \in Seq(Byte) /\ packet \in Seq(Byte) /\ PacketWhole
  BY DEF UartInv
<1>3. Good(r, <<>>) /\ r.status = "IDLE"
  BY <1>1, <1>2, BufferGood, RefusedGood
<1> HIDE DEF r
<1>4. IInv' /\ status' = "IDLE"
  BY <1>1, <1>3, BecomeGood
<1>5. rest' \in Seq(Byte) /\ packet' \in Seq(Byte) /\ PacketWhole'
  BY <1>1, <1>2 DEF PacketWhole
<1> QED BY <1>4, <1>5 DEF UartInv

\* A header that is in the buffer is as long as what came in.
LEMMA PartStep ==
    ASSUME UartInv, AssemblePart
    PROVE  UartInv'
<1> DEFINE r == AssemblePkt(Buffer, rest)
<1>1. /\ rest # <<>> /\ ~Refused(Buffer, rest) /\ r.status # "FULL"
      /\ Become(r) /\ since' = since \o rest /\ rest' = <<>> /\ packet' = packet
  BY DEF AssemblePart
<1>2. rest \in Seq(Byte) /\ packet \in Seq(Byte) /\ PacketWhole
  BY DEF UartInv
<1>3. Len(rest) >= 1
  BY <1>1, <1>2
<1>4. Good(r, since \o rest)
  BY <1>1, <1>2, <1>3, BufferGood, DataGood
<1>5. HeadLen <= Len(since \o rest) => (since \o rest)[2] = Magic
  BY <1>1, <1>2, <1>3, BufferGood, MagicSeen
<1> HIDE DEF r
<1>6. IInv' /\ status' = r.status
  BY <1>1, <1>4, BecomeGood
<1>7. status' = "SEGMENT_HEAD" => since'[2] = Magic
  <2>1. r.status = "SEGMENT_HEAD" => HeadLen <= Len(since \o rest)
    BY <1>4 DEF Good
  <2> QED BY <1>1, <1>5, <1>6, <2>1
<1>8. rest' \in Seq(Byte) /\ packet' \in Seq(Byte) /\ PacketWhole'
  BY <1>1, <1>2 DEF PacketWhole
<1> QED BY <1>1, <1>6, <1>7, <1>8 DEF UartInv

\* The end of a sequence is one.
LEMMA LastOK ==
    ASSUME NEW s \in Seq(Byte), NEW n \in Nat, n <= Len(s)
    PROVE  Last(s, n) \in Seq(Byte)
<1>1. Len(s) - n + 1 \in 1 .. Len(s) + 1 /\ Len(s) \in Nat
  OBVIOUS
<1> QED BY <1>1 DEF Last

\* A packet that is handed on is the beginning of what came in.
LEMMA FullStep ==
    ASSUME UartInv, AssembleFull
    PROVE  UartInv'
<1> DEFINE r == AssemblePkt(Buffer, rest)
           s == since \o rest
<1>1. /\ rest # <<>> /\ ~Refused(Buffer, rest) /\ r.status = "FULL"
      /\ Become(Set(r, "IDLE", 0)) /\ since' = <<>>
      /\ packet' = SubSeq(r.cells, 1, r.len)
      /\ rest' = Last(rest, LeftLen(Buffer, r, rest))
  BY DEF AssembleFull
<1>2. rest \in Seq(Byte) /\ Len(rest) >= 1 /\ Len(rest) \in Nat
  BY <1>1 DEF UartInv
<1>3. Good(r, s)
  BY <1>1, <1>2, BufferGood, DataGood
<1>4. HeadLen <= Len(s) => s[2] = Magic
  BY <1>1, <1>2, BufferGood, MagicSeen
<1>5. Good(Buffer, since)
  BY BufferGood
<1> HIDE DEF r
<1>6. /\ r \in Buf /\ r.len \in Nat /\ r.len <= MaxLen /\ r.len <= Len(s)
      /\ \A i \in 1 .. r.len : r.cells[i] = s[i]
      /\ HeadLen <= r.len /\ r.len = MsgLen(s)
      /\ s \in Seq(Byte) /\ r.extent <= MaxLen
  BY <1>1, <1>3 DEF Good, Buf
<1>7. HeadLen \in Nat /\ 2 <= HeadLen /\ MaxLen \in Nat /\ Len(s) \in Nat
  BY <1>6, HeadLenAssumption, MaxLenAssumption, TwoBytesAssumption
<1>8. r.cells[1] = s[1] /\ r.cells[2] = s[2] /\ s[2] = Magic
  BY <1>4, <1>6, <1>7
<1>9. r.len = MsgLen(r.cells)
  BY <1>6, <1>8 DEF MsgLen
<1>10. IInv' /\ status' = "IDLE"
  <2> DEFINE e == Set(r, "IDLE", 0)
  <2>1. Good(e, <<>>) /\ e.status = "IDLE"
    BY <1>6, DropGood
  <2>2. Become(e)
    BY <1>1
  <2> HIDE DEF e
  <2> QED BY <1>1, <2>1, <2>2, BecomeGood
<1>11. packet' \in Seq(Byte) /\ PacketWhole'
  <2>1. r.cells \in [1 .. MaxLen -> Byte]
    BY <1>6 DEF Buf
  <2>2. /\ packet' \in Seq(Byte) /\ Len(packet') = r.len
        /\ packet'[1] = r.cells[1] /\ packet'[2] = r.cells[2]
    <3>1. \A i \in 1 .. r.len : i \in 1 .. MaxLen /\ r.cells[i] \in Byte
      BY <1>6, <1>7, <2>1
    <3>2. packet' = [i \in 1 .. r.len |-> r.cells[i]]
      BY <1>1, <1>6, <1>7, <2>1
    <3>3. packet' \in [1 .. r.len -> Byte] /\ 1 \in 1 .. r.len /\ 2 \in 1 .. r.len
      BY <1>6, <1>7, <3>1, <3>2
    <3>4. packet' \in Seq(Byte) /\ Len(packet') = r.len
      BY <1>6, <3>3
    <3> QED BY <3>2, <3>3, <3>4
  <2>3. MsgLen(packet') = MsgLen(r.cells)
    BY <2>2 DEF MsgLen
  <2> QED BY <1>6, <1>8, <1>9, <2>2, <2>3 DEF PacketWhole
<1>12. rest' \in Seq(Byte)
  <2>1. CASE Buffer.status = "IDLE"
    <3>1. s = rest
      BY <1>2, <1>5, <2>1 DEF Good
    <3>2. LeftLen(Buffer, r, rest) = Len(rest) - r.len
      BY <1>6, <2>1, <3>1 DEF LeftLen
    <3>3. Len(rest) - r.len \in Nat /\ Len(rest) - r.len <= Len(rest)
      BY <1>2, <1>6, <3>1
    <3> QED BY <1>1, <1>2, <3>2, <3>3, LastOK
  <2>2. CASE Buffer.status # "IDLE"
    <3>1. LeftLen(Buffer, r, rest) = Len(rest)
      BY <1>2, <1>6, <1>9, <2>2 DEF LeftLen
    <3> QED BY <1>1, <1>2, <3>1, LastOK
  <2> QED BY <2>1, <2>2
<1> QED BY <1>10, <1>11, <1>12 DEF UartInv

\* The driver, and the tasks that empty the buffer.
LEMMA OutsideStep ==
    ASSUME UartInv, Uart \/ Reset \/ UNCHANGED uartVars
    PROVE  UartInv'
<1>1. CASE Uart
  <2>1. rest' \in Seq(Byte)
    <3>1. PICK n \in 1 .. MaxChunk : \E data \in [1 .. n -> Byte] : rest' = data
      BY <1>1 DEF Uart
    <3>2. n \in Nat
      BY MaxChunkAssumption
    <3> QED BY <3>1, <3>2
  <2>2. packet' = <<>> /\ UNCHANGED vars
    BY <1>1 DEF Uart
  <2>3. PacketWhole' /\ packet' \in Seq(Byte)
    BY <2>2 DEF PacketWhole
  <2>4. IInv' /\ status' = status /\ since' = since
    BY <2>2 DEF UartInv, IInv, TypeOK, WithinBuffer, Framed, vars
  <2> QED BY <2>1, <2>3, <2>4 DEF UartInv
<1>2. CASE Reset
  <2>1. IInv' /\ status' = "IDLE"
    BY <1>2, ReleaseKeeps DEF UartInv, Reset, Release
  <2>2. UNCHANGED <<rest, packet>>
    BY <1>2 DEF Reset
  <2> QED BY <2>1, <2>2 DEF UartInv, PacketWhole
<1>3. CASE UNCHANGED uartVars
  BY <1>3 DEF uartVars, UartInv, IInv, TypeOK, WithinBuffer, Framed, PacketWhole
<1> QED BY <1>1, <1>2, <1>3

\* The invariant of the framer of the UART.
LEMMA UartInvariance == UartSpec => []UartInv
<1>1. UartInit => UartInv
  <2> SUFFICES ASSUME UartInit PROVE UartInv
    OBVIOUS
  <2>1. Init /\ rest = <<>> /\ packet = <<>>
    BY DEF UartInit
  <2>2. status = "IDLE"
    BY <2>1 DEF Init
  <2>3. rest \in Seq(Byte) /\ packet \in Seq(Byte) /\ PacketWhole
    BY <2>1 DEF PacketWhole
  <2> QED BY <2>1, <2>2, <2>3, InitIInv DEF UartInv
<1>2. UartInv /\ [UartNext]_uartVars => UartInv'
  BY ErrorStep, PartStep, FullStep, OutsideStep DEF UartNext, Moudlefunc
<1> QED BY <1>1, <1>2, PTL DEF UartSpec

\* Whatever the cuts, the resets and the garbage on the line, g_struUartBuffer
\* stays whole, no copy of ZC_AssemblePkt leaves it, and ZC_RecvDataFromMoudle
\* gets only packets with the magic number and of the announced length.
THEOREM UartIsSound == UartSpec => []UartSound
<1>1. UartInv => UartSound
  BY DEF UartInv, IInv, UartSound, UartTypeOK
<1> QED BY <1>1, UartInvariance, PTL

\* The same cuts leave in the buffer what came in since it was idle, as in
\* MSG_RecvData.
THEOREM UartFramed == UartSpec => []Framed
<1>1. UartInv => Framed
  BY DEF UartInv, IInv
<1> QED BY <1>1, UartInvariance, PTL
=============================================================================
