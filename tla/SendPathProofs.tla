---------------------------- MODULE SendPathProofs ----------------------------
(***************************************************************************)
(* Proofs about SendPath, for any number of buffers, connections and       *)
(* messages: what MSG_Init, which resets buffers and queue in the middle   *)
(* of a send, cannot break, and what repairs the rest in time, unless      *)
(* HF_WakeUp skips the repair.                                             *)
(***************************************************************************)
EXTENDS SendPath, FiniteSetTheorems, TLAPS

-----------------------------------------------------------------------------
(***************************************************************************)
(* Buffers and queue, as a record s of both and the count.                 *)
(***************************************************************************)
Cell == [full : BOOLEAN, msg : Message]
Stores == [buf : [Buf -> Cell], queue : Seq(Buf), num : Nat]

StoreOK(s) ==
    /\ s \in Stores /\ Len(s.queue) <= NBuf
    /\ \A b \in Buf : s.buf[b].msg.conn <= conn

InQueue(s, b) == \E i \in DOMAIN s.queue : s.queue[i] = b

\* Every FULL buffer has one place: in the queue, or in flight, f.
PlacedIn(s, f) ==
    /\ IsInjective(s.queue)
    /\ \A i \in DOMAIN s.queue : s.buf[s.queue[i]].full
    /\ \A b \in Buf : s.buf[b].full => b = f \/ InQueue(s, b)
    /\ ~InQueue(s, f)

\* Messages made for the latest connection, and those queued.
New(m) == m.conn = conn
MsgAt(s, i) == s.buf[s.queue[i]].msg
AllNew(s) == \A i \in DOMAIN s.queue : New(MsgAt(s, i))
NewLast(s) == \A i, j \in DOMAIN s.queue : i < j /\ New(MsgAt(s, i)) => New(MsgAt(s, j))

\* The last k messages of the queue are the new ones, numbered up to m.
Numbered(s, k, m) ==
    /\ k \in Nat /\ m \in Nat /\ k <= Len(s.queue)
    /\ \A i \in DOMAIN s.queue :
          /\ New(MsgAt(s, i)) <=> i > Len(s.queue) - k
          /\ New(MsgAt(s, i)) => MsgAt(s, i).num = m - Len(s.queue) + i

\* There is a first idle buffer.
LEMMA FirstIdleOK ==
    ASSUME NEW s, IdleBufs(s) # {}
    PROVE  FirstIdle(s) \in Buf /\ ~s.buf[FirstIdle(s)].full
<1>1. IdleBufs(s) \subseteq Nat
  BY DEF IdleBufs, Buf
<1>2. PICK b \in IdleBufs(s) : \A c \in IdleBufs(s) : ~(<<c, b>> \in OpToRel(<, Nat))
  BY <1>1, NatLessThanWellFounded, WFMin
<1>3. \A c \in IdleBufs(s) : b <= c
  <2> TAKE c \in IdleBufs(s)
  <2>1. b \in Nat /\ c \in Nat /\ <<c, b>> \notin OpToRel(<, Nat)
    BY <1>1, <1>2
  <2>2. ~(c < b)
    BY <2>1 DEF OpToRel
  <2>3. b \in Nat /\ c \in Nat
    BY <1>1
  <2> QED BY <2>2, <2>3
<1>4. FirstIdle(s) \in IdleBufs(s)
  BY <1>3 DEF FirstIdle
<1> QED BY <1>4 DEF IdleBufs

\* An idle buffer leaves a place in the queue: MSG_PushMsg does not refuse.
LEMMA RoomLeft ==
    ASSUME NEW s \in Stores, NEW f, PlacedIn(s, f), NEW b \in Buf, ~s.buf[b].full
    PROVE  Len(s.queue) < NBuf
<1> DEFINE n == Len(s.queue)
<1>1. s.queue \in Seq(Buf) /\ n \in Nat /\ NBuf \in Nat
  BY NBufAssumption DEF Stores
<1>2. s.queue \in [1 .. n -> Buf \ {b}]
  <2>1. \A i \in 1 .. n : s.queue[i] \in Buf /\ s.queue[i] # b
    BY <1>1 DEF PlacedIn
  <2> QED BY <1>1, <2>1
<1>3. s.queue \in Injection(1 .. n, Buf \ {b})
  BY <1>2 DEF Injection, PlacedIn
<1>4. IsFiniteSet(Buf) /\ Cardinality(Buf) = NBuf
  BY <1>1, NBufAssumption, FS_Interval DEF Buf
<1>5. IsFiniteSet(Buf \ {b}) /\ Cardinality(Buf \ {b}) = NBuf - 1
  BY <1>4, FS_RemoveElement
<1>6. Cardinality(1 .. n) = n
  BY <1>1, FS_Interval
<1>7. Cardinality(1 .. n) <= Cardinality(Buf \ {b})
  BY <1>3, <1>5, FS_Injection
<1> QED BY <1>1, <1>5, <1>6, <1>7

\* What the first half of PCT_SendMsgToCloud does with an idle buffer.
FilledBy(s, t, b) ==
    /\ t.queue = s.queue /\ t.num = s.num + 1
    /\ \A c \in Buf : c # b => t.buf[c] = s.buf[c]
    /\ t.buf[b].full = s.buf[b].full
    /\ t.buf[b].msg = [conn |-> conn, num |-> s.num + 1]

LEMMA FillOK ==
    ASSUME NEW s, StoreOK(s), conn \in 0 .. MaxConn, NEW b \in Buf, NEW t, t = Fill(s, b)
    PROVE  StoreOK(t) /\ FilledBy(s, t, b)
<1> DEFINE m == [conn |-> conn, num |-> s.num + 1]
<1>1. s \in Stores /\ m \in Message
  BY DEF StoreOK, Stores, Message
<1>2. t = [s EXCEPT !.buf[b].msg = m, !.num = s.num + 1]
  BY DEF Fill
<1>3. /\ t.queue = s.queue /\ t.num = s.num + 1
      /\ t.buf = [s.buf EXCEPT ![b].msg = m]
      /\ t = [buf |-> t.buf, queue |-> t.queue, num |-> t.num]
  BY <1>1, <1>2 DEF Stores
<1> HIDE DEF m
<1>4. t.buf[b] = [s.buf[b] EXCEPT !.msg = m] /\ t.buf \in [Buf -> Cell]
  <2>1. s.buf \in [Buf -> Cell] /\ s.buf[b] \in Cell
    BY <1>1 DEF Stores
  <2>2. [s.buf[b] EXCEPT !.msg = m] \in Cell
    BY <1>1, <2>1 DEF Cell
  <2> QED BY <1>3, <2>1, <2>2
<1>5. t.buf[b].full = s.buf[b].full /\ t.buf[b].msg = m
  BY <1>1, <1>4 DEF Stores, Cell
<1>6. \A c \in Buf : c # b => t.buf[c] = s.buf[c]
  BY <1>1, <1>3 DEF Stores
<1>7. t \in Stores
  BY <1>1, <1>3, <1>4 DEF Stores
<1>8. m.conn <= conn
  BY DEF m
<1> QED BY <1>3, <1>5, <1>6, <1>7, <1>8 DEF StoreOK, FilledBy, m

\* And the second half, when the queue has room.
QueuedBy(s, t, b) ==
    /\ t.num = s.num
    /\ \A c \in Buf : t.buf[c].msg = s.buf[c].msg
    /\ \A c \in Buf : c # b => t.buf[c] = s.buf[c]
    /\ t.buf[b].full
    /\ t.queue = IF Len(s.queue) < NBuf THEN Append(s.queue, b) ELSE s.queue

LEMMA EnqueueOK ==
    ASSUME NEW s, StoreOK(s), NEW b \in Buf, NEW t, t = Enqueue(s, b)
    PROVE  StoreOK(t) /\ QueuedBy(s, t, b)
<1> DEFINE q == IF Len(s.queue) < NBuf THEN Append(s.queue, b) ELSE s.queue
<1>1. s \in Stores /\ s.queue \in Seq(Buf) /\ s.buf \in [Buf -> Cell] /\ s.buf[b] \in Cell
  BY DEF StoreOK, Stores
<1>2. q \in Seq(Buf) /\ Len(q) <= NBuf
  BY <1>1, NBufAssumption DEF StoreOK
<1>3. t = [s EXCEPT !.buf[b].full = TRUE, !.queue = q]
  BY DEF Enqueue
<1> HIDE DEF q
<1>4. /\ t.queue = q /\ t.num = s.num
      /\ t.buf = [s.buf EXCEPT ![b].full = TRUE]
      /\ t = [buf |-> t.buf, queue |-> t.queue, num |-> t.num]
  BY <1>1, <1>3 DEF Stores
<1>5. t.buf[b] = [s.buf[b] EXCEPT !.full = TRUE] /\ t.buf \in [Buf -> Cell]
  <2>1. [s.buf[b] EXCEPT !.full = TRUE] \in Cell
    BY <1>1 DEF Cell
  <2> QED BY <1>1, <1>4, <2>1
<1>6. t.buf[b].full = TRUE /\ t.buf[b].msg = s.buf[b].msg
  BY <1>1, <1>5 DEF Cell
<1>7. \A c \in Buf : c # b => t.buf[c] = s.buf[c]
  BY <1>1, <1>4
<1>8. t \in Stores
  BY <1>1, <1>2, <1>4, <1>5 DEF Stores
<1> QED BY <1>2, <1>4, <1>6, <1>7, <1>8 DEF StoreOK, QueuedBy, q

\* An idle buffer that is being filled is not in the queue.
LEMMA FillKeeps ==
    ASSUME NEW s, StoreOK(s), NEW b \in Buf, ~s.buf[b].full, NEW t, FilledBy(s, t, b)
    PROVE  /\ \A f : PlacedIn(s, f) => PlacedIn(t, f)
           /\ AllNew(s) => AllNew(t)
           /\ \A f : PlacedIn(s, f) => \A i \in DOMAIN t.queue : MsgAt(t, i) = MsgAt(s, i)
<1>1. /\ t.queue = s.queue /\ s.queue \in Seq(Buf) /\ DOMAIN s.queue = 1 .. Len(s.queue)
      /\ \A i \in DOMAIN s.queue : s.queue[i] \in Buf
  BY DEF FilledBy, StoreOK, Stores
<1>2. /\ \A c \in Buf : t.buf[c].full = s.buf[c].full
      /\ \A c \in Buf : c # b => t.buf[c] = s.buf[c]
      /\ New(t.buf[b].msg)
  BY DEF FilledBy, New
<1>3. \A f : PlacedIn(s, f) => PlacedIn(t, f)
  BY <1>1, <1>2 DEF PlacedIn, InQueue
<1>4. AllNew(s) => AllNew(t)
  BY <1>1, <1>2 DEF AllNew, MsgAt
<1>5. \A f : PlacedIn(s, f) => \A i \in DOMAIN t.queue : MsgAt(t, i) = MsgAt(s, i)
  BY <1>1, <1>2 DEF PlacedIn, MsgAt
<1> QED BY <1>3, <1>4, <1>5

\* A buffer that is queued after its message was made for this connection.
LEMMA EnqueueKeeps ==
    ASSUME NEW s, StoreOK(s), NEW b \in Buf, ~s.buf[b].full, New(s.buf[b].msg),
           NEW t, QueuedBy(s, t, b)
    PROVE  /\ AllNew(s) => AllNew(t)
           /\ \A f : PlacedIn(s, f) /\ b # f =>
                 /\ PlacedIn(t, f)
                 /\ NewLast(s) => NewLast(t)
                 /\ \A k, m : Numbered(s, k, m) /\ s.buf[b].msg.num = m + 1
                                => Numbered(t, k + 1, m + 1)
<1> DEFINE n == Len(s.queue)
<1>1. /\ s.queue \in Seq(Buf) /\ DOMAIN s.queue = 1 .. n /\ n \in Nat
      /\ \A i \in 1 .. n : s.queue[i] \in Buf
  BY DEF StoreOK, Stores
<1>2. /\ \A c \in Buf : t.buf[c].msg = s.buf[c].msg
      /\ \A c \in Buf : c # b => t.buf[c] = s.buf[c]
      /\ t.buf[b].full
  BY DEF QueuedBy
<1>3. CASE Len(s.queue) < NBuf
  <2>1. /\ t.queue = Append(s.queue, b) /\ DOMAIN t.queue = 1 .. n + 1 /\ Len(t.queue) = n + 1
        /\ t.queue[n + 1] = b /\ \A i \in 1 .. n : t.queue[i] = s.queue[i]
    BY <1>1, <1>3 DEF QueuedBy
  <2>2. \A i : i \in 1 .. n + 1 <=> i \in 1 .. n \/ i = n + 1
    BY <1>1
  <2>3. /\ \A i \in 1 .. n : MsgAt(t, i) = MsgAt(s, i)
        /\ MsgAt(t, n + 1) = s.buf[b].msg
    BY <1>1, <1>2, <2>1 DEF MsgAt
  <2>4. AllNew(s) => AllNew(t)
    BY <1>1, <2>1, <2>2, <2>3 DEF AllNew
  <2>5. ASSUME NEW f, PlacedIn(s, f), b # f
        PROVE  PlacedIn(t, f)
    <3>1. \A i \in 1 .. n : s.queue[i] # b
      BY <1>1, <2>5 DEF PlacedIn
    <3>2. IsInjective(t.queue)
      <4> SUFFICES ASSUME NEW i \in 1 .. n + 1, NEW j \in 1 .. n + 1, t.queue[i] = t.queue[j]
                   PROVE  i = j
        BY <2>1 DEF IsInjective
      <4> QED BY <1>1, <2>1, <2>2, <2>5, <3>1 DEF PlacedIn, IsInjective
    <3>3. \A i \in DOMAIN t.queue : t.buf[t.queue[i]].full
      BY <1>1, <1>2, <2>1, <2>2, <2>5 DEF PlacedIn
    <3>4. \A c \in Buf : InQueue(t, c) <=> InQueue(s, c) \/ c = b
      BY <1>1, <2>1, <2>2 DEF InQueue
    <3>5. ~InQueue(t, f)
      BY <1>1, <2>1, <2>2, <2>5 DEF InQueue, PlacedIn
    <3> QED BY <1>2, <2>5, <3>2, <3>3, <3>4, <3>5 DEF PlacedIn
  <2>6. NewLast(s) => NewLast(t)
    <3> SUFFICES ASSUME NewLast(s), NEW i \in 1 .. n + 1, NEW j \in 1 .. n + 1, i < j,
                        New(MsgAt(t, i))
                 PROVE  New(MsgAt(t, j))
      BY <2>1 DEF NewLast
    <3>1. CASE j = n + 1
      BY <2>3, <3>1
    <3>2. CASE j # n + 1
      <4>1. i \in 1 .. n /\ j \in 1 .. n
        BY <1>1, <3>2
      <4> QED BY <1>1, <2>3, <4>1 DEF NewLast
    <3> QED BY <3>1, <3>2
  <2>7. ASSUME NEW k, NEW m, Numbered(s, k, m), s.buf[b].msg.num = m + 1
        PROVE  Numbered(t, k + 1, m + 1)
    <3>1. k \in Nat /\ m \in Nat /\ k <= n
      BY <2>7 DEF Numbered
    <3>2. ASSUME NEW i \in 1 .. n
          PROVE  /\ New(MsgAt(t, i)) <=> i > (n + 1) - (k + 1)
                 /\ New(MsgAt(t, i)) => MsgAt(t, i).num = (m + 1) - (n + 1) + i
      <4>1. /\ New(MsgAt(t, i)) <=> i > n - k
            /\ New(MsgAt(t, i)) => MsgAt(t, i).num = m - n + i
        BY <1>1, <2>3, <2>7 DEF Numbered
      <4>2. (n + 1) - (k + 1) = n - k /\ (m + 1) - (n + 1) + i = m - n + i
        BY <1>1, <3>1
      <4> QED BY <4>1, <4>2
    <3>3. n + 1 > (n + 1) - (k + 1) /\ m + 1 = (m + 1) - (n + 1) + (n + 1)
      <4>1. n \in Nat /\ k \in Nat /\ m \in Nat
        BY <1>1, <3>1
      <4> HIDE DEF n
      <4> QED BY <4>1
    <3>4. k + 1 \in Nat /\ m + 1 \in Nat /\ k + 1 <= n + 1
      BY <1>1, <3>1
    <3> HIDE DEF n
    <3> QED BY <2>1, <2>2, <2>3, <2>7, <3>2, <3>3, <3>4 DEF Numbered
  <2> QED BY <2>4, <2>5, <2>6, <2>7
<1>4. CASE ~(Len(s.queue) < NBuf)
  <2>1. t.queue = s.queue
    BY <1>4 DEF QueuedBy
  <2>2. AllNew(s) => AllNew(t)
    BY <1>1, <1>2, <2>1 DEF AllNew, MsgAt
  <2>3. \A f : ~PlacedIn(s, f)
    BY <1>4, RoomLeft DEF StoreOK
  <2> QED BY <2>2, <2>3
<1> QED BY <1>3, <1>4

\* MSG_Init.
LEMMA InitOK ==
    ASSUME NEW s, StoreOK(s), NEW t, t = MsgInit(s)
    PROVE  /\ StoreOK(t) /\ t.queue = <<>> /\ t.num = s.num
           /\ \A b \in Buf : ~t.buf[b].full /\ t.buf[b].msg = s.buf[b].msg
           /\ \A f : PlacedIn(t, f)
           /\ AllNew(t) /\ NewLast(t)
<1>1. s \in Stores
  BY DEF StoreOK
<1>2. /\ t.queue = <<>> /\ t.num = s.num
      /\ t.buf = [b \in Buf |-> [s.buf[b] EXCEPT !.full = FALSE]]
      /\ t = [buf |-> t.buf, queue |-> t.queue, num |-> t.num]
  BY <1>1 DEF MsgInit, Stores
<1>3. \A b \in Buf : /\ [s.buf[b] EXCEPT !.full = FALSE] \in Cell
                     /\ t.buf[b] = [s.buf[b] EXCEPT !.full = FALSE]
                     /\ ~t.buf[b].full /\ t.buf[b].msg = s.buf[b].msg
  <2> TAKE b \in Buf
  <2>1. s.buf[b] \in Cell /\ t.buf[b] = [s.buf[b] EXCEPT !.full = FALSE]
    BY <1>1, <1>2 DEF Stores
  <2> QED BY <2>1 DEF Cell
<1>4. t \in Stores
  <2>1. t.buf \in [Buf -> Cell]
    BY <1>2, <1>3
  <2>2. t.queue \in Seq(Buf) /\ t.num \in Nat
    BY <1>1, <1>2 DEF Stores
  <2> QED BY <1>2, <2>1, <2>2 DEF Stores
<1>5. DOMAIN t.queue = {}
  BY <1>2
<1>6. \A f : PlacedIn(t, f)
  BY <1>3, <1>5 DEF PlacedIn, InQueue, IsInjective
<1>7. AllNew(t) /\ NewLast(t)
  BY <1>5 DEF AllNew, NewLast
<1>8. Len(t.queue) <= NBuf
  BY <1>2, NBufAssumption
<1> QED BY <1>2, <1>3, <1>4, <1>6, <1>7, <1>8 DEF StoreOK

\* What messages of a task that the others do not overtake do.  The buffer in
\* flight, f, is left alone while it is marked FULL.
Adds(s, t) ==
    /\ StoreOK(t) /\ s.num <= t.num
    /\ AllNew(s) => AllNew(t)
    /\ \A f : PlacedIn(s, f) /\ (f \in Buf => s.buf[f].full) =>
          /\ PlacedIn(t, f)
          /\ f \in Buf => t.buf[f] = s.buf[f]
          /\ NewLast(s) => NewLast(t)
          /\ \A k : Numbered(s, k, s.num) => Numbered(t, k + (t.num - s.num), t.num)

LEMMA SendOK ==
    ASSUME NEW s, StoreOK(s), conn \in 0 .. MaxConn, NEW alg, NEW t, t = SendMsgToCloud(s, alg)
    PROVE  Adds(s, t)
<1> USE DEF Adds
<1>1. s \in Stores /\ s.num \in Nat /\ s.queue \in Seq(Buf)
  BY DEF StoreOK, Stores
<1>2. CASE t = s
  <2>1. \A k : Numbered(s, k, s.num) => Numbered(t, k + (t.num - s.num), t.num)
    <3> SUFFICES ASSUME NEW k, Numbered(s, k, s.num)
                 PROVE  Numbered(t, k + (t.num - s.num), t.num)
      OBVIOUS
    <3>1. k \in Nat
      BY DEF Numbered
    <3>2. k + (t.num - s.num) = k
      BY <1>1, <1>2, <3>1
    <3> QED BY <1>2, <3>2
  <2> QED BY <1>1, <1>2, <2>1
<1>3. CASE IdleBufs(s) # {} /\ Encrypts(alg)
  <2> DEFINE b == FirstIdle(s)
             u == Fill(s, b)
  <2>1. b \in Buf /\ ~s.buf[b].full
    BY <1>3, FirstIdleOK
  <2>2. t = Enqueue(u, b)
    BY <1>3 DEF SendMsgToCloud
  <2> HIDE DEF b
  <2>3. StoreOK(u) /\ FilledBy(s, u, b)
    BY <2>1, FillOK
  <2> HIDE DEF u
  <2>4. StoreOK(t) /\ QueuedBy(u, t, b)
    BY <2>1, <2>2, <2>3, EnqueueOK
  <2>5. ~u.buf[b].full /\ New(u.buf[b].msg) /\ u.buf[b].msg.num = s.num + 1
    BY <2>1, <2>3 DEF FilledBy, New
  <2>6. t.num = s.num + 1
    BY <2>3, <2>4 DEF FilledBy, QueuedBy
  <2>7. AllNew(s) => AllNew(t)
    BY <2>1, <2>3, <2>4, <2>5, FillKeeps, EnqueueKeeps
  <2>8. ASSUME NEW f, PlacedIn(s, f), f \in Buf => s.buf[f].full
        PROVE  /\ PlacedIn(t, f)
               /\ f \in Buf => t.buf[f] = s.buf[f]
               /\ NewLast(s) => NewLast(t)
               /\ \A k : Numbered(s, k, s.num) => Numbered(t, k + (t.num - s.num), t.num)
    <3>1. b # f
      BY <2>1, <2>8
    <3>2. PlacedIn(u, f) /\ \A i \in DOMAIN u.queue : MsgAt(u, i) = MsgAt(s, i)
      BY <2>1, <2>3, <2>8, FillKeeps
    <3>3. u.queue = s.queue
      BY <2>3 DEF FilledBy
    <3>4. NewLast(s) => NewLast(u)
      BY <3>2, <3>3 DEF NewLast
    <3>5. \A k : Numbered(s, k, s.num) => Numbered(u, k, s.num)
      BY <3>2, <3>3 DEF Numbered
    <3>6. /\ PlacedIn(t, f)
          /\ NewLast(u) => NewLast(t)
          /\ \A k : Numbered(u, k, s.num) => Numbered(t, k + 1, s.num + 1)
      BY <2>1, <2>3, <2>4, <2>5, <3>1, <3>2, EnqueueKeeps
    <3>7. t.num - s.num = 1
      BY <1>1, <2>6
    <3>8. f \in Buf => t.buf[f] = s.buf[f]
      BY <2>3, <2>4, <3>1 DEF FilledBy, QueuedBy
    <3> QED BY <2>6, <3>4, <3>5, <3>6, <3>7, <3>8
  <2> QED BY <1>1, <2>4, <2>6, <2>7, <2>8
<1> QED BY <1>2, <1>3 DEF SendMsgToCloud

\* And two of them.
LEMMA TwoOK ==
    ASSUME NEW s, NEW t, NEW u, StoreOK(s), Adds(s, t), Adds(t, u)
    PROVE  Adds(s, u)
<1>1. s.num \in Nat /\ t.num \in Nat /\ u.num \in Nat
  BY DEF Adds, StoreOK, Stores
<1>2. ASSUME NEW f, PlacedIn(s, f), f \in Buf => s.buf[f].full
      PROVE  /\ PlacedIn(u, f)
             /\ f \in Buf => u.buf[f] = s.buf[f]
             /\ NewLast(s) => NewLast(u)
             /\ \A k : Numbered(s, k, s.num) => Numbered(u, k + (u.num - s.num), u.num)
  <2>1. /\ PlacedIn(t, f) /\ (f \in Buf => t.buf[f] = s.buf[f])
        /\ NewLast(s) => NewLast(t)
        /\ \A k : Numbered(s, k, s.num) => Numbered(t, k + (t.num - s.num), t.num)
    BY <1>2 DEF Adds
  <2>2. f \in Buf => t.buf[f].full
    BY <1>2, <2>1
  <2>3. /\ PlacedIn(u, f) /\ (f \in Buf => u.buf[f] = t.buf[f])
        /\ NewLast(t) => NewLast(u)
        /\ \A k : Numbered(t, k, t.num) => Numbered(u, k + (u.num - t.num), u.num)
    BY <2>1, <2>2 DEF Adds
  <2>4. \A k : Numbered(s, k, s.num) => Numbered(u, k + (u.num - s.num), u.num)
    <3> SUFFICES ASSUME NEW k, Numbered(s, k, s.num)
                 PROVE  Numbered(u, k + (u.num - s.num), u.num)
      OBVIOUS
    <3>1. k \in Nat
      BY DEF Numbered
    <3>2. (k + (t.num - s.num)) + (u.num - t.num) = k + (u.num - s.num)
      BY <1>1, <3>1
    <3>3. Numbered(u, (k + (t.num - s.num)) + (u.num - t.num), u.num)
      BY <2>1, <2>3
    <3> QED BY <3>2, <3>3
  <2> QED BY <2>1, <2>3, <2>4
<1>3. s.num <= u.num
  <2>1. s.num <= t.num /\ t.num <= u.num
    BY DEF Adds
  <2> QED BY <1>1, <2>1
<1>4. StoreOK(u) /\ (AllNew(s) => AllNew(u))
  BY DEF Adds
<1> QED BY <1>2, <1>3, <1>4 DEF Adds

-----------------------------------------------------------------------------
(***************************************************************************)
(* The inductive invariant.                                                *)
(***************************************************************************)
InFlight == cloud.pc \in {"popped", "sending"}

\* send() works on the socket of a connection: the lower tasks run.
Sending == At("sending") /\ cloud.fd # 0

\* No timer that sends is running.
Quiet == timer \cap {"heart", "moudle"} = {}

GivenUp == state = "DISCONNECT_CLOUD"

\* A connection that is given up while the agent is awake: the reconnection, with
\* its MSG_Init, comes before the next one, unless HF_WakeUp skips it.
Ending == GivenUp /\ netUp

Ops(S) == \A i \in DOMAIN cloud.todo : cloud.todo[i] \in S

Pcs == {"idle", "run", "encrypted", "connecting", "popped", "sending"}
CloudTask_T == [pc : Pcs, todo : Seq(Op), b : 0 .. NBuf, fd : 0 .. MaxConn, msg : Message]

\* What the program of HF_Cloudfunc is between two operations: a handler that
\* gives the connection up ends its session.
ForGood ==
    \A i, j \in DOMAIN cloud.todo :
        i < j /\ cloud.todo[i] = "disconnect" => cloud.todo[j] \in {"heart", "aes"}

Program ==
    /\ ~At("run") /\ ~At("encrypted") => cloud.todo = <<>>
    /\ At("encrypted") => cloud.todo # <<>>
    /\ GivenUp => Ops({"heart", "aes"})
    /\ ForGood

Typed ==
    /\ TypeOK /\ StoreOK(Store)
    /\ cloud \in CloudTask_T
    /\ out \in [fd : 0 .. MaxConn, msg : Message]
    /\ At("encrypted") \/ InFlight => cloud.b \in Buf
    /\ At("connecting") => conn < MaxConn
    /\ At("popped") => ~GivenUp
    /\ Program

\* Buffers and queue fit together, or the reconnection will repair them.
Flight == IF InFlight THEN cloud.b ELSE 0

Placed ==
    /\ PlacedIn(Store, Flight)
    /\ At("encrypted") => ~buf[cloud.b].full

Messy == Ending /\ cloud.todo = <<>> /\ (cloud.pc \in {"idle", "run"} \/ Sending)

\* Nothing happens while the agent waits for its reconnection timer.
Waits ==
    "reconnect" \in timer =>
        /\ state \in {"INIT", "ACCESS_NET"} /\ cloud.pc \in {"idle", "run"}
        /\ cloud.todo = <<>> /\ timer = {"reconnect"} /\ queue = <<>> /\ sock = 0

\* Without Wi-Fi a connection gets no further than its first message.
Deaf ==
    (~netUp /\ (sock # 0 \/ state = "ACCESS_NET" \/ At("connecting"))) =>
        /\ Quiet
        /\ Ops({"rsa", "WAIT_ACCESSRSP", "disconnect"})
        /\ sock # 0 => state \in {"WAIT_ACCESS", "WAIT_ACCESSRSP", "DISCONNECT_CLOUD"}

\* The buffer that send() works on is marked FULL, or nobody makes a message, or
\* the connection is given up.
Kept ==
    /\ Sending /\ ~netUp => Quiet
    /\ Sending /\ ~Ending => buf[cloud.b].full \/ Quiet
    /\ At("popped") /\ sock # 0 => buf[cloud.b].full
    /\ Sending /\ cloud.fd = sock /\ ~Ending => buf[cloud.b].msg = cloud.msg

\* No connection is newer than the latest, and a message is made for that one.
Recent ==
    /\ out.fd <= conn /\ cloud.fd <= conn
    /\ At("encrypted") => New(buf[cloud.b].msg)

\* The messages of the latest connection come last.
Ages ==
    /\ NewLast(Store)
    /\ At("popped") /\ New(buf[cloud.b].msg) => AllNew(Store)
    /\ At("sending") /\ cloud.fd = conn /\ New(cloud.msg) => AllNew(Store)
    /\ out.fd = conn /\ New(out.msg) =>
          /\ AllNew(Store)
          /\ alive /\ At("popped") => New(buf[cloud.b].msg)
          /\ alive /\ At("sending") /\ cloud.fd = conn => New(cloud.msg)
    /\ GivenUp \/ (Sending /\ ~buf[cloud.b].full) => AllNew(Store)

\* Of the messages accepted on this connection: the last one sent, the one in
\* flight, and the last one that is made.
Sent == IF out.fd = conn /\ New(out.msg) THEN out.msg.num ELSE 0
Flying ==
    IF \/ At("popped") /\ New(buf[cloud.b].msg)
       \/ At("sending") /\ New(cloud.msg) THEN 1 ELSE 0
Made == IF At("encrypted") THEN num - 1 ELSE num

\* Nothing is missing between them.
Complete ==
    /\ Numbered(Store, Made - Sent - Flying, Made)
    /\ At("popped") /\ New(buf[cloud.b].msg) => buf[cloud.b].msg.num = Sent + 1
    /\ At("encrypted") => buf[cloud.b].msg.num = num

\* Nothing will be sent on this connection any more.
Over ==
    /\ state \in {"DISCONNECT_CLOUD", "ACCESS_NET"} /\ Quiet /\ queue = <<>>
    /\ Ops({"disconnect"}) /\ ~At("encrypted") /\ ~At("popped")

Order ==
    alive =>
        /\ sock = conn /\ conn # 0
        /\ At("sending") => cloud.fd = conn
        /\ At("sending") /\ New(cloud.msg) => cloud.msg.num = Sent + 1
        /\ Ending \/ Over \/ Complete

\* What HF_WakeUp breaks when it skips a reconnection, until the next one.
Sound == (Placed \/ Messy) /\ Kept /\ Ages /\ Order

IInv == Typed /\ Waits /\ Deaf /\ Recent /\ (skipped \/ Sound)

-----------------------------------------------------------------------------
(***************************************************************************)
(* Steps that leave buffers and queue alone.                               *)
(***************************************************************************)
\* The buffer HF_Cloudfunc works on, if any, is the same as before.
SameWork ==
    /\ \A pc \in {"encrypted", "popped", "sending"} : At(pc)' <=> At(pc)
    /\ At("encrypted") \/ InFlight =>
          cloud'.b = cloud.b /\ cloud'.fd = cloud.fd /\ cloud'.msg = cloud.msg
    /\ cloud'.fd \in {0, cloud.fd}

LEMMA StoreKept ==
    ASSUME IInv, UNCHANGED <<store, sock, conn, out>>, SameWork, skipped => skipped',
           Typed', Waits', Deaf', alive' => alive,
           ~skipped' =>
               /\ (Messy => Messy') /\ (GivenUp' => GivenUp)
               /\ Sending => timer' = timer /\ (netUp => netUp') /\ (Ending => Ending')
               /\ alive' /\ (Ending \/ Over) => (Ending \/ Over)'
    PROVE  IInv'
<1> USE DEF SameWork, At
<1>1. Store' = Store /\ Sending' = Sending /\ InFlight' = InFlight /\ buf' = buf
      /\ Flight' = Flight /\ (At("encrypted")' <=> At("encrypted"))
      /\ cloud'.fd <= conn
      /\ (At("popped")' <=> At("popped")) /\ (At("sending")' <=> At("sending"))
  BY DEF IInv, Store, store, Sending, InFlight, Flight, Recent, Typed, TypeOK
<1>2. Recent'
  BY <1>1 DEF IInv, Recent, New
<1>3. SUFFICES ASSUME ~skipped' PROVE Sound'
  BY <1>2 DEF IInv
<1>4. Typed /\ Sound
  BY <1>3 DEF IInv
<1>5. (Placed \/ Messy)'
  BY <1>1, <1>3, <1>4 DEF Sound, Placed, PlacedIn
<1>6. Kept'
  BY <1>1, <1>3, <1>4 DEF Sound, Kept, Quiet, InFlight, Sending
<1>7. Ages'
  BY <1>1, <1>3, <1>4 DEF Sound, Ages, New, NewLast, AllNew, MsgAt, Sending, InFlight
<1>8. Order'
  <2>1. Sent' = Sent /\ Flying' = Flying /\ Made' = Made
    BY <1>1 DEF Sent, Flying, Made, New, store, InFlight
  <2>2. Complete => Complete'
    BY <1>1, <2>1 DEF Complete, Numbered, New, MsgAt, store, InFlight
  <2> QED BY <1>1, <1>3, <1>4, <2>1, <2>2 DEF Sound, Order, New, InFlight
<1> QED BY <1>5, <1>6, <1>7, <1>8 DEF Sound

\* The next operation is done, of a program of operations of S.
NextOf(S) == Ops(S) => Next1 \in S /\ Ops(S)'

LEMMA DoneOK ==
    ASSUME cloud \in CloudTask_T, ForGood, cloud.todo # <<>>, cloud'.todo = Tail(cloud.todo)
    PROVE  /\ Next1 \in Op
           /\ cloud'.todo \in Seq(Op)
           /\ ForGood'
           /\ NextOf({"heart", "aes"})
           /\ NextOf({"rsa", "WAIT_ACCESSRSP", "disconnect"})
           /\ NextOf({"disconnect"})
           /\ Next1 = "disconnect" => Ops({"heart", "aes"})'
<1> DEFINE p == cloud.todo
           q == cloud'.todo
<1>1. p \in Seq(Op) /\ p # <<>> /\ Len(p) \in Nat /\ Len(p) >= 1 /\ 1 \in DOMAIN p
  BY DEF CloudTask_T
<1>2. /\ q \in Seq(Op) /\ DOMAIN q = 1 .. Len(p) - 1
      /\ \A i \in DOMAIN q : i \in Int /\ q[i] = p[i + 1] /\ i + 1 \in DOMAIN p /\ 1 < i + 1
  BY <1>1
<1>3. ForGood'
  <2> SUFFICES ASSUME NEW i \in DOMAIN q, NEW j \in DOMAIN q, i < j, q[i] = "disconnect"
               PROVE  q[j] \in {"heart", "aes"}
    BY DEF ForGood
  <2>1. i + 1 < j + 1
    BY <1>2
  <2> QED BY <1>2, <2>1 DEF ForGood
<1> QED BY <1>1, <1>2, <1>3 DEF Ops, NextOf, ForGood, Next1

\* The programs of the handlers.
LEMMA Programs ==
    /\ \A a \in Op : <<a>> \in Seq(Op) /\ <<a>> # <<>>
    /\ \A a, b \in Op : <<a, b>> \in Seq(Op) /\ <<a, b>> # <<>>
    /\ \A a, b, c \in Op : <<a, b, c>> \in Seq(Op) /\ <<a, b, c>> # <<>>
  OBVIOUS

LEMMA HandlersOK ==
    ASSUME NEW todo \in Handlers(state)
    PROVE  /\ todo \in Seq(Op) /\ todo # <<>>
           /\ \A i, j \in DOMAIN todo :
                 i < j /\ todo[i] = "disconnect" => todo[j] \in {"heart", "aes"}
           /\ state \in {"WAIT_ACCESS", "WAIT_ACCESSRSP", "WAIT_MSG4", "CONNECT_CLOUD"}
           /\ state = "WAIT_ACCESS" \/ (state = "WAIT_ACCESSRSP" /\ ~Online) =>
                 \A i \in DOMAIN todo : todo[i] \in {"rsa", "WAIT_ACCESSRSP", "disconnect"}
<1>1. state \in {"WAIT_ACCESS", "WAIT_ACCESSRSP", "WAIT_MSG4", "CONNECT_CLOUD"}
  BY DEF Handlers
<1>2. \/ todo = <<"rsa", "WAIT_ACCESSRSP">> \/ todo = <<"disconnect">>
      \/ todo = <<"key", "aes", "WAIT_MSG4">> /\ state = "WAIT_ACCESSRSP" /\ Online
      \/ state \in {"WAIT_MSG4", "CONNECT_CLOUD"} /\
           \/ todo = <<"disconnect", "heart">> \/ todo = <<"heart">>
           \/ todo = <<"CONNECT_CLOUD", "heart">>
           \/ todo = <<"aes", "aes">> \/ todo = <<"aes">> \/ todo = <<"device", "heart">>
           \/ todo = <<"device", "heart", "aes">> \/ todo = <<"disconnect", "aes", "aes">>
  <2>1. CASE state = "WAIT_ACCESS"
    BY <2>1 DEF Handlers
  <2>2. CASE state = "WAIT_ACCESSRSP"
    BY <2>2 DEF Handlers
  <2>3. CASE state = "WAIT_MSG4"
    BY <2>3 DEF Handlers
  <2>4. CASE state = "CONNECT_CLOUD"
    BY <2>4 DEF Handlers
  <2> QED BY <1>1, <2>1, <2>2, <2>3, <2>4
<1>3. todo \in Seq(Op) /\ todo # <<>>
  <2>1. \A a \in {"rsa", "WAIT_ACCESSRSP", "disconnect", "key", "aes", "WAIT_MSG4", "heart",
                  "CONNECT_CLOUD", "device"} : a \in Op
    BY DEF Op, Receiving
  <2> QED BY <1>2, <2>1, Programs
<1>4. \A i, j \in DOMAIN todo : i < j /\ todo[i] = "disconnect" => todo[j] \in {"heart", "aes"}
  BY <1>2
<1>5. state = "WAIT_ACCESS" \/ (state = "WAIT_ACCESSRSP" /\ ~Online) =>
         \A i \in DOMAIN todo : todo[i] \in {"rsa", "WAIT_ACCESSRSP", "disconnect"}
  BY <1>2
<1> QED BY <1>1, <1>3, <1>4, <1>5

LEMMA HandleKeeps ==
    ASSUME IInv, Handle
    PROVE  IInv'
<1>1. cloud \in CloudTask_T /\ cloud.pc = "idle" /\ Typed
  BY DEF IInv, Typed, Handle, At
<1>2. PICK todo \in Handlers(state) : cloud' = [cloud EXCEPT !.pc = "run", !.todo = todo]
  BY DEF Handle
<1>3. /\ todo \in Seq(Op) /\ todo # <<>>
      /\ \A i, j \in DOMAIN todo :
            i < j /\ todo[i] = "disconnect" => todo[j] \in {"heart", "aes"}
      /\ state \in {"WAIT_ACCESS", "WAIT_ACCESSRSP", "WAIT_MSG4", "CONNECT_CLOUD"}
      /\ state = "WAIT_ACCESS" \/ (state = "WAIT_ACCESSRSP" /\ ~Online) =>
            \A i \in DOMAIN todo : todo[i] \in {"rsa", "WAIT_ACCESSRSP", "disconnect"}
  BY <1>2, HandlersOK
<1>4. /\ cloud' \in CloudTask_T /\ cloud'.pc = "run" /\ cloud'.todo = todo
      /\ cloud'.b = cloud.b /\ cloud'.fd = cloud.fd /\ cloud'.msg = cloud.msg
  BY <1>1, <1>2, <1>3 DEF CloudTask_T, Pcs
<1>5. SameWork
  BY <1>1, <1>4 DEF SameWork, At
<1>6. /\ UNCHANGED <<state, keyRecv, secSwitch, skipped, store, link, netUp, out>>
      /\ timer' \subseteq timer /\ "reconnect" \notin timer'
  BY <1>1, <1>3 DEF IInv, Waits, Handle, ctrl
<1>7. Typed'
  <2>1. TypeOK'
    BY <1>1, <1>3, <1>4, <1>6 DEF Typed, TypeOK, store, link
  <2>2. StoreOK(Store)'
    BY <1>1, <1>6 DEF Typed, StoreOK, Store, store, link
  <2>3. Program'
    BY <1>3, <1>4, <1>6 DEF Program, ForGood, GivenUp, At
  <2> QED BY <1>1, <1>4, <1>6, <2>1, <2>2, <2>3 DEF Typed, At, InFlight
<1>8. Waits'
  BY <1>6 DEF Waits
<1>9. Deaf'
  <2>1. Deaf
    BY DEF IInv
  <2> QED BY <1>1, <1>3, <1>4, <1>6, <2>1 DEF Deaf, Quiet, Ops, At, link, Online
<1>10. ~Messy /\ ~Sending /\ (GivenUp' <=> GivenUp) /\ ~GivenUp /\ ~Over /\ alive' = alive
  BY <1>1, <1>3, <1>6 DEF Messy, Sending, GivenUp, Ending, Over, At, link
<1> QED BY <1>5, <1>6, <1>7, <1>8, <1>9, <1>10, StoreKept DEF link, Ending

\* Turns without a message: RunIdle, and connect(), until it returns or when it fails.
LEMMA GotoKeeps ==
    ASSUME IInv, RunIdle \/ ConnectCloud \/ ConnectFail
    PROVE  IInv'
<1>1. /\ cloud \in CloudTask_T /\ Typed
      /\ cloud.pc \in {"idle", "connecting"} /\ cloud.todo = <<>>
  BY DEF IInv, Typed, Program, RunIdle, ConnectCloud, ConnectFail, At
<1>2. PICK pc \in {"run", "connecting"} :
         /\ cloud' = [cloud EXCEPT !.pc = pc]
         /\ pc = "connecting" => /\ state = "ACCESS_NET" /\ "reconnect" \notin timer
                                 /\ conn < MaxConn
         /\ pc = "run" => ConnectFail \/ RunIdle
  BY DEF RunIdle, ConnectCloud, ConnectFail, Goto
<1>3. /\ cloud' \in CloudTask_T /\ cloud'.pc = pc /\ cloud'.todo = <<>>
      /\ cloud'.b = cloud.b /\ cloud'.fd = cloud.fd /\ cloud'.msg = cloud.msg
  BY <1>1, <1>2 DEF CloudTask_T, Pcs
<1>4. SameWork
  BY <1>1, <1>3 DEF SameWork, At
<1>5. UNCHANGED <<ctrl, store, link, netUp, timer, out>>
  BY DEF RunIdle, ConnectCloud, ConnectFail
<1>6. Typed'
  <2>1. TypeOK'
    BY <1>1, <1>2, <1>3, <1>5 DEF Typed, TypeOK, ctrl, store, link
  <2>2. StoreOK(Store)'
    BY <1>1, <1>5 DEF Typed, StoreOK, Store, store, link
  <2>3. Program'
    BY <1>3, <1>2 DEF Program, ForGood, GivenUp, At, Ops
  <2> QED BY <1>1, <1>2, <1>3, <1>5, <2>1, <2>2, <2>3 DEF Typed, At, InFlight, link
<1>7. Waits'
  BY <1>1, <1>2, <1>3, <1>5 DEF IInv, Waits, ctrl, store, link, RunIdle, ConnectFail, At
<1>8. Deaf'
  BY <1>1, <1>2, <1>3, <1>5 DEF IInv, Deaf, Quiet, Ops, At, ctrl, link
<1>9. ~Sending /\ (GivenUp' <=> GivenUp) /\ alive' = alive /\ (Over => Over')
  BY <1>1, <1>3, <1>5 DEF Sending, GivenUp, Over, At, link, ctrl, store, Quiet, Ops
<1>10. (Ending <=> Ending') /\ (Messy => Messy')
  BY <1>1, <1>2, <1>3, <1>5, <1>9 DEF Ending, Messy, GivenUp, At, Sending
<1> QED BY <1>4, <1>5, <1>6, <1>7, <1>8, <1>9, <1>10, StoreKept DEF link, ctrl

\* The operations of a handler that touch no buffer.
LEMMA OperationKeeps ==
    ASSUME IInv, SetState \/ TakeKey \/ RestartHeart
    PROVE  IInv'
<1>1. /\ cloud \in CloudTask_T /\ Typed /\ ForGood /\ cloud.pc = "run" /\ cloud.todo # <<>>
      /\ cloud' = [cloud EXCEPT !.todo = Tail(@)]
  BY DEF IInv, Typed, Program, SetState, TakeKey, RestartHeart, Doing, Done, At
<1>2. /\ cloud'.pc = "run" /\ cloud'.todo = Tail(cloud.todo)
      /\ cloud'.b = cloud.b /\ cloud'.fd = cloud.fd /\ cloud'.msg = cloud.msg
  BY <1>1 DEF CloudTask_T
<1>3. /\ Next1 \in Op /\ cloud'.todo \in Seq(Op) /\ ForGood'
      /\ NextOf({"heart", "aes"})
      /\ NextOf({"rsa", "WAIT_ACCESSRSP", "disconnect"})
      /\ NextOf({"disconnect"})
  BY <1>1, <1>2, DoneOK
<1>4. cloud' \in CloudTask_T
  BY <1>1, <1>2, <1>3 DEF CloudTask_T
<1>5. SameWork
  BY <1>1, <1>2 DEF SameWork, At
<1>6. /\ UNCHANGED <<secSwitch, skipped, store, link, netUp, out>>
      /\ \/ Next1 \in Receiving /\ state' = Next1 /\ keyRecv' = keyRecv
         \/ Next1 \in {"key", "heart"} /\ state' = state /\ keyRecv' \in {keyRecv, TRUE}
      /\ timer' \subseteq timer \cup {"access", "stale", "heart"}
      /\ Next1 # "heart" => timer' \subseteq timer \cup {"access", "stale"}
  BY DEF SetState, TakeKey, RestartHeart, Doing, ctrl
<1>7. "reconnect" \notin timer
  BY <1>1 DEF IInv, Waits
<1>8. GivenUp => Next1 = "heart" /\ GivenUp'
  BY <1>1, <1>3, <1>6 DEF GivenUp, Typed, Program, Receiving, NextOf
<1>9. GivenUp' => GivenUp
  BY <1>6 DEF GivenUp, Receiving
<1>10. Typed'
  <2>1. TypeOK'
    BY <1>1, <1>2, <1>3, <1>6 DEF Typed, TypeOK, store, link, State
  <2>2. StoreOK(Store)'
    BY <1>1, <1>6 DEF Typed, StoreOK, Store, store, link
  <2>3. Program'
    BY <1>1, <1>2, <1>3, <1>8, <1>9 DEF Typed, Program, At, NextOf
  <2> QED BY <1>1, <1>2, <1>4, <1>6, <2>1, <2>2, <2>3 DEF Typed, At, InFlight, link
<1>11. Waits'
  BY <1>6, <1>7 DEF Waits
<1>12. Deaf'
  <2> SUFFICES ASSUME ~netUp', sock' # 0 \/ state' = "ACCESS_NET"
               PROVE  Deaf'
    BY <1>2 DEF Deaf, At
  <2>1. sock # 0 \/ state = "ACCESS_NET"
    BY <1>6 DEF link, Receiving
  <2>2. Quiet /\ Ops({"rsa", "WAIT_ACCESSRSP", "disconnect"})
        /\ (sock # 0 => state \in {"WAIT_ACCESS", "WAIT_ACCESSRSP", "DISCONNECT_CLOUD"})
    BY <1>6, <2>1 DEF IInv, Deaf
  <2>3. Next1 = "WAIT_ACCESSRSP" /\ Ops({"rsa", "WAIT_ACCESSRSP", "disconnect"})'
    BY <1>3, <1>6, <2>2 DEF Receiving, NextOf
  <2> QED BY <1>6, <2>2, <2>3 DEF Deaf, Quiet
<1>13. ~Sending /\ ~Messy /\ ~Over /\ (Ending => Ending') /\ alive' = alive
  <2>1. ~Sending /\ ~Messy
    BY <1>1 DEF Sending, Messy, At
  <2>2. ~Over
    BY <1>3, <1>6 DEF Over, Receiving, NextOf
  <2> QED BY <1>6, <1>8, <2>1, <2>2 DEF Ending, link
<1> QED BY <1>5, <1>6, <1>9, <1>10, <1>11, <1>12, <1>13, StoreKept DEF link

\* A message but Msg1 that cannot be made is dropped.
LEMMA DropKeeps ==
    ASSUME IInv, SendFail, Next1 = "aes"
    PROVE  IInv'
<1>1. /\ cloud \in CloudTask_T /\ Typed /\ ForGood /\ cloud.pc = "run" /\ cloud.todo # <<>>
      /\ cloud' = [cloud EXCEPT !.todo = Tail(@)]
  BY DEF IInv, Typed, Program, SendFail, Doing, Done, At
<1>2. /\ cloud'.pc = "run" /\ cloud'.todo = Tail(cloud.todo)
      /\ cloud'.b = cloud.b /\ cloud'.fd = cloud.fd /\ cloud'.msg = cloud.msg
  BY <1>1 DEF CloudTask_T
<1>3. /\ cloud'.todo \in Seq(Op) /\ ForGood'
      /\ NextOf({"heart", "aes"})
      /\ NextOf({"rsa", "WAIT_ACCESSRSP", "disconnect"})
      /\ NextOf({"disconnect"})
  BY <1>1, <1>2, DoneOK
<1>4. cloud' \in CloudTask_T
  BY <1>1, <1>2, <1>3 DEF CloudTask_T
<1>5. SameWork
  BY <1>1, <1>2 DEF SameWork, At
<1>6. UNCHANGED <<ctrl, store, link, netUp, timer, out>>
  BY DEF SendFail, ctrl
<1>7. "reconnect" \notin timer
  BY <1>1 DEF IInv, Waits
<1>8. Typed'
  <2>1. TypeOK'
    BY <1>1, <1>2, <1>3, <1>6 DEF Typed, TypeOK, ctrl, store, link
  <2>2. StoreOK(Store)'
    BY <1>1, <1>6 DEF Typed, StoreOK, Store, store, link
  <2>3. Program'
    BY <1>1, <1>2, <1>3, <1>6 DEF Typed, Program, At, NextOf, GivenUp, ctrl
  <2> QED BY <1>1, <1>2, <1>4, <1>6, <2>1, <2>2, <2>3 DEF Typed, At, InFlight, link
<1>9. Waits'
  BY <1>6, <1>7 DEF Waits
<1>10. Deaf'
  BY <1>2, <1>3, <1>6 DEF IInv, Deaf, At, NextOf, ctrl, link, Quiet
<1>11. ~Sending /\ ~Messy /\ ~Over /\ (Ending <=> Ending') /\ (GivenUp <=> GivenUp')
  BY <1>1, <1>3, <1>6 DEF Sending, Messy, Over, Ending, GivenUp, At, NextOf, ctrl
<1> QED BY <1>5, <1>6, <1>8, <1>9, <1>10, <1>11, StoreKept DEF link, ctrl

\* The reconnection timer, the network and HF_WakeUp.
LEMMA OutsideKeeps ==
    ASSUME IInv, ReconnectTimeout \/ WakeUp \/ ConnectionBreaks
    PROVE  IInv'
<1>1. Typed /\ UNCHANGED <<keyRecv, secSwitch, store, sock, conn, cloud, out>>
  BY DEF IInv, ReconnectTimeout, WakeUp, ConnectionBreaks, ctrl, link
<1>2. SameWork
  BY <1>1 DEF SameWork, At
<1>3. /\ netUp => netUp'
      /\ timer' \subseteq timer
      /\ state' = state \/ state' = "ACCESS_NET"
      /\ alive' => alive
  BY DEF ReconnectTimeout, WakeUp, ConnectionBreaks, ctrl, link
<1>4. /\ skipped => skipped'
      /\ Ending /\ ~skipped' => state' = state
      /\ Sending => timer' = timer
  <2>1. CASE ReconnectTimeout
    <3>1. state \in {"INIT", "ACCESS_NET"} /\ cloud.pc \in {"idle", "run"}
      BY <2>1 DEF IInv, Waits, ReconnectTimeout, Expired
    <3> QED BY <2>1, <3>1 DEF ReconnectTimeout, Ending, GivenUp, Sending, At
  <2>2. CASE WakeUp
    BY <2>2 DEF WakeUp, Ending, GivenUp
  <2>3. CASE ConnectionBreaks
    BY <2>3 DEF ConnectionBreaks, ctrl
  <2> QED BY <2>1, <2>2, <2>3
<1>5. Typed'
  <2>1. TypeOK'
    <3>1. skipped' \in BOOLEAN
      BY <1>1 DEF Typed, TypeOK, ReconnectTimeout, WakeUp, ConnectionBreaks, ctrl
    <3> QED BY <1>1, <1>3, <3>1 DEF Typed, TypeOK, State, store
  <2>2. StoreOK(Store)'
    BY <1>1 DEF Typed, StoreOK, Store, store
  <2>3. Program' /\ (GivenUp' => GivenUp)
    BY <1>1, <1>3 DEF Typed, Program, GivenUp, ForGood, Ops, At
  <2> QED BY <1>1, <2>1, <2>2, <2>3 DEF Typed, At, InFlight
<1>6. Waits'
  <2> SUFFICES ASSUME "reconnect" \in timer' PROVE Waits'
    BY DEF Waits
  <2>1. ~ReconnectTimeout
    BY DEF ReconnectTimeout
  <2>2. timer' = timer
    BY <2>1 DEF WakeUp, ConnectionBreaks
  <2> QED BY <1>1, <1>3, <2>2 DEF IInv, Waits, store
<1>7. Deaf'
  <2> SUFFICES ASSUME ~netUp' PROVE Deaf'
    BY DEF Deaf
  <2>1. CASE ReconnectTimeout
    <3>1. sock = 0 /\ cloud.todo = <<>> /\ timer = {"reconnect"}
      BY <2>1 DEF IInv, Waits, ReconnectTimeout, Expired
    <3> QED BY <1>1, <1>3, <3>1 DEF Deaf, Quiet, Ops
  <2>2. CASE ~ReconnectTimeout
    <3>1. ConnectionBreaks /\ netUp' = netUp /\ state' = state /\ timer' = timer
      BY <2>2 DEF WakeUp, ConnectionBreaks, ctrl
    <3> QED BY <1>1, <3>1 DEF IInv, Deaf, Quiet, Ops, At
  <2> QED BY <2>1, <2>2
<1>8. ~skipped' => (Ending => Ending')
  BY <1>3, <1>4 DEF Ending, GivenUp
<1>9. ~skipped' => (Messy => Messy')
  BY <1>1, <1>8 DEF Messy, Sending, At
<1>10. alive' /\ Over => Over'
  BY <1>1, <1>3 DEF Over, Quiet, Ops, At, store
<1>11. GivenUp' => GivenUp
  BY <1>3 DEF GivenUp
<1> QED BY <1>1, <1>2, <1>3, <1>4, <1>5, <1>6, <1>7, <1>8, <1>9, <1>10, <1>11, StoreKept

-----------------------------------------------------------------------------
(***************************************************************************)
(* Steps that call MSG_Init.                                               *)
(***************************************************************************)
\* A record of buffers and queue has their types.
LEMMA StoreTypes ==
    ASSUME NEW s, StoreOK(s)
    PROVE  /\ \A b \in Buf : s.buf[b].full \in BOOLEAN /\ s.buf[b].msg \in Message
           /\ s.queue \in Seq(Buf) /\ Len(s.queue) <= NBuf /\ s.num \in Nat
  BY DEF StoreOK, Stores, Cell

LEMMA Reset ==
    ASSUME Typed, SetStore(MsgInit(Store)), conn' = conn
    PROVE  /\ StoreOK(Store)' /\ queue' = <<>> /\ num' = num
           /\ \A b \in Buf : /\ ~buf'[b].full /\ buf'[b].msg = buf[b].msg
                             /\ buf'[b].full \in BOOLEAN /\ buf'[b].msg \in Message
           /\ queue' \in Seq(Buf) /\ Len(queue') <= NBuf /\ num' \in Nat
           /\ \A f : PlacedIn(Store', f)
           /\ AllNew(Store)' /\ NewLast(Store)'
<1> DEFINE t == MsgInit(Store)
<1>1. StoreOK(Store)
  BY DEF Typed
<1>2. /\ StoreOK(t) /\ t.queue = <<>> /\ t.num = num
      /\ \A b \in Buf : ~t.buf[b].full /\ t.buf[b].msg = buf[b].msg
      /\ \A f : PlacedIn(t, f)
      /\ AllNew(t) /\ NewLast(t)
  BY <1>1, InitOK DEF Store
<1>3. buf' = t.buf /\ queue' = t.queue /\ num' = t.num
  BY DEF SetStore
<1> HIDE DEF t
<1>4. Store' = t
  BY <1>2, <1>3 DEF Store, StoreOK, Stores
<1>5. StoreOK(Store)' /\ AllNew(Store)' /\ NewLast(Store)'
  BY <1>2, <1>4 DEF StoreOK, AllNew, NewLast, New, MsgAt
<1>6. /\ \A b \in Buf : t.buf[b].full \in BOOLEAN /\ t.buf[b].msg \in Message
      /\ t.queue \in Seq(Buf) /\ Len(t.queue) <= NBuf /\ t.num \in Nat
  BY <1>2, StoreTypes
<1> QED BY <1>2, <1>3, <1>4, <1>5, <1>6

LEMMA ResetKeeps ==
    ASSUME IInv, SetStore(MsgInit(Store)), UNCHANGED <<conn, out>>, SameWork,
           skipped => skipped' \/ (~alive' /\ sock' = 0),
           Typed', Waits', Deaf', sock' \in {0, sock}, At("popped") => sock' = 0,
           ~skipped /\ alive' => alive /\ sock' = sock /\ (Ending \/ Over)',
           ~skipped' /\ Sending /\ ~Ending' => Quiet' /\ (Ending => sock' = 0)
    PROVE  IInv'
<1>1. /\ \A b \in Buf : ~buf'[b].full /\ buf'[b].msg = buf[b].msg
      /\ \A f : PlacedIn(Store', f)
      /\ AllNew(Store)' /\ NewLast(Store)'
  BY Reset DEF IInv
<1>2. /\ Sending' = Sending /\ InFlight' = InFlight
      /\ (At("encrypted")' <=> At("encrypted"))
      /\ (At("popped")' <=> At("popped")) /\ (At("sending")' <=> At("sending"))
      /\ At("encrypted") \/ InFlight =>
            cloud'.b = cloud.b /\ cloud'.fd = cloud.fd /\ cloud'.msg = cloud.msg
      /\ At("encrypted") \/ InFlight => cloud.b \in Buf
      /\ cloud'.fd <= conn
  BY DEF IInv, SameWork, At, Sending, InFlight, Typed, TypeOK, Recent
<1>3. Recent'
  BY <1>1, <1>2 DEF IInv, Recent, New
<1>4. SUFFICES ASSUME ~skipped' PROVE Sound'
  BY <1>3 DEF IInv
<1>5. (Sound /\ ~skipped) \/ (~alive' /\ sock' = 0)
  BY <1>4 DEF IInv
<1>6. Placed'
  BY <1>1, <1>2 DEF Placed
<1>7. Kept'
  <2>1. Sending /\ ~netUp' => Quiet'
    BY <1>4 DEF Ending
  <2>2. Sending => InFlight
    BY DEF Sending, InFlight, At
  <2>3. Sending /\ cloud.fd # 0 <=> Sending
    BY DEF Sending
  <2> QED BY <1>1, <1>2, <1>4, <1>5, <2>1, <2>2, <2>3 DEF Sound, Kept
<1>8. Ages'
  <2>1. (At("popped") => InFlight) /\ (At("sending") => InFlight)
    BY DEF InFlight, At
  <2> QED BY <1>1, <1>2, <1>5, <2>1 DEF Sound, Ages, New
<1>9. Order'
  <2>1. Sent' = Sent
    BY DEF Sent, New
  <2>2. At("sending") => InFlight
    BY DEF InFlight, At
  <2> QED BY <1>2, <1>5, <2>1, <2>2 DEF Sound, Order, New
<1> QED BY <1>6, <1>7, <1>8, <1>9 DEF Sound

\* The connection is closed, or an answer has not come, while HF_Cloudfunc waits.
LEMMA GiveUpKeeps ==
    ASSUME IInv, RecvClosed \/ \E ty \in {"access", "stale"} : AccessTimeout(ty)
    PROVE  IInv'
<1>1. Typed /\ Deaf /\ Waits /\ (~skipped => Kept /\ Order)
  BY DEF IInv, Sound
<1>2. /\ SetStore(MsgInit(Store)) /\ state' = "DISCONNECT_CLOUD" /\ keyRecv' = FALSE
      /\ UNCHANGED <<secSwitch, skipped, link, netUp, cloud, out>>
      /\ timer' \subseteq timer /\ "reconnect" \notin timer' /\ Blocked
  BY <1>1 DEF RecvClosed, AccessTimeout, DisConnectCloud, Expired, Waits, Receiving
<1>3. /\ SameWork /\ cloud.todo = <<>> /\ ~At("popped") /\ ~At("encrypted")
  BY <1>1, <1>2 DEF SameWork, At, Blocked, Typed, Program
<1>4. /\ StoreOK(Store)' /\ queue' = <<>>
      /\ \A b \in Buf : buf'[b].full \in BOOLEAN /\ buf'[b].msg \in Message
      /\ queue' \in Seq(Buf) /\ Len(queue') <= NBuf /\ num' \in Nat
  BY <1>1, <1>2, Reset DEF link
<1>5. Typed'
  <2>1. TypeOK'
    BY <1>1, <1>2, <1>4 DEF Typed, TypeOK, link, State
  <2>2. Program'
    BY <1>1, <1>2, <1>3 DEF Typed, Program, ForGood, Ops, At
  <2>3. ~At("popped")'
    BY <1>2, <1>3 DEF At
  <2> QED BY <1>1, <1>2, <1>4, <2>1, <2>2, <2>3 DEF Typed, At, InFlight, link
<1>6. Waits'
  BY <1>2 DEF Waits
<1>7. Deaf'
  <2> SUFFICES ASSUME ~netUp', sock' # 0 \/ At("connecting")'
               PROVE  Deaf'
    BY <1>2 DEF Deaf
  <2> QED BY <1>1, <1>2, <1>3 DEF Deaf, Quiet, Ops, At, link
<1>8. Ending' \/ (~netUp /\ ~netUp')
  BY <1>1, <1>2 DEF Ending, GivenUp, Typed, TypeOK
<1>9. ~skipped /\ alive' => (Ending \/ Over)'
  <2> SUFFICES ASSUME ~skipped, alive', ~netUp PROVE Over'
    BY <1>8
  <2>1. sock # 0
    BY <1>1, <1>2 DEF Order, link
  <2>2. Quiet
    BY <1>1, <2>1 DEF Deaf
  <2> QED BY <1>2, <1>3, <1>4, <2>2 DEF Over, Quiet, Ops, At
<1>10. ~skipped' /\ Sending /\ ~Ending' => Quiet' /\ ~Ending
  BY <1>1, <1>2, <1>8 DEF Kept, Quiet, Ending
<1> QED BY <1>2, <1>3, <1>5, <1>6, <1>7, <1>9, <1>10, ResetKeeps DEF link

\* A handler gives the connection up.
LEMMA RefuseKeeps ==
    ASSUME IInv, Refuse \/ (SendFail /\ Next1 = "rsa")
    PROVE  IInv'
<1>1. Typed /\ Deaf /\ Waits /\ (~skipped => Order)
  BY DEF IInv, Sound
<1>2. /\ SetStore(MsgInit(Store)) /\ state' = "DISCONNECT_CLOUD" /\ keyRecv' = FALSE
      /\ UNCHANGED <<secSwitch, skipped, link, netUp, out>>
      /\ timer' \subseteq timer /\ cloud.pc = "run" /\ cloud.todo # <<>>
      /\ \/ Next1 = "disconnect" /\ cloud' = [cloud EXCEPT !.todo = Tail(@)]
         \/ cloud' = [cloud EXCEPT !.todo = <<>>]
  BY DEF Refuse, SendFail, DisConnectCloud, Doing, Done, At
<1>3. /\ cloud'.pc = "run"
      /\ cloud'.b = cloud.b /\ cloud'.fd = cloud.fd /\ cloud'.msg = cloud.msg
      /\ \/ Next1 = "disconnect" /\ cloud'.todo = Tail(cloud.todo)
         \/ cloud'.todo = <<>>
  BY <1>1, <1>2 DEF Typed, CloudTask_T
<1>4. /\ cloud'.todo \in Seq(Op) /\ ForGood' /\ Ops({"heart", "aes"})'
      /\ Ops({"rsa", "WAIT_ACCESSRSP", "disconnect"}) =>
            Ops({"rsa", "WAIT_ACCESSRSP", "disconnect"})'
  <2>1. CASE cloud'.todo = <<>>
    BY <2>1 DEF ForGood, Ops
  <2>2. CASE Next1 = "disconnect" /\ cloud'.todo = Tail(cloud.todo)
    BY <1>1, <1>2, <2>2, DoneOK DEF Typed, Program, NextOf
  <2> QED BY <1>3, <2>1, <2>2
<1>5. cloud' \in CloudTask_T /\ SameWork
  <2>1. cloud' \in CloudTask_T
    BY <1>1, <1>2, <1>3, <1>4 DEF Typed, CloudTask_T
  <2> QED BY <1>2, <1>3, <2>1 DEF SameWork, At
<1>6. /\ StoreOK(Store)' /\ queue' = <<>>
      /\ \A b \in Buf : buf'[b].full \in BOOLEAN /\ buf'[b].msg \in Message
      /\ queue' \in Seq(Buf) /\ Len(queue') <= NBuf /\ num' \in Nat
  BY <1>1, <1>2, Reset DEF link
<1>7. Typed'
  <2>1. TypeOK'
    BY <1>1, <1>2, <1>3, <1>4, <1>6 DEF Typed, TypeOK, link, State
  <2>2. Program'
    BY <1>2, <1>3, <1>4 DEF Program, At
  <2> QED BY <1>1, <1>2, <1>3, <1>5, <1>6, <2>1, <2>2 DEF Typed, At, InFlight, link
<1>8. Waits'
  BY <1>1, <1>2 DEF Waits
<1>9. Deaf'
  <2> SUFFICES ASSUME ~netUp', sock' # 0
               PROVE  Deaf'
    BY <1>2, <1>3 DEF Deaf, At
  <2> QED BY <1>1, <1>2, <1>4 DEF Deaf, Quiet, link
<1>10. ~skipped /\ alive' => (Ending \/ Over)'
  <2> SUFFICES ASSUME ~skipped, alive', ~netUp' PROVE Over'
    BY <1>1, <1>2 DEF Ending, GivenUp, Typed, TypeOK
  <2>1. sock # 0 /\ ~netUp
    BY <1>1, <1>2 DEF Order, link
  <2>2. Quiet /\ Ops({"rsa", "WAIT_ACCESSRSP", "disconnect"})'
    BY <1>1, <1>4, <2>1 DEF Deaf
  <2>3. Ops({"disconnect"})'
    BY <1>4, <2>2 DEF Ops
  <2> QED BY <1>2, <1>3, <1>6, <2>2, <2>3 DEF Over, Quiet, At
<1>11. ~Sending /\ ~At("popped")
  BY <1>2 DEF Sending, At
<1> QED BY <1>2, <1>5, <1>7, <1>8, <1>9, <1>10, <1>11, ResetKeeps DEF link

\* The reconnection, and HF_Sleep at any time.
LEMMA CloseKeeps ==
    ASSUME IInv, ReconnectCloud \/ Sleep
    PROVE  IInv'
<1>1. Typed
  BY DEF IInv
<1>2. /\ SetStore(MsgInit(Store)) /\ state' = "INIT" /\ keyRecv' = FALSE
      /\ sock' = 0 /\ alive' = FALSE /\ skipped' = FALSE
      /\ UNCHANGED <<secSwitch, conn, out>>
      /\ \/ Sleep /\ timer' = {} /\ cloud' = cloud
         \/ cloud.pc = "run" /\ cloud' = Idle /\ timer' = {"reconnect"} /\ netUp' = netUp
  BY DEF ReconnectCloud, Sleep, At
<1>3. /\ StoreOK(Store)' /\ queue' = <<>>
      /\ \A b \in Buf : buf'[b].full \in BOOLEAN /\ buf'[b].msg \in Message
      /\ queue' \in Seq(Buf) /\ Len(queue') <= NBuf /\ num' \in Nat
  BY <1>1, <1>2, Reset
<1>4. Idle \in CloudTask_T /\ Idle.pc = "idle" /\ Idle.todo = <<>> /\ Idle.fd = 0
  <2>1. MaxConn \in Nat /\ NBuf \in Nat
    BY BoundAssumption, NBufAssumption
  <2>2. Blank.msg \in Message
    BY <2>1 DEF Blank, Message
  <2>3. <<>> \in Seq(Op) /\ 0 \in 0 .. NBuf /\ 0 \in 0 .. MaxConn
    BY <2>1
  <2> QED BY <2>2, <2>3 DEF Idle, CloudTask_T, Pcs
<1>5. cloud' \in CloudTask_T /\ SameWork
  BY <1>1, <1>2, <1>4 DEF Typed, SameWork, At, InFlight
<1>6. Typed'
  <2>1. TypeOK'
    <3>1. cloud'.pc \in Pcs /\ cloud'.todo \in Seq(Op)
      BY <1>5 DEF CloudTask_T
    <3> QED BY <1>1, <1>2, <1>3, <3>1 DEF Typed, TypeOK, State, Pcs
  <2>2. Program'
    BY <1>1, <1>2, <1>4 DEF Typed, Program, ForGood, GivenUp, At, Ops
  <2>3. GivenUp' = FALSE
    BY <1>2 DEF GivenUp
  <2> QED BY <1>1, <1>2, <1>3, <1>4, <1>5, <2>1, <2>2, <2>3 DEF Typed, At, InFlight
<1>7. Waits'
  BY <1>2, <1>3, <1>4 DEF Waits
<1>8. Deaf'
  <2> SUFFICES ASSUME ~netUp', At("connecting")'
               PROVE  Deaf'
    BY <1>2 DEF Deaf
  <2>1. Sleep /\ timer' = {} /\ cloud' = cloud
    BY <1>2, <1>4 DEF At
  <2>2. cloud.todo = <<>>
    BY <1>1, <2>1 DEF Typed, Program, At
  <2> QED BY <1>2, <2>1, <2>2 DEF Deaf, Quiet, Ops
<1>9. Sending => Quiet'
  BY <1>2 DEF Sending, At, Quiet
<1> QED BY <1>2, <1>5, <1>6, <1>7, <1>8, <1>9, ResetKeeps

-----------------------------------------------------------------------------
(***************************************************************************)
(* Messages of the lower tasks, and of the device.                         *)
(***************************************************************************)
\* None, one or two messages.
LEMMA NoneOK ==
    ASSUME NEW s, StoreOK(s)
    PROVE  Adds(s, s)
<1>1. s.num \in Nat /\ s.num <= s.num
  BY DEF StoreOK, Stores
<1>2. \A k : Numbered(s, k, s.num) => k \in Nat /\ k + (s.num - s.num) = k
  BY <1>1 DEF Numbered
<1> QED BY <1>1, <1>2 DEF Adds

LEMMA AnswersOK ==
    ASSUME Typed, NEW t \in DeviceAnswers(Store)
    PROVE  Adds(Store, t)
<1> DEFINE u == SendMsgToCloud(Store, "aes")
           v == SendMsgToCloud(u, "aes")
<1>1. StoreOK(Store) /\ conn \in 0 .. MaxConn
  BY DEF Typed, TypeOK
<1>2. Adds(Store, Store)
  BY <1>1, NoneOK
<1>3. Adds(Store, u)
  BY <1>1, SendOK
<1>4. StoreOK(u)
  BY <1>3 DEF Adds
<1>5. Adds(u, v)
  BY <1>1, <1>4, SendOK
<1>6. Adds(Store, v)
  BY <1>1, <1>3, <1>5, TwoOK
<1>7. t \in {Store, u, v}
  BY DEF DeviceAnswers
<1> QED BY <1>2, <1>3, <1>6, <1>7

LEMMA AddKeeps ==
    ASSUME IInv, NEW t, Adds(Store, t), SetStore(t),
           UNCHANGED <<ctrl, link, netUp, out>>, cloud'.pc = cloud.pc,
           cloud'.b = cloud.b, cloud'.fd = cloud.fd, cloud'.msg = cloud.msg,
           Typed', Waits', Deaf', Messy => Messy', Sending => cloud' = cloud /\ ~Quiet,
           ~At("encrypted"), InFlight => Sending, ~Over, Sending => cloud.todo = <<>>
    PROVE  IInv'
<1>1. Typed /\ Recent /\ StoreOK(Store)
  BY DEF IInv, Typed
<1>2. /\ buf' = t.buf /\ queue' = t.queue /\ num' = t.num /\ Store' = t
      /\ Store.buf = buf /\ Store.num = num /\ Store.queue = queue
  BY DEF SetStore, Store, Adds, StoreOK, Stores
<1>3. /\ UNCHANGED <<state, conn, sock, alive, netUp>>
      /\ Sending' = Sending /\ InFlight' = InFlight
      /\ Flight' = Flight /\ Ending' = Ending /\ GivenUp' = GivenUp
      /\ ~At("encrypted")' /\ (At("sending")' <=> At("sending")) /\ ~At("popped") /\ ~At("popped")'
  BY DEF ctrl, link, Sending, InFlight, Flight, Ending, GivenUp, At
<1>4. Recent'
  BY <1>1, <1>3 DEF Recent
<1>5. SUFFICES ASSUME ~skipped' PROVE Sound'
  BY <1>4 DEF IInv
<1>6. (Placed \/ Messy) /\ Kept /\ Ages /\ Order
  BY <1>5 DEF IInv, Sound, ctrl
<1>7. Sending => cloud.b \in Buf /\ cloud.b = Flight
  BY <1>1 DEF Sending, InFlight, Flight, Typed, At
<1>8. ~InFlight => Flight \notin Buf
  BY DEF Flight, Buf
<1>9. Sending /\ ~Ending => buf[cloud.b].full
  BY <1>6 DEF Kept
<1>10. Sending /\ Ending => Messy
  BY DEF Messy
<1>11. ~Messy => /\ PlacedIn(Store, Flight) /\ (Flight \in Buf => buf[Flight].full)
                 /\ PlacedIn(t, Flight)
                 /\ Flight \in Buf => t.buf[Flight] = buf[Flight]
                 /\ NewLast(t)
                 /\ \A k : Numbered(Store, k, num) => Numbered(t, k + (t.num - num), t.num)
  <2> SUFFICES ASSUME ~Messy
               PROVE  /\ PlacedIn(Store, Flight) /\ (Flight \in Buf => buf[Flight].full)
                      /\ PlacedIn(t, Flight)
                      /\ Flight \in Buf => t.buf[Flight] = buf[Flight]
                      /\ NewLast(t)
                      /\ \A k : Numbered(Store, k, num) => Numbered(t, k + (t.num - num), t.num)
    OBVIOUS
  <2>1. PlacedIn(Store, Flight) /\ NewLast(Store)
    BY <1>6 DEF Placed, Ages
  <2>2. Flight \in Buf => buf[Flight].full
    BY <1>7, <1>8, <1>9, <1>10
  <2> QED BY <1>2, <2>1, <2>2 DEF Adds
<1>12. AllNew(Store) => AllNew(Store)'
  BY <1>2, <1>3 DEF Adds, AllNew, New
<1>13. (Placed \/ Messy)'
  BY <1>2, <1>3, <1>11 DEF Placed
<1>14. Kept'
  <2>1. Sending /\ ~Ending => buf'[cloud.b] = buf[cloud.b]
    BY <1>2, <1>7, <1>11 DEF Messy
  <2> QED BY <1>3, <1>6, <1>9, <2>1 DEF Kept
<1>15. Ages'
  <2>1. NewLast(Store)'
    <3>1. CASE Messy
      <4>1. AllNew(Store)
        BY <1>6, <3>1 DEF Ages, Messy, Ending
      <4>2. AllNew(Store)'
        BY <1>12, <4>1
      <4> QED BY <4>2 DEF AllNew, NewLast
    <3>2. CASE ~Messy
      BY <1>2, <1>3, <1>11, <3>2 DEF NewLast, New
    <3> QED BY <3>1, <3>2
  <2>2. GivenUp' \/ (Sending' /\ ~buf'[cloud'.b].full) => AllNew(Store)
    <3>1. CASE Sending /\ ~Ending
      BY <1>2, <1>3, <1>6, <1>7, <1>9, <1>11, <3>1 DEF Ages, Messy
    <3>2. CASE ~(Sending /\ ~Ending)
      BY <1>3, <1>6, <3>2 DEF Ages, Ending
    <3> QED BY <3>1, <3>2
  <2> QED BY <1>3, <1>6, <1>12, <2>1, <2>2 DEF Ages, New
<1>16. Order'
  <2>1. Sent' = Sent /\ Flying' = Flying /\ Made = num /\ Made' = t.num
    BY <1>2, <1>3 DEF Sent, Flying, Made, New
  <2>2. alive /\ ~Ending /\ Complete => Complete'
    <3> SUFFICES ASSUME alive, ~Ending, Complete PROVE Complete'
      OBVIOUS
    <3>1. Numbered(Store, num - Sent - Flying, num)
      BY <2>1 DEF Complete
    <3>2. Numbered(t, (num - Sent - Flying) + (t.num - num), t.num)
      BY <1>11, <3>1 DEF Messy
    <3>3. Sent \in Nat /\ Flying \in Nat /\ num \in Nat /\ t.num \in Nat
      <4>1. out.msg.num \in Nat /\ num \in Nat /\ t.num \in Nat
        BY <1>1 DEF Typed, TypeOK, Message, Adds, StoreOK, Stores
      <4> QED BY <4>1 DEF Sent, Flying
    <3>4. (num - Sent - Flying) + (t.num - num) = t.num - Sent - Flying
      BY <3>3
    <3>5. Numbered(t, t.num - Sent - Flying, t.num)
      BY <3>2, <3>4
    <3>6. Numbered(Store, Made - Sent - Flying, Made)'
      BY <1>2, <1>3, <2>1, <3>5 DEF Numbered, New
    <3> QED BY <1>3, <3>6 DEF Complete
  <2> QED BY <1>3, <1>6, <2>1, <2>2 DEF Order, New
<1> QED BY <1>13, <1>14, <1>15, <1>16 DEF Sound

\* An expired heartbeat or retransmission timer.
LEMMA TimeoutKeeps ==
    ASSUME IInv, HeartTimeout \/ MoudleTimeout
    PROVE  IInv'
<1>1. Typed /\ Waits /\ Deaf /\ StoreOK(Store) /\ conn \in 0 .. MaxConn
  BY DEF IInv, Typed, TypeOK
<1>2. /\ UNCHANGED <<ctrl, link, netUp, cloud, out>> /\ Blocked
      /\ timer' \subseteq timer /\ ~Quiet
  BY DEF HeartTimeout, MoudleTimeout, Expired, Quiet, Deliver
<1>3. PICK t : Adds(Store, t) /\ SetStore(t)
  <2> DEFINE u == SendMsgToCloud(Store, "aes")
  <2>1. Adds(Store, u)
    BY <1>1, SendOK
  <2>2. CASE SetStore(u)
    BY <2>1, <2>2
  <2>3. CASE \E s \in DeviceAnswers(Store) : SetStore(s)
    BY <1>1, <2>3, AnswersOK
  <2> HIDE DEF u
  <2>4. SetStore(u) \/ \E s \in DeviceAnswers(Store) : SetStore(s)
    BY DEF HeartTimeout, MoudleTimeout, Deliver, u
  <2> QED BY <2>2, <2>3, <2>4
<1>4. StoreOK(t) /\ buf' = t.buf /\ queue' = t.queue /\ num' = t.num /\ Store' = t
  BY <1>3 DEF SetStore, Store, Adds, StoreOK, Stores
<1>5. cloud.todo = <<>> /\ cloud.pc \in {"idle", "connecting", "sending"}
      /\ (InFlight => Sending)
  BY <1>1, <1>2 DEF Blocked, Typed, Program, At, InFlight, Sending
<1>6. Typed'
  <2>1. TypeOK'
    <3>1. /\ \A b \in Buf : t.buf[b].full \in BOOLEAN /\ t.buf[b].msg \in Message
          /\ t.queue \in Seq(Buf) /\ Len(t.queue) <= NBuf /\ t.num \in Nat
      BY <1>4, StoreTypes
    <3> QED BY <1>1, <1>2, <1>4, <3>1 DEF Typed, TypeOK, ctrl, link
  <2>2. StoreOK(Store)'
    BY <1>2, <1>4 DEF StoreOK, link
  <2>3. Program'
    BY <1>1, <1>2 DEF Typed, Program, GivenUp, ForGood, Ops, At, ctrl
  <2> QED BY <1>1, <1>2, <1>5, <2>1, <2>2, <2>3 DEF Typed, At, InFlight, link
<1>7. "reconnect" \notin timer
  BY <1>1, <1>2 DEF Waits, Quiet
<1>8. Waits'
  BY <1>2, <1>7 DEF Waits
<1>9. Deaf'
  BY <1>1, <1>2 DEF Deaf, At, Ops, ctrl, link
<1>10. ~Over /\ (Messy => Messy') /\ ~At("encrypted")
  BY <1>2, <1>5 DEF Over, Messy, Ending, GivenUp, Sending, At, ctrl
<1> QED BY <1>2, <1>3, <1>5, <1>6, <1>8, <1>9, <1>10, AddKeeps

\* An event for the device.
LEMMA DeviceKeeps ==
    ASSUME IInv, HandleMoudleMsg
    PROVE  IInv'
<1>1. /\ cloud \in CloudTask_T /\ Typed /\ ForGood /\ cloud.pc = "run" /\ cloud.todo # <<>>
      /\ cloud' = [cloud EXCEPT !.todo = Tail(@)] /\ Next1 = "device"
      /\ Waits /\ Deaf
  BY DEF IInv, Typed, Program, HandleMoudleMsg, Doing, Done, At
<1>2. /\ cloud'.pc = "run" /\ cloud'.todo = Tail(cloud.todo)
      /\ cloud'.b = cloud.b /\ cloud'.fd = cloud.fd /\ cloud'.msg = cloud.msg
  BY <1>1 DEF CloudTask_T
<1>3. /\ cloud'.todo \in Seq(Op) /\ ForGood'
      /\ NextOf({"heart", "aes"})
      /\ NextOf({"rsa", "WAIT_ACCESSRSP", "disconnect"})
      /\ NextOf({"disconnect"})
  BY <1>1, <1>2, DoneOK
<1>4. ~GivenUp /\ ~Over /\ ~Ops({"rsa", "WAIT_ACCESSRSP", "disconnect"})
  BY <1>1, <1>3 DEF NextOf, Over, Typed, Program
<1>5. cloud' \in CloudTask_T
  BY <1>1, <1>2, <1>3 DEF CloudTask_T
<1>6. /\ UNCHANGED <<ctrl, link, netUp, out>>
      /\ timer' \subseteq timer \cup {"moudle"}
  BY DEF HandleMoudleMsg, Deliver
<1>7. PICK t \in DeviceAnswers(Store) : SetStore(t)
  BY DEF HandleMoudleMsg, Deliver
<1>8. Adds(Store, t)
  BY <1>1, AnswersOK
<1>9. StoreOK(t) /\ buf' = t.buf /\ queue' = t.queue /\ num' = t.num /\ Store' = t
  BY <1>7, <1>8 DEF SetStore, Store, Adds, StoreOK, Stores
<1>10. Typed'
  <2>1. TypeOK'
    <3>1. /\ \A b \in Buf : t.buf[b].full \in BOOLEAN /\ t.buf[b].msg \in Message
          /\ t.queue \in Seq(Buf) /\ Len(t.queue) <= NBuf /\ t.num \in Nat
      BY <1>9, StoreTypes
    <3> QED BY <1>1, <1>2, <1>3, <1>6, <1>9, <3>1 DEF Typed, TypeOK, ctrl, link
  <2>2. StoreOK(Store)'
    BY <1>6, <1>9 DEF StoreOK, link
  <2>3. Program'
    BY <1>1, <1>2, <1>3, <1>4, <1>6 DEF Program, GivenUp, At, ctrl
  <2> QED BY <1>1, <1>2, <1>5, <1>6, <2>1, <2>2, <2>3 DEF Typed, At, InFlight, link
<1>11. "reconnect" \notin timer'
  BY <1>1, <1>6 DEF Waits
<1>12. Waits'
  BY <1>11 DEF Waits
<1>13. Deaf'
  BY <1>1, <1>2, <1>4, <1>6 DEF Deaf, At, ctrl, link
<1>14. ~Sending /\ ~InFlight /\ ~Messy /\ ~At("encrypted")
  BY <1>1 DEF Sending, InFlight, Messy, At
<1> QED BY <1>1, <1>2, <1>4, <1>6, <1>7, <1>8, <1>10, <1>12, <1>13, <1>14, AddKeeps

-----------------------------------------------------------------------------
(***************************************************************************)
(* HF_Cloudfunc makes a message, and a connection.                         *)
(***************************************************************************)
LEMMA EncryptKeeps ==
    ASSUME IInv, Encrypt
    PROVE  IInv'
<1> DEFINE b == FirstIdle(Store)
           t == Fill(Store, b)
<1>1. /\ Typed /\ Waits /\ Deaf /\ Recent /\ StoreOK(Store) /\ conn \in 0 .. MaxConn
      /\ cloud \in CloudTask_T
      /\ cloud.pc = "run" /\ cloud.todo # <<>> /\ Next1 \in {"aes", "rsa"}
      /\ UNCHANGED <<ctrl, link, netUp, timer, out>>
  BY DEF IInv, Typed, TypeOK, Encrypt, Doing, At
<1>2. b \in Buf /\ ~Store.buf[b].full
  BY FirstIdleOK DEF Encrypt
<1>3. SetStore(t) /\ cloud' = [cloud EXCEPT !.pc = "encrypted", !.b = b]
  BY DEF Encrypt
<1> HIDE DEF b
<1>4. StoreOK(t) /\ FilledBy(Store, t, b)
  BY <1>1, <1>2, FillOK
<1> HIDE DEF t
<1>5. buf' = t.buf /\ queue' = t.queue /\ num' = t.num /\ Store' = t
  BY <1>3, <1>4 DEF SetStore, Store, StoreOK, Stores
<1>6. /\ \A f : PlacedIn(Store, f) => PlacedIn(t, f)
      /\ AllNew(Store) => AllNew(t)
      /\ \A f : PlacedIn(Store, f) => \A i \in DOMAIN t.queue : MsgAt(t, i) = MsgAt(Store, i)
  BY <1>1, <1>2, <1>4, FillKeeps
<1>7. /\ cloud' \in CloudTask_T /\ cloud'.pc = "encrypted" /\ cloud'.b = b
      /\ cloud'.todo = cloud.todo /\ cloud'.fd = cloud.fd
  <2>1. b \in 0 .. NBuf
    BY <1>2, NBufAssumption DEF Buf
  <2> QED BY <1>1, <1>3, <2>1 DEF CloudTask_T, Pcs
<1>8. t.queue = queue /\ t.num = num + 1 /\ ~t.buf[b].full
      /\ t.buf[b].msg = [conn |-> conn, num |-> num + 1]
  BY <1>2, <1>4 DEF FilledBy, Store
<1>9. Typed'
  <2>1. TypeOK'
    <3>1. /\ \A c \in Buf : t.buf[c].full \in BOOLEAN /\ t.buf[c].msg \in Message
          /\ t.queue \in Seq(Buf) /\ Len(t.queue) <= NBuf /\ t.num \in Nat
      BY <1>4, StoreTypes
    <3> QED BY <1>1, <1>5, <1>7, <3>1 DEF Typed, TypeOK, ctrl, link
  <2>2. StoreOK(Store)'
    BY <1>1, <1>4, <1>5 DEF StoreOK, link
  <2>3. Program'
    BY <1>1, <1>7 DEF Typed, Program, GivenUp, ForGood, Ops, At, ctrl
  <2> QED BY <1>1, <1>2, <1>7, <2>1, <2>2, <2>3 DEF Typed, At, InFlight, link
<1>10. Waits' /\ Deaf' /\ Recent'
  BY <1>1, <1>5, <1>7, <1>8 DEF Waits, Deaf, Recent, New, Quiet, Ops, At, ctrl, link
<1>11. SUFFICES ASSUME ~skipped' PROVE Sound'
  BY <1>9, <1>10 DEF IInv
<1>12. (Placed \/ Messy) /\ Ages /\ Order
  BY <1>1, <1>11 DEF IInv, Sound, ctrl
<1>13. PlacedIn(Store, 0)
  BY <1>1, <1>12 DEF Placed, Messy, Flight, InFlight
<1>14. PlacedIn(t, 0) /\ \A i \in DOMAIN queue : MsgAt(t, i) = MsgAt(Store, i)
  BY <1>6, <1>8, <1>13
<1>15. Placed'
  BY <1>5, <1>7, <1>8, <1>14 DEF Placed, Flight, InFlight
<1>16. Kept'
  BY <1>7 DEF Kept, Sending, At
<1>17. Ages'
  <2>1. NewLast(Store)' /\ (AllNew(Store) => AllNew(Store)')
    BY <1>1, <1>5, <1>6, <1>8, <1>12, <1>14 DEF Ages, NewLast, AllNew, New, Store, link
  <2>2. ~At("popped")' /\ ~At("sending")' /\ ~Sending' /\ New(buf[cloud.b].msg)'
    BY <1>1, <1>5, <1>7, <1>8 DEF At, Sending, New, link
  <2>3. GivenUp' => GivenUp
    BY <1>1 DEF GivenUp, ctrl
  <2> QED BY <1>1, <1>7, <1>12, <2>1, <2>2, <2>3 DEF Ages, New, link
<1>18. Order'
  <2>1. ~Over
    BY <1>1 DEF Over, Ops, Next1, CloudTask_T
  <2>2. Sent' = Sent /\ Flying' = 0 /\ Flying = 0 /\ Made = num /\ Made' = num
    <3>1. num \in Nat /\ num' = num + 1
      BY <1>1, <1>5, <1>8 DEF Typed, TypeOK
    <3>2. (num + 1) - 1 = num
      BY <3>1
    <3> QED BY <1>1, <1>7, <3>1, <3>2 DEF Sent, Flying, Made, New, At, link
  <2>3. Complete => Complete'
    BY <1>1, <1>5, <1>7, <1>8, <1>14, <2>2 DEF Complete, Numbered, New, At, Store, link
  <2>4. Ending' <=> Ending
    BY <1>1 DEF Ending, GivenUp, ctrl
  <2>5. ~At("sending")'
    BY <1>7 DEF At
  <2> QED BY <1>1, <1>12, <2>1, <2>3, <2>4, <2>5 DEF Order, link
<1> QED BY <1>15, <1>16, <1>17, <1>18 DEF Sound

LEMMA PushKeeps ==
    ASSUME IInv, PushMsg
    PROVE  IInv'
<1> DEFINE b == cloud.b
           t == Enqueue(Store, b)
<1>1. /\ Typed /\ Waits /\ Deaf /\ Recent /\ StoreOK(Store) /\ conn \in 0 .. MaxConn
      /\ cloud \in CloudTask_T /\ ForGood
      /\ cloud.pc = "encrypted" /\ cloud.todo # <<>>
      /\ SetStore(t) /\ cloud' = [cloud EXCEPT !.pc = "run", !.todo = Tail(@), !.b = 0]
      /\ UNCHANGED <<ctrl, link, netUp, timer, out>>
  BY DEF IInv, Typed, TypeOK, PushMsg, At, Program
<1>2. b \in Buf /\ New(Store.buf[b].msg) /\ b # 0
  BY <1>1 DEF At, Typed, Recent, Store, Buf
<1>3. cloud'.pc = "run" /\ cloud'.todo = Tail(cloud.todo) /\ cloud'.b = 0 /\ cloud'.fd = cloud.fd
  BY <1>1 DEF CloudTask_T
<1>4. /\ cloud'.todo \in Seq(Op) /\ ForGood'
      /\ NextOf({"heart", "aes"})
      /\ NextOf({"rsa", "WAIT_ACCESSRSP", "disconnect"})
      /\ NextOf({"disconnect"})
  BY <1>1, <1>3, DoneOK
<1>5. cloud' \in CloudTask_T
  <2>1. 0 \in 0 .. NBuf
    BY NBufAssumption
  <2> QED BY <1>1, <1>4, <1>3, <2>1 DEF CloudTask_T, Pcs
<1> HIDE DEF b
<1>6. StoreOK(t) /\ QueuedBy(Store, t, b)
  BY <1>1, <1>2, EnqueueOK
<1> HIDE DEF t
<1>7. buf' = t.buf /\ queue' = t.queue /\ num' = t.num /\ Store' = t /\ t.num = num
  BY <1>1, <1>6 DEF SetStore, Store, StoreOK, Stores, QueuedBy
<1>8. Typed'
  <2>1. TypeOK'
    <3>1. /\ \A c \in Buf : t.buf[c].full \in BOOLEAN /\ t.buf[c].msg \in Message
          /\ t.queue \in Seq(Buf) /\ Len(t.queue) <= NBuf /\ t.num \in Nat
      BY <1>6, StoreTypes
    <3> QED BY <1>1, <1>3, <1>4, <1>7, <3>1 DEF Typed, TypeOK, ctrl, link
  <2>2. StoreOK(Store)'
    BY <1>1, <1>6, <1>7 DEF StoreOK, link
  <2>3. Program'
    BY <1>1, <1>3, <1>4 DEF Typed, Program, NextOf, GivenUp, At, ctrl
  <2> QED BY <1>1, <1>3, <1>5, <2>1, <2>2, <2>3 DEF Typed, At, InFlight, link
<1>9. Waits'
  BY <1>1 DEF Waits
<1>10. Deaf' /\ Recent'
  BY <1>1, <1>3, <1>4 DEF Deaf, Recent, Quiet, NextOf, At, ctrl, link
<1>11. SUFFICES ASSUME ~skipped' PROVE Sound'
  BY <1>8, <1>9, <1>10 DEF IInv
<1>12. (Placed \/ Messy) /\ Ages /\ Order
  BY <1>1, <1>11 DEF IInv, Sound, ctrl
<1>13. ~Store.buf[b].full /\ PlacedIn(Store, 0)
  BY <1>1, <1>12 DEF Placed, Messy, Sending, Flight, InFlight, At, Store, b
<1>14. /\ AllNew(Store) => AllNew(t)
       /\ PlacedIn(t, 0)
       /\ NewLast(Store) => NewLast(t)
       /\ \A k, m : Numbered(Store, k, m) /\ Store.buf[b].msg.num = m + 1
                      => Numbered(t, k + 1, m + 1)
  BY <1>1, <1>2, <1>6, <1>13, EnqueueKeeps
<1>15. Placed'
  BY <1>3, <1>7, <1>14 DEF Placed, Flight, InFlight, At
<1>16. Kept'
  BY <1>3 DEF Kept, Sending, At
<1>17. Ages'
  <2>1. NewLast(Store)' /\ (AllNew(Store) => AllNew(Store)')
    BY <1>1, <1>7, <1>12, <1>14 DEF Ages, NewLast, AllNew, New, link
  <2>2. ~At("popped")' /\ ~At("sending")' /\ ~At("encrypted")' /\ ~Sending'
    BY <1>3 DEF At, Sending
  <2>3. GivenUp' => GivenUp
    BY <1>1 DEF GivenUp, ctrl
  <2> QED BY <1>1, <1>3, <1>12, <2>1, <2>2, <2>3 DEF Ages, New, link
<1>18. Order'
  <2>1. ~Over
    BY <1>1 DEF Over, At
  <2>2. Sent' = Sent /\ Flying' = 0 /\ Flying = 0 /\ Made = num - 1 /\ Made' = num
    BY <1>1, <1>3, <1>7 DEF Sent, Flying, Made, New, At, link
  <2>3. Complete => Complete'
    <3> SUFFICES ASSUME Complete PROVE Complete'
      OBVIOUS
    <3>1. Numbered(Store, num - 1 - Sent - 0, num - 1)
      BY <2>2 DEF Complete
    <3>2. num \in Nat /\ Sent \in Nat
      <4>1. out.msg.num \in Nat /\ num \in Nat
        BY <1>1 DEF Typed, TypeOK, Message
      <4> QED BY <4>1 DEF Sent
    <3>3. (num - 1) + 1 = num /\ (num - 1 - Sent - 0) + 1 = num - Sent - 0
      BY <3>2
    <3>4. Store.buf[b].msg.num = (num - 1) + 1
      BY <1>1, <3>3 DEF Complete, At, Store, b
    <3>5. Numbered(t, num - Sent - 0, num)
      BY <1>14, <3>1, <3>3, <3>4
    <3>6. Numbered(Store, Made - Sent - Flying, Made)'
      BY <1>1, <1>7, <2>2, <3>5 DEF Numbered, New, link
    <3> QED BY <1>3, <3>6 DEF Complete, At
  <2>4. Ending' <=> Ending
    BY <1>1 DEF Ending, GivenUp, ctrl
  <2>5. ~At("sending")'
    BY <1>3 DEF At
  <2> QED BY <1>1, <1>12, <2>1, <2>3, <2>4, <2>5 DEF Order, link
<1> QED BY <1>15, <1>16, <1>17, <1>18 DEF Sound

\* A connection that was just made has no messages yet.
LEMMA ConnectKeeps ==
    ASSUME IInv, ConnectOk
    PROVE  IInv'
<1>1. /\ Typed /\ Waits /\ Deaf /\ Recent /\ StoreOK(Store) /\ cloud \in CloudTask_T
      /\ cloud.pc = "connecting" /\ cloud.todo = <<>> /\ conn < MaxConn
      /\ conn \in Nat /\ MaxConn \in Nat
  BY BoundAssumption DEF IInv, Typed, TypeOK, Program, ConnectOk, At
<1>2. /\ conn' = conn + 1 /\ sock' = conn + 1 /\ alive' = TRUE /\ num' = 0
      /\ state' = "WAIT_ACCESS" /\ keyRecv' = FALSE
      /\ cloud' = [cloud EXCEPT !.pc = "run"]
      /\ UNCHANGED <<secSwitch, skipped, buf, queue, netUp, timer, out>>
  BY DEF ConnectOk, Goto
<1>3. cloud' \in CloudTask_T /\ cloud'.pc = "run" /\ cloud'.todo = <<>> /\ cloud'.fd = cloud.fd
  BY <1>1, <1>2 DEF CloudTask_T, Pcs
<1>4. /\ Store'.buf = buf /\ Store'.queue = queue /\ Store'.num = 0
      /\ Store.buf = buf /\ Store.queue = queue
  BY <1>2 DEF Store
<1>5. /\ \A b \in Buf : buf[b].msg.conn \in Nat /\ buf[b].msg.conn <= conn
      /\ queue \in Seq(Buf) /\ out.fd \in Nat /\ out.fd <= conn
      /\ cloud.fd \in Nat /\ cloud.fd <= conn
  <2>1. StoreOK(Store) /\ \A b \in Buf : buf[b].msg \in Message
    BY <1>1 DEF Typed, TypeOK
  <2>2. \A b \in Buf : buf[b].msg.conn \in Nat /\ buf[b].msg.conn <= conn
    BY <1>4, <2>1, <1>1 DEF StoreOK, Message
  <2>3. queue \in Seq(Buf) /\ out.fd \in Nat /\ cloud.fd \in Nat
    BY <1>1 DEF Typed, TypeOK, CloudTask_T
  <2> QED BY <1>1, <2>2, <2>3 DEF Recent
<1>6. \A b \in Buf : ~New(buf[b].msg)'
  <2> TAKE b \in Buf
  <2>1. buf[b].msg.conn # conn + 1
    BY <1>1, <1>5
  <2> QED BY <1>2, <2>1 DEF New
<1>7. \A i \in DOMAIN queue : ~New(MsgAt(Store, i))'
  <2> SUFFICES ASSUME NEW i \in DOMAIN queue PROVE ~New(MsgAt(Store, i))'
    OBVIOUS
  <2>1. queue[i] \in Buf
    BY <1>5
  <2>2. MsgAt(Store, i)' = buf'[queue[i]].msg
    BY <1>2, <1>4 DEF MsgAt
  <2> QED BY <1>6, <2>1, <2>2 DEF New
<1>8. Typed'
  <2>1. TypeOK'
    <3>1. 0 \in Nat /\ conn + 1 \in 0 .. MaxConn
      BY <1>1
    <3> QED BY <1>1, <1>2, <1>3, <3>1 DEF Typed, TypeOK, State
  <2>2. StoreOK(Store)'
    <3>1. Store' \in Stores
      <4>1. Store' = [buf |-> buf, queue |-> queue, num |-> 0] /\ Store \in Stores
        BY <1>1, <1>2 DEF Store, StoreOK
      <4> QED BY <1>4, <4>1 DEF Stores
    <3>2. \A b \in Buf : buf[b].msg.conn <= conn + 1
      BY <1>1, <1>5
    <3> QED BY <1>1, <1>2, <1>4, <3>1, <3>2 DEF StoreOK
  <2>3. Program'
    BY <1>2, <1>3 DEF Program, GivenUp, ForGood, Ops, At
  <2> QED BY <1>1, <1>2, <1>3, <2>1, <2>2, <2>3 DEF Typed, At, InFlight
<1>9. Waits'
  BY <1>1, <1>2 DEF Waits
<1>10. Deaf'
  BY <1>1, <1>2, <1>3 DEF Deaf, Quiet, Ops, At
<1>11. Recent'
  <2>1. out'.fd <= conn' /\ cloud'.fd <= conn'
    BY <1>1, <1>2, <1>3, <1>5
  <2> QED BY <1>3, <2>1 DEF Recent, At
<1>12. SUFFICES ASSUME ~skipped' PROVE Sound'
  BY <1>8, <1>9, <1>10, <1>11 DEF IInv
<1>13. Sound
  BY <1>2, <1>12 DEF IInv
<1>14. Placed'
  <2>1. Placed
    BY <1>1, <1>13 DEF Sound, Messy, Sending, At
  <2> QED BY <1>1, <1>3, <1>4, <2>1 DEF Placed, PlacedIn, InQueue, Flight, InFlight, At
<1>15. Kept'
  BY <1>3 DEF Kept, Sending, At
<1>16. Ages'
  <2>1. ~At("popped")' /\ ~At("sending")' /\ ~At("encrypted")' /\ ~Sending' /\ ~GivenUp'
    BY <1>2, <1>3 DEF At, Sending, GivenUp
  <2>2. NewLast(Store)'
    BY <1>4, <1>2, <1>7 DEF NewLast
  <2>3. out'.fd # conn'
    BY <1>1, <1>2, <1>5
  <2> QED BY <2>1, <2>2, <2>3 DEF Ages
<1>17. Order'
  <2>1. Made' = 0 /\ Sent' = 0 /\ Flying' = 0
    <3>1. out'.fd # conn'
      BY <1>1, <1>2, <1>5
    <3> QED BY <1>2, <1>3, <3>1 DEF Made, Sent, Flying, At
  <2>2. Numbered(Store, 0, 0)'
    <3>1. Len(queue) \in Nat /\ DOMAIN queue = 1 .. Len(queue)
      BY <1>5
    <3>2. \A i \in DOMAIN queue : ~(i > Len(queue) - 0)
      BY <3>1
    <3> QED BY <1>2, <1>4, <1>7, <3>1, <3>2 DEF Numbered
  <2>3. Complete'
    BY <1>3, <2>1, <2>2 DEF Complete, At
  <2>4. ~At("sending")' /\ conn' # 0
    BY <1>1, <1>2, <1>3 DEF At
  <2> QED BY <1>2, <2>3, <2>4 DEF Order
<1> QED BY <1>14, <1>15, <1>16, <1>17 DEF Sound

-----------------------------------------------------------------------------
(***************************************************************************)
(* HF_Cloudfunc sends a message.                                           *)
(***************************************************************************)
\* A buffer is taken out of the queue.
LEMMA PopOK ==
    ASSUME NEW s, StoreOK(s), s.queue # <<>>, PlacedIn(s, 0), NewLast(s),
           NEW t, t.buf = s.buf, t.queue = Tail(s.queue), t.num = s.num,
           NEW b, b = Head(s.queue)
    PROVE  /\ b \in Buf /\ s.buf[b].full
           /\ PlacedIn(t, b) /\ NewLast(t)
           /\ AllNew(s) => AllNew(t) /\ New(s.buf[b].msg)
           /\ New(s.buf[b].msg) => AllNew(t)
           /\ \A k, m : Numbered(s, k, m) =>
                 IF New(s.buf[b].msg)
                 THEN Numbered(t, k - 1, m) /\ s.buf[b].msg.num = m - k + 1
                 ELSE Numbered(t, k, m)
<1> DEFINE n == Len(s.queue)
<1>1. /\ s.queue \in Seq(Buf) /\ n \in Nat /\ n >= 1 /\ DOMAIN s.queue = 1 .. n
      /\ b = s.queue[1] /\ b \in Buf /\ 1 \in DOMAIN s.queue
  BY DEF StoreOK, Stores
<1>2. /\ Len(t.queue) = n - 1 /\ DOMAIN t.queue = 1 .. n - 1
      /\ \A i \in 1 .. n - 1 : t.queue[i] = s.queue[i + 1]
      /\ \A i \in 1 .. n - 1 : i \in Int /\ i + 1 \in 1 .. n /\ 1 < i + 1
      /\ \A i \in 1 .. n : i = 1 \/ (i \in Int /\ i - 1 \in 1 .. n - 1 /\ (i - 1) + 1 = i)
  BY <1>1
<1>3. /\ \A i \in 1 .. n - 1 : MsgAt(t, i) = MsgAt(s, i + 1)
      /\ MsgAt(s, 1) = s.buf[b].msg
  BY <1>1, <1>2 DEF MsgAt
<1>4. s.buf[b].full
  BY <1>1 DEF PlacedIn
<1>5. PlacedIn(t, b)
  <2>1. IsInjective(t.queue)
    <3> SUFFICES ASSUME NEW i \in 1 .. n - 1, NEW j \in 1 .. n - 1, t.queue[i] = t.queue[j]
                 PROVE  i = j
      BY <1>2 DEF IsInjective
    <3>1. i + 1 = j + 1
      BY <1>1, <1>2 DEF PlacedIn, IsInjective
    <3> QED BY <1>2, <3>1
  <2>2. \A i \in DOMAIN t.queue : t.buf[t.queue[i]].full
    BY <1>1, <1>2 DEF PlacedIn
  <2>3. \A c \in Buf : t.buf[c].full => c = b \/ InQueue(t, c)
    <3> SUFFICES ASSUME NEW c \in Buf, s.buf[c].full, c # b
                 PROVE  InQueue(t, c)
      OBVIOUS
    <3>1. PICK i \in 1 .. n : s.queue[i] = c
      <4>1. c # 0
        BY DEF Buf
      <4> QED BY <1>1, <4>1 DEF PlacedIn, InQueue
    <3>2. i # 1
      BY <1>1, <3>1
    <3>3. i - 1 \in 1 .. n - 1 /\ t.queue[i - 1] = c
      BY <1>2, <3>1, <3>2
    <3> QED BY <1>2, <3>3 DEF InQueue
  <2>4. ~InQueue(t, b)
    <3> SUFFICES ASSUME NEW i \in 1 .. n - 1, s.queue[i + 1] = s.queue[1]
                 PROVE  FALSE
      BY <1>1, <1>2 DEF InQueue
    <3>1. i + 1 = 1
      BY <1>1, <1>2 DEF PlacedIn, IsInjective
    <3> QED BY <1>2, <3>1
  <2> QED BY <2>1, <2>2, <2>3, <2>4 DEF PlacedIn
<1>6. NewLast(t)
  <2> SUFFICES ASSUME NEW i \in 1 .. n - 1, NEW j \in 1 .. n - 1, i < j, New(MsgAt(t, i))
               PROVE  New(MsgAt(t, j))
    BY <1>2 DEF NewLast
  <2>1. i + 1 < j + 1
    BY <1>2
  <2> QED BY <1>1, <1>2, <1>3, <2>1 DEF NewLast
<1>7. AllNew(s) => AllNew(t) /\ New(s.buf[b].msg)
  BY <1>1, <1>2, <1>3 DEF AllNew
<1>8. New(s.buf[b].msg) => AllNew(t)
  BY <1>1, <1>2, <1>3 DEF AllNew, NewLast
<1>9. ASSUME NEW k, NEW m, Numbered(s, k, m)
      PROVE  IF New(s.buf[b].msg)
             THEN Numbered(t, k - 1, m) /\ s.buf[b].msg.num = m - k + 1
             ELSE Numbered(t, k, m)
  <2>1. /\ k \in Nat /\ m \in Nat /\ k <= n
        /\ \A i \in 1 .. n : /\ New(MsgAt(s, i)) <=> i > n - k
                             /\ New(MsgAt(s, i)) => MsgAt(s, i).num = m - n + i
    BY <1>1, <1>9 DEF Numbered
  <2>2. \A i \in 1 .. n - 1 : /\ New(MsgAt(t, i)) <=> i + 1 > n - k
                              /\ New(MsgAt(t, i)) => MsgAt(t, i).num = m - n + (i + 1)
    BY <1>2, <1>3, <2>1
  <2>3. /\ New(s.buf[b].msg) <=> 1 > n - k
        /\ New(s.buf[b].msg) => s.buf[b].msg.num = m - n + 1
    BY <1>1, <1>3, <2>1
  <2> HIDE DEF n
  <2>4. \A i \in 1 .. n - 1 : m - n + (i + 1) = m - (n - 1) + i
    BY <1>1, <2>1
  <2>5. CASE New(s.buf[b].msg)
    <3>1. k = n
      BY <1>1, <2>1, <2>3, <2>5
    <3>2. k - 1 \in Nat /\ k - 1 <= n - 1 /\ m - n + 1 = m - k + 1
      BY <1>1, <2>1, <3>1
    <3>3. \A i \in 1 .. n - 1 : i + 1 > n - k <=> i > (n - 1) - (k - 1)
      BY <1>1, <3>1
    <3>4. Numbered(t, k - 1, m)
      <4>1. \A i \in 1 .. n - 1 : /\ New(MsgAt(t, i)) <=> i > (n - 1) - (k - 1)
                                  /\ New(MsgAt(t, i)) => MsgAt(t, i).num = m - (n - 1) + i
        BY <2>2, <2>4, <3>3
      <4> QED BY <1>2, <2>1, <3>2, <4>1 DEF Numbered
    <3> QED BY <2>3, <2>5, <3>2, <3>4
  <2>6. CASE ~New(s.buf[b].msg)
    <3>1. k <= n - 1
      BY <1>1, <2>1, <2>3, <2>6
    <3>2. \A i \in 1 .. n - 1 : i + 1 > n - k <=> i > (n - 1) - k
      BY <1>1, <2>1
    <3>3. Numbered(t, k, m)
      <4>1. \A i \in 1 .. n - 1 : /\ New(MsgAt(t, i)) <=> i > (n - 1) - k
                                  /\ New(MsgAt(t, i)) => MsgAt(t, i).num = m - (n - 1) + i
        BY <2>2, <2>4, <3>2
      <4> QED BY <1>2, <2>1, <3>1, <4>1 DEF Numbered
    <3> QED BY <2>6, <3>3
  <2> QED BY <2>5, <2>6
<1> QED BY <1>1, <1>4, <1>5, <1>6, <1>7, <1>8, <1>9

LEMMA PopKeeps ==
    ASSUME IInv, PopMsg
    PROVE  IInv'
<1>1. /\ Typed /\ Waits /\ Deaf /\ Recent /\ StoreOK(Store) /\ cloud \in CloudTask_T
      /\ cloud.pc = "run" /\ cloud.todo = <<>> /\ ~GivenUp
      /\ UNCHANGED <<ctrl, buf, num, link, netUp, timer, out>>
  BY DEF IInv, Typed, PopMsg, At, GivenUp
<1>2. UNCHANGED <<state, keyRecv, secSwitch, skipped, sock, conn, alive>>
  BY <1>1 DEF ctrl, link
<1>3. CASE queue = <<>> /\ cloud' = Idle /\ queue' = queue
  <2>1. Idle \in CloudTask_T /\ Idle.pc = "idle" /\ Idle.todo = <<>> /\ Idle.fd = 0
    <3>1. MaxConn \in Nat /\ NBuf \in Nat
      BY BoundAssumption, NBufAssumption
    <3>2. Blank.msg \in Message
      BY <3>1 DEF Blank, Message
    <3>3. <<>> \in Seq(Op) /\ 0 \in 0 .. NBuf /\ 0 \in 0 .. MaxConn
      BY <3>1
    <3> QED BY <3>2, <3>3 DEF Idle, CloudTask_T, Pcs
  <2>2. SameWork
    BY <1>1, <1>3, <2>1 DEF SameWork, At, InFlight
  <2>3. Typed'
    <3>1. TypeOK'
      <4>1. cloud'.pc \in Pcs /\ cloud'.todo \in Seq(Op)
        BY <1>3, <2>1 DEF CloudTask_T
      <4> QED BY <1>1, <1>2, <1>3, <4>1 DEF Typed, TypeOK, Pcs
    <3>2. StoreOK(Store)'
      BY <1>1, <1>2, <1>3 DEF StoreOK, Store
    <3>3. Program'
      BY <1>3, <2>1 DEF Program, ForGood, GivenUp, At, Ops
    <3> QED BY <1>1, <1>2, <1>3, <2>1, <3>1, <3>2, <3>3 DEF Typed, At, InFlight
  <2>4. Waits' /\ Deaf'
    BY <1>1, <1>2, <1>3, <2>1 DEF Waits, Deaf, Quiet, Ops, At
  <2>5. ~Messy /\ ~Sending /\ ~Ending /\ (GivenUp' => GivenUp) /\ (Over => Over')
    BY <1>1, <1>2, <1>3, <2>1 DEF Messy, Sending, Ending, GivenUp, Over, Quiet, Ops, At
  <2> QED BY <1>1, <1>2, <1>3, <2>2, <2>3, <2>4, <2>5, StoreKept DEF store
<1>4. CASE /\ queue # <<>> /\ queue' = Tail(queue)
           /\ cloud' = [cloud EXCEPT !.pc = "popped", !.b = Head(queue)]
  <2> DEFINE b == Head(queue)
             t == [buf |-> buf, queue |-> Tail(queue), num |-> num]
  <2>1. /\ Store' = t /\ t.buf = buf /\ t.queue = Tail(queue) /\ t.num = num
        /\ Store.buf = buf /\ Store.queue = queue /\ Store.num = num
    BY <1>1, <1>4 DEF Store
  <2>2. b \in Buf /\ queue \in Seq(Buf) /\ queue' \in Seq(Buf) /\ Len(queue') <= NBuf
    BY <1>1, <1>4, NBufAssumption DEF Typed, TypeOK
  <2> HIDE DEF t, b
  <2>3. /\ cloud' \in CloudTask_T /\ cloud'.pc = "popped" /\ cloud'.b = b
        /\ cloud'.todo = <<>> /\ cloud'.fd = cloud.fd
    <3>1. b \in 0 .. NBuf
      BY <2>2, NBufAssumption DEF Buf
    <3> QED BY <1>1, <1>4, <3>1 DEF CloudTask_T, Pcs, b
  <2>4. Typed'
    <3>1. TypeOK'
      BY <1>1, <1>2, <2>2, <2>3 DEF Typed, TypeOK
    <3>2. StoreOK(Store)'
      <4>1. Store' \in Stores
        BY <1>1, <1>4, <2>1, <2>2 DEF StoreOK, Stores, Store, t
      <4> QED BY <1>1, <1>2, <1>4, <2>1, <2>2, <4>1 DEF StoreOK
    <3>3. Program'
      BY <2>3 DEF Program, ForGood, Ops, At
    <3> QED BY <1>1, <1>2, <2>2, <2>3, <3>1, <3>2, <3>3 DEF Typed, At, InFlight, GivenUp
  <2>5. Waits' /\ Deaf' /\ Recent'
    BY <1>1, <1>2, <1>4, <2>3 DEF Waits, Deaf, Recent, Quiet, Ops, At
  <2>6. SUFFICES ASSUME ~skipped' PROVE Sound'
    BY <2>4, <2>5 DEF IInv
  <2>7. (Placed \/ Messy) /\ Ages /\ Order
    BY <1>2, <2>6 DEF IInv, Sound
  <2>8. PlacedIn(Store, 0) /\ NewLast(Store)
    BY <1>1, <2>7 DEF Messy, Ending, Placed, Flight, InFlight, Ages
  <2>9. /\ b \in Buf /\ buf[b].full
        /\ PlacedIn(t, b) /\ NewLast(t)
        /\ AllNew(Store) => AllNew(t) /\ New(buf[b].msg)
        /\ New(buf[b].msg) => AllNew(t)
        /\ \A k, m : Numbered(Store, k, m) =>
              IF New(buf[b].msg)
              THEN Numbered(t, k - 1, m) /\ buf[b].msg.num = m - k + 1
              ELSE Numbered(t, k, m)
    <3>1. /\ StoreOK(Store) /\ Store.queue # <<>> /\ t.buf = Store.buf
          /\ t.queue = Tail(Store.queue) /\ t.num = Store.num /\ b = Head(Store.queue)
      BY <1>1, <1>4, <2>1 DEF b
    <3>2. /\ b \in Buf /\ Store.buf[b].full
          /\ PlacedIn(t, b) /\ NewLast(t)
          /\ AllNew(Store) => AllNew(t) /\ New(Store.buf[b].msg)
          /\ New(Store.buf[b].msg) => AllNew(t)
          /\ \A k, m : Numbered(Store, k, m) =>
                IF New(Store.buf[b].msg)
                THEN Numbered(t, k - 1, m) /\ Store.buf[b].msg.num = m - k + 1
                ELSE Numbered(t, k, m)
      BY <2>8, <3>1, PopOK
    <3> QED BY <2>1, <3>2
  <2>10. Placed'
    BY <2>1, <2>3, <2>9 DEF Placed, Flight, InFlight, At
  <2>11. Kept'
    BY <1>1, <2>3, <2>9 DEF Kept, Sending, At
  <2>12. Ages'
    <3>1. NewLast(Store)' /\ (AllNew(t) => AllNew(Store)')
      BY <1>2, <2>1, <2>9 DEF NewLast, AllNew, New
    <3>2. ~At("encrypted")' /\ ~At("sending")' /\ ~Sending' /\ ~GivenUp' /\ cloud'.fd = cloud.fd
      BY <1>1, <1>2, <2>3 DEF At, Sending, GivenUp
    <3>3. buf'[cloud'.b].msg = buf[b].msg
      BY <1>1, <2>3
    <3> QED BY <1>1, <1>2, <2>7, <2>9, <3>1, <3>2, <3>3 DEF Ages, New
  <2>13. Order'
    <3>1. ~Over /\ ~Ending
      BY <1>1, <1>4 DEF Over, Ending
    <3>2. /\ Sent' = Sent /\ Flying = 0 /\ Made = num /\ Made' = num
          /\ Flying' = IF New(buf[b].msg) THEN 1 ELSE 0
      BY <1>1, <1>2, <2>3 DEF Sent, Flying, Made, New, At
    <3>3. Complete => Complete'
      <4> SUFFICES ASSUME Complete PROVE Complete'
        OBVIOUS
      <4>1. num \in Nat /\ Sent \in Nat
        <5>1. out.msg.num \in Nat /\ num \in Nat
          BY <1>1 DEF Typed, TypeOK, Message
        <5> QED BY <5>1 DEF Sent
      <4>2. num - Sent - 0 - 1 = num - Sent - 1 /\ num - (num - Sent - 0) + 1 = Sent + 1
        BY <4>1
      <4>3. Numbered(Store, num - Sent - 0, num)
        BY <3>2 DEF Complete
      <4>4. IF New(buf[b].msg)
            THEN Numbered(t, num - Sent - 1, num) /\ buf[b].msg.num = Sent + 1
            ELSE Numbered(t, num - Sent - 0, num)
        BY <2>9, <4>2, <4>3
      <4>5. Numbered(Store, Made - Sent - Flying, Made)'
        BY <1>2, <2>1, <3>2, <4>4 DEF Numbered, New
      <4>6. buf'[cloud'.b].msg = buf[b].msg /\ ~At("encrypted")'
        BY <1>1, <2>3 DEF At
      <4> QED BY <1>2, <3>2, <4>4, <4>5, <4>6 DEF Complete, New
    <3>4. ~At("sending")'
      BY <2>3 DEF At
    <3> QED BY <1>1, <1>2, <2>7, <3>1, <3>3, <3>4 DEF Order
  <2> QED BY <2>10, <2>11, <2>12, <2>13 DEF Sound
<1> QED BY <1>3, <1>4 DEF PopMsg

LEMMA StartKeeps ==
    ASSUME IInv, StartSend
    PROVE  IInv'
<1>1. /\ Typed /\ Waits /\ Deaf /\ Recent /\ cloud \in CloudTask_T
      /\ cloud.pc = "popped" /\ cloud.todo = <<>> /\ ~GivenUp /\ cloud.b \in Buf
      /\ cloud' = [cloud EXCEPT !.pc = "sending", !.fd = sock, !.msg = buf[cloud.b].msg]
      /\ UNCHANGED <<ctrl, store, link, netUp, timer, out>>
  BY DEF IInv, Typed, StartSend, Program, At, InFlight
<1>2. /\ UNCHANGED <<state, keyRecv, secSwitch, skipped, buf, queue, num, sock, conn, alive>>
      /\ Store' = Store
  BY <1>1 DEF ctrl, link, store, Store
<1>3. buf[cloud.b].msg \in Message /\ sock \in 0 .. MaxConn /\ conn \in Nat /\ sock \in {0, conn}
  <2>1. /\ buf[cloud.b].msg \in Message /\ conn \in 0 .. MaxConn /\ sock \in {0, conn}
        /\ MaxConn \in Nat
    BY <1>1, BoundAssumption DEF Typed, TypeOK
  <2> QED BY <2>1
<1>4. /\ cloud' \in CloudTask_T /\ cloud'.pc = "sending" /\ cloud'.b = cloud.b
      /\ cloud'.todo = <<>> /\ cloud'.fd = sock /\ cloud'.msg = buf[cloud.b].msg
  BY <1>1, <1>3 DEF CloudTask_T, Pcs
<1>5. Typed'
  <2>1. TypeOK'
    BY <1>1, <1>2, <1>4 DEF Typed, TypeOK
  <2>2. StoreOK(Store)'
    BY <1>1, <1>2 DEF Typed, StoreOK
  <2>3. Program'
    BY <1>1, <1>4 DEF Program, ForGood, Ops, At
  <2> QED BY <1>1, <1>2, <1>4, <2>1, <2>2, <2>3 DEF Typed, At, InFlight
<1>6. "reconnect" \notin timer
  BY <1>1 DEF Waits
<1>7. Waits' /\ Deaf' /\ Recent'
  <2>1. cloud'.fd <= conn
    BY <1>3, <1>4
  <2> QED BY <1>1, <1>2, <1>4, <1>6, <2>1 DEF Waits, Deaf, Recent, Quiet, Ops, At
<1>8. SUFFICES ASSUME ~skipped' PROVE Sound'
  BY <1>5, <1>7 DEF IInv
<1>9. (Placed \/ Messy) /\ Ages /\ Order /\ Kept
  BY <1>2, <1>8 DEF IInv, Sound
<1>10. Placed'
  <2>1. Placed
    BY <1>1, <1>9 DEF Messy, Ending
  <2> QED BY <1>2, <1>4, <1>1, <2>1 DEF Placed, PlacedIn, Flight, InFlight, At
<1>11. Kept'
  BY <1>1, <1>2, <1>4, <1>9 DEF Kept, Deaf, Quiet, Sending, At
<1>12. Ages'
  <2>1. ~At("popped")' /\ ~At("encrypted")' /\ At("sending")' /\ At("popped") /\ ~GivenUp'
    BY <1>1, <1>2, <1>4 DEF At, GivenUp
  <2>2. NewLast(Store)' /\ (AllNew(Store) => AllNew(Store)')
    BY <1>1, <1>2, <1>9 DEF Ages, NewLast, AllNew, New
  <2>3. ~(Sending' /\ ~buf'[cloud'.b].full)
    BY <1>1, <1>2, <1>4, <1>9 DEF Kept, Sending, At
  <2> QED BY <1>1, <1>2, <1>4, <1>9, <2>1, <2>2, <2>3 DEF Ages, New
<1>13. Order'
  <2>1. ~Over /\ ~Ending /\ At("popped") /\ At("sending")' /\ ~At("popped")'
        /\ ~At("encrypted") /\ ~At("encrypted")'
    BY <1>1, <1>4 DEF Over, Ending, At
  <2>2. Sent' = Sent /\ Flying' = Flying /\ Made' = Made
    BY <1>1, <1>2, <1>4 DEF Sent, Flying, Made, New, At
  <2>3. Complete => Complete' /\ (New(buf[cloud.b].msg) => buf[cloud.b].msg.num = Sent + 1)
    BY <1>2, <2>1, <2>2 DEF Complete, Numbered, New, MsgAt
  <2> QED BY <1>1, <1>2, <1>4, <1>9, <2>1, <2>2, <2>3 DEF Order, New
<1> QED BY <1>10, <1>11, <1>12, <1>13 DEF Sound

\* The buffer is freed, whatever happened to it meanwhile.
LEMMA SentKeeps ==
    ASSUME IInv, SendDone
    PROVE  IInv'
<1> DEFINE b == cloud.b
<1>1. /\ Typed /\ Waits /\ Deaf /\ Recent /\ StoreOK(Store) /\ cloud \in CloudTask_T
      /\ cloud.pc = "sending" /\ cloud.todo = <<>> /\ b \in Buf
      /\ cloud' = Idle /\ buf' = [buf EXCEPT ![b].full = FALSE]
      /\ out' = IF cloud.fd # 0 /\ cloud.fd = conn /\ alive
                THEN [fd |-> cloud.fd, msg |-> cloud.msg] ELSE out
      /\ UNCHANGED <<ctrl, queue, num, link, netUp, timer>>
  BY DEF IInv, Typed, SendDone, Program, At, InFlight
<1>2. UNCHANGED <<state, keyRecv, secSwitch, skipped, sock, conn, alive>>
  BY <1>1 DEF ctrl, link
<1>3. Idle \in CloudTask_T /\ Idle.pc = "idle" /\ Idle.todo = <<>> /\ Idle.fd = 0
  <2>1. MaxConn \in Nat /\ NBuf \in Nat
    BY BoundAssumption, NBufAssumption
  <2>2. Blank.msg \in Message
    BY <2>1 DEF Blank, Message
  <2>3. <<>> \in Seq(Op) /\ 0 \in 0 .. NBuf /\ 0 \in 0 .. MaxConn
    BY <2>1
  <2> QED BY <2>2, <2>3 DEF Idle, CloudTask_T, Pcs
<1>4. /\ Store \in Stores /\ Store.buf = buf /\ Store.queue = queue /\ Store.num = num
      /\ Store' = [buf |-> buf', queue |-> queue, num |-> num]
      /\ Store'.buf = buf' /\ Store'.queue = queue /\ Store'.num = num
  BY <1>1 DEF Store, StoreOK
<1>5. buf \in [Buf -> Cell] /\ queue \in Seq(Buf) /\ num \in Nat
  BY <1>4 DEF Stores
<1> HIDE DEF b
<1>6. buf'[b] = [buf[b] EXCEPT !.full = FALSE] /\ buf' \in [Buf -> Cell]
  <2>1. buf[b] \in Cell
    BY <1>1, <1>5
  <2>2. [buf[b] EXCEPT !.full = FALSE] \in Cell
    BY <2>1 DEF Cell
  <2> QED BY <1>1, <1>5, <2>2
<1>7. /\ ~buf'[b].full /\ buf'[b].msg = buf[b].msg
      /\ \A c \in Buf : c # b => buf'[c] = buf[c]
      /\ \A c \in Buf : buf'[c].msg = buf[c].msg
  <2>1. ~buf'[b].full /\ buf'[b].msg = buf[b].msg
    BY <1>1, <1>5, <1>6 DEF Cell
  <2>2. \A c \in Buf : c # b => buf'[c] = buf[c]
    BY <1>1, <1>5
  <2> QED BY <2>1, <2>2
<1>8. \A i \in DOMAIN queue : /\ queue[i] \in Buf
                              /\ MsgAt(Store, i)' = MsgAt(Store, i)
  BY <1>1, <1>4, <1>5, <1>7 DEF MsgAt
<1>9. Typed'
  <2>1. StoreOK(Store)'
    <3>1. Store' \in Stores
      BY <1>4, <1>5, <1>6 DEF Stores
    <3> QED BY <1>1, <1>2, <1>4, <1>7, <3>1 DEF StoreOK
  <2>2. TypeOK'
    <3>1. \A c \in Buf : buf'[c].full \in BOOLEAN /\ buf'[c].msg \in Message
      BY <1>6 DEF Cell
    <3>2. cloud'.pc \in Pcs /\ cloud'.todo \in Seq(Op)
      BY <1>1, <1>3 DEF CloudTask_T
    <3> QED BY <1>1, <1>2, <3>1, <3>2 DEF Typed, TypeOK, Pcs
  <2>3. out' \in [fd : 0 .. MaxConn, msg : Message]
    BY <1>1 DEF Typed, CloudTask_T
  <2>4. Program'
    BY <1>1, <1>3 DEF Program, ForGood, Ops, At
  <2> QED BY <1>1, <1>3, <2>1, <2>2, <2>3, <2>4 DEF Typed, At, InFlight
<1>10. "reconnect" \notin timer
  BY <1>1 DEF Waits
<1>11. Waits' /\ Deaf' /\ Recent'
  <2>1. out'.fd <= conn' /\ cloud'.fd <= conn'
    <3>1. conn \in Nat /\ cloud.fd <= conn /\ out.fd <= conn
      BY <1>1 DEF Recent, Typed, TypeOK
    <3> QED BY <1>1, <1>2, <1>3, <3>1
  <2> QED BY <1>1, <1>2, <1>3, <1>10, <2>1 DEF Waits, Deaf, Recent, Quiet, Ops, At
<1>12. SUFFICES ASSUME ~skipped' PROVE Sound'
  BY <1>9, <1>11 DEF IInv
<1>13. (Placed \/ Messy) /\ Ages /\ Order
  BY <1>2, <1>12 DEF IInv, Sound
<1>14. (Placed \/ Messy)'
  <2>1. CASE Messy
    BY <1>1, <1>2, <1>3, <2>1 DEF Messy, Ending, GivenUp, At
  <2>2. CASE Placed
    <3>1. PlacedIn(Store, b)
      BY <1>1, <2>2 DEF Placed, Flight, InFlight, b
    <3>2. IsInjective(queue) /\ ~InQueue(Store', 0)
      BY <1>4, <1>8, <3>1 DEF PlacedIn, InQueue, Buf
    <3>3. \A i \in DOMAIN queue : buf'[queue[i]].full
      BY <1>4, <1>7, <1>8, <3>1 DEF PlacedIn, InQueue
    <3>4. \A c \in Buf : buf'[c].full => InQueue(Store', c)
      BY <1>4, <1>7, <3>1 DEF PlacedIn, InQueue
    <3>5. PlacedIn(Store', 0)
      BY <1>4, <3>2, <3>3, <3>4 DEF PlacedIn
    <3>6. Flight' = 0 /\ ~At("encrypted")'
      BY <1>1, <1>3 DEF Flight, InFlight, At
    <3>7. Placed'
      BY <3>5, <3>6 DEF Placed
    <3> QED BY <3>7
  <2> QED BY <1>13, <2>1, <2>2
<1>15. Kept'
  BY <1>1, <1>3 DEF Kept, Sending, At
<1>16. ~At("popped")' /\ ~At("sending")' /\ ~At("encrypted")' /\ ~Sending'
       /\ At("sending") /\ ~At("popped") /\ ~At("encrypted")
  BY <1>1, <1>3 DEF At, Sending
<1>17. Ages'
  <2>1. NewLast(Store)' /\ (AllNew(Store) => AllNew(Store)')
    BY <1>1, <1>2, <1>4, <1>8, <1>13 DEF Ages, NewLast, AllNew, New, MsgAt
  <2>2. (out.fd = conn /\ New(out.msg))' => AllNew(Store)
    BY <1>1, <1>2, <1>13, <1>16 DEF Ages, New
  <2>3. GivenUp' => AllNew(Store)
    BY <1>1, <1>2, <1>13 DEF Ages, GivenUp
  <2> QED BY <1>16, <2>1, <2>2, <2>3 DEF Ages, New
<1>18. Order'
  <2> SUFFICES ASSUME alive PROVE Order'
    BY <1>2 DEF Order
  <2>1. cloud.fd = conn /\ conn # 0 /\ sock = conn
        /\ (New(cloud.msg) => cloud.msg.num = Sent + 1)
    BY <1>1, <1>13, <1>16 DEF Order
  <2>2. out' = [fd |-> conn, msg |-> cloud.msg]
    BY <1>1, <2>1
  <2>3. Sent' = (IF New(cloud.msg) THEN cloud.msg.num ELSE 0)
        /\ Flying' = 0 /\ Flying = (IF New(cloud.msg) THEN 1 ELSE 0)
        /\ Made = num /\ Made' = num
    BY <1>1, <1>2, <1>16, <2>2 DEF Sent, Flying, Made, New
  <2>4. ~New(cloud.msg) => Sent = 0
    BY <1>1, <1>13, <1>16, <2>1 DEF Ages, Sent
  <2>5. num - Sent - Flying = num - Sent' - 0
    <3>1. Sent \in Nat
      <4>1. out.msg.num \in Nat
        BY <1>1 DEF Typed, Message
      <4> QED BY <4>1 DEF Sent
    <3>2. CASE New(cloud.msg)
      <4>1. Sent' = Sent + 1 /\ Flying = 1
        BY <2>1, <2>3, <3>2
      <4> QED BY <1>5, <3>1, <4>1
    <3>3. CASE ~New(cloud.msg)
      <4>1. Sent' = 0 /\ Flying = 0 /\ Sent = 0
        BY <2>3, <2>4, <3>3
      <4> QED BY <1>5, <4>1
    <3> QED BY <3>2, <3>3
  <2>6. Complete => Complete'
    <3> SUFFICES ASSUME Numbered(Store, num - Sent' - 0, num)
                 PROVE  Numbered(Store, Made - Sent - Flying, Made)'
      BY <1>16, <2>3, <2>5 DEF Complete
    <3> DEFINE k == num - Sent' - 0
    <3>1. Made' - Sent' - Flying' = k
      BY <2>3
    <3> HIDE DEF k
    <3>2. Numbered(Store, k, num)
      BY DEF k
    <3>3. /\ k \in Nat /\ num \in Nat /\ k <= Len(Store'.queue)
          /\ \A i \in DOMAIN Store'.queue :
                /\ New(MsgAt(Store, i))' <=> i > Len(Store'.queue) - k
                /\ New(MsgAt(Store, i))' => MsgAt(Store, i)'.num = num - Len(Store'.queue) + i
      BY <1>2, <1>4, <1>8, <3>2 DEF Numbered, New
    <3> QED BY <2>3, <3>1, <3>3 DEF Numbered
  <2>7. (Ending => Ending') /\ (Over => Over')
    BY <1>1, <1>2, <1>3, <1>16 DEF Ending, GivenUp, Over, Quiet, Ops
  <2> QED BY <1>1, <1>2, <1>13, <1>16, <2>1, <2>6, <2>7 DEF Order
<1> QED BY <1>14, <1>15, <1>17, <1>18 DEF Sound

-----------------------------------------------------------------------------
(***************************************************************************)
(* The theorems.                                                           *)
(***************************************************************************)
LEMMA InitIInv == Init => IInv
<1> SUFFICES ASSUME Init PROVE IInv
  OBVIOUS
<1>1. MaxConn \in Nat /\ NBuf \in Nat
  BY BoundAssumption, NBufAssumption
<1>2. Blank.msg \in Message /\ Blank.msg.conn = 0 /\ ~Blank.full /\ Blank \in Cell
  BY <1>1 DEF Blank, Message, Cell
<1>3. Idle \in CloudTask_T /\ Idle.pc = "idle" /\ Idle.todo = <<>> /\ Idle.fd = 0
  <2>1. <<>> \in Seq(Op) /\ 0 \in 0 .. NBuf /\ 0 \in 0 .. MaxConn
    BY <1>1
  <2> QED BY <1>2, <2>1 DEF Idle, CloudTask_T, Pcs
<1>4. cloud = Idle /\ \A b \in Buf : buf[b] = Blank
  BY DEF Init
<1>5. /\ Store.buf = buf /\ Store.queue = <<>> /\ Store.num = 0 /\ DOMAIN Store.queue = {}
      /\ StoreOK(Store)
  <2>1. buf \in [Buf -> Cell] /\ queue \in Seq(Buf) /\ num \in Nat /\ Len(queue) <= NBuf
    BY <1>1, <1>2 DEF Init
  <2>2. Store \in Stores
    BY <2>1 DEF Store, Stores
  <2> QED BY <1>2, <1>4, <2>1, <2>2 DEF Store, StoreOK, Init
<1>6. Typed
  <2>1. TypeOK
    <3>1. cloud.pc = "idle" /\ cloud.todo = <<>>
      BY <1>3, <1>4
    <3>2. \A b \in Buf : buf[b].full \in BOOLEAN /\ buf[b].msg \in Message
      BY <1>2, <1>4 DEF Cell
    <3>3. queue \in Seq(Buf) /\ Len(queue) <= NBuf /\ cloud.todo \in Seq(Op)
      BY <1>1, <3>1 DEF Init
    <3>4. /\ state \in State /\ keyRecv \in BOOLEAN /\ secSwitch \in 0 .. 1 /\ skipped \in BOOLEAN
          /\ timer \subseteq {"reconnect", "access", "stale", "heart", "moudle"}
      BY DEF Init, State
    <3>5. sock \in {0, conn} /\ conn \in 0 .. MaxConn /\ num \in Nat
      BY <1>1 DEF Init
    <3> QED BY <3>1, <3>2, <3>3, <3>4, <3>5 DEF TypeOK
  <2>2. out \in [fd : 0 .. MaxConn, msg : Message]
    BY <1>1, <1>2 DEF Init
  <2> QED BY <1>3, <1>4, <1>5, <2>1, <2>2 DEF Typed, Program, ForGood, Ops, GivenUp, At, InFlight, Init
<1>7. Placed
  <2>1. PlacedIn(Store, Flight)
    BY <1>2, <1>4, <1>5 DEF PlacedIn, InQueue, IsInjective
  <2> QED BY <1>3, <1>4, <2>1 DEF Placed, At
<1>8. Waits /\ Deaf /\ Kept /\ Order
  BY <1>3, <1>4 DEF Waits, Deaf, Kept, Order, Sending, At, Init
<1>9. Ages
  BY <1>1, <1>2, <1>3, <1>4, <1>5 DEF Ages, NewLast, AllNew, Sending, At, Init
<1>10. Recent
  BY <1>1, <1>3, <1>4 DEF Recent, At, Init
<1> QED BY <1>6, <1>7, <1>8, <1>9, <1>10 DEF IInv, Sound

LEMMA StutterKeeps ==
    ASSUME IInv, UNCHANGED vars
    PROVE  IInv'
<1>1. /\ UNCHANGED <<state, keyRecv, secSwitch, skipped, buf, queue, num, sock, conn, alive,
                     netUp, timer, cloud, out, store>>
  BY DEF vars, ctrl, store, link
<1>2. Typed' /\ Waits' /\ Deaf' /\ SameWork
  BY <1>1 DEF IInv, Typed, TypeOK, StoreOK, Store, Program, ForGood, Ops, GivenUp, At, InFlight,
              Waits, Deaf, Quiet, SameWork
<1>3. (Messy => Messy') /\ (GivenUp' => GivenUp) /\ (Ending => Ending') /\ (Over => Over')
  BY <1>1 DEF Messy, GivenUp, Ending, Over, Sending, Quiet, Ops, At
<1> QED BY <1>1, <1>2, <1>3, StoreKept

\* One step of HF_Cloudfunc, of the lower tasks, or of what goes on around them.
LEMMA NextIInv ==
    ASSUME IInv, [Next]_vars
    PROVE  IInv'
<1>1. CASE CloudTask
  <2>1. CASE Handle
    BY <2>1, HandleKeeps
  <2>2. CASE RunIdle \/ ConnectCloud \/ ConnectFail
    BY <2>2, GotoKeeps
  <2>3. CASE ConnectOk
    BY <2>3, ConnectKeeps
  <2>4. CASE SendFail
    BY <2>4, DropKeeps, RefuseKeeps DEF SendFail
  <2>5. CASE Encrypt
    BY <2>5, EncryptKeeps
  <2>6. CASE PushMsg
    BY <2>6, PushKeeps
  <2>7. CASE SetState \/ TakeKey \/ RestartHeart
    BY <2>7, OperationKeeps
  <2>8. CASE HandleMoudleMsg
    BY <2>8, DeviceKeeps
  <2>9. CASE Refuse
    BY <2>9, RefuseKeeps
  <2>10. CASE ReconnectCloud
    BY <2>10, CloseKeeps
  <2>11. CASE PopMsg
    BY <2>11, PopKeeps
  <2>12. CASE StartSend
    BY <2>12, StartKeeps
  <2>13. CASE SendDone
    BY <2>13, SentKeeps
  <2> QED BY <1>1, <2>1, <2>2, <2>3, <2>4, <2>5, <2>6, <2>7, <2>8, <2>9, <2>10, <2>11,
             <2>12, <2>13 DEF CloudTask
<1>2. CASE RecvClosed \/ \E ty \in {"access", "stale"} : AccessTimeout(ty)
  BY <1>2, GiveUpKeeps
<1>3. CASE ReconnectTimeout \/ WakeUp \/ ConnectionBreaks
  BY <1>3, OutsideKeeps
<1>4. CASE HeartTimeout \/ MoudleTimeout
  BY <1>4, TimeoutKeeps
<1>5. CASE Sleep
  BY <1>5, CloseKeeps
<1>6. CASE UNCHANGED vars
  BY <1>6, StutterKeeps
<1> QED BY <1>1, <1>2, <1>3, <1>4, <1>5, <1>6 DEF Next

LEMMA Invariance == Spec => []IInv
<1>1. Init => IInv
  BY InitIInv
<1>2. IInv /\ [Next]_vars => IInv'
  BY NextIInv
<1> QED BY <1>1, <1>2, PTL DEF Spec

\* PCT_SendMsgToCloud, MSG_SendDataToCloud and MSG_Init: buffers and queue fit
\* together whenever a message can be made or sent, for any number of buffers,
\* but between an HF_WakeUp that skips a reconnection and the next one.
THEOREM BuffersAreSound == Spec => []BuffersSound
<1>1. IInv => BuffersSound
  <2> SUFFICES ASSUME IInv PROVE BuffersSound
    OBVIOUS
  <2>1. TypeOK
    BY DEF IInv, Typed
  <2>2. InUse => PlacedIn(Store, Flight)
    BY DEF IInv, Sound, Messy, Ending, GivenUp, Placed, InUse
  <2>3. Store.buf = buf /\ Store.queue = queue
    BY DEF Store
  <2>4. QueueSound
    BY <2>2, <2>3 DEF QueueSound, PlacedIn
  <2>5. FullQueued
    <3> SUFFICES ASSUME InUse, NEW b \in Buf, buf[b].full
                 PROVE  \/ \E i \in DOMAIN queue : queue[i] = b
                        \/ cloud.pc \in {"popped", "sending"} /\ cloud.b = b
      BY DEF FullQueued
    <3>1. b = Flight \/ InQueue(Store, b)
      BY <2>2, <2>3 DEF PlacedIn
    <3>2. b # 0
      BY DEF Buf
    <3> QED BY <2>3, <3>1, <3>2 DEF InQueue, Flight, InFlight
  <2> QED BY <2>1, <2>4, <2>5 DEF BuffersSound
<1> QED BY <1>1, Invariance, PTL

\* MSG_SendDataToCloud: what send() works on does not change while its connection
\* is in use, though MSG_Init frees the buffer and the other tasks fill idle ones,
\* whatever HF_WakeUp does as long as it skips no reconnection.
THEOREM SendIsStable == Spec => []SendStable
<1>1. IInv => SendStable
  BY DEF IInv, Sound, Kept, SendStable, Sending, Ending, GivenUp, InUse
<1> QED BY <1>1, Invariance, PTL

\* The only step that sends: HF_Cloudfunc when send() returns.
LEMMA OnlySendDone ==
    ASSUME IInv, Next, out' # out, ~skipped
    PROVE  /\ At("sending") /\ cloud.fd = conn /\ conn # 0 /\ alive /\ Order /\ Ages
           /\ out' = [fd |-> conn, msg |-> cloud.msg]
<1>1. SendDone
  BY DEF Next, CloudTask, Handle, RunIdle, ConnectCloud, ConnectOk, ConnectFail, SendFail,
         Encrypt, PushMsg, SetState, TakeKey, RestartHeart, HandleMoudleMsg, Refuse,
         ReconnectCloud, PopMsg, StartSend, RecvClosed, ReconnectTimeout, AccessTimeout,
         HeartTimeout, MoudleTimeout, WakeUp, Sleep, ConnectionBreaks
<1> QED BY <1>1 DEF SendDone, IInv, Sound

\* MSG_SendDataToCloud after HF_Sleep or a reconnection that was not skipped: a
\* session carries only messages that were made for it.
THEOREM NoMessageIsStale == Spec => NoStaleMessage
<1>1. IInv /\ [Next]_vars =>
        [out' # out /\ out.fd = out'.fd /\ out.msg.conn = out.fd /\ ~skipped =>
            out'.msg.conn = out'.fd]_vars
  <2> SUFFICES ASSUME IInv, Next, out' # out, out.fd = out'.fd, out.msg.conn = out.fd,
                      ~skipped
               PROVE  out'.msg.conn = out'.fd
    BY DEF vars
  <2>1. /\ At("sending") /\ cloud.fd = conn /\ Ages /\ alive
        /\ out'.fd = conn /\ out'.msg = cloud.msg
    BY OnlySendDone
  <2> QED BY <2>1 DEF Ages, New
<1> QED BY <1>1, Invariance, PTL DEF Spec, NoStaleMessage

\* PCT_SendMsgToCloud and MSG_SendDataToCloud: every message is sent, in order and
\* once, on the connection it was made for, unless a reconnection was skipped.
THEOREM MessagesInOrder == Spec => InOrder
<1>1. IInv /\ [Next]_vars =>
        [out' # out /\ out'.msg.conn = out'.fd /\ ~skipped =>
            out'.msg.num = 1 + (IF out.fd = out'.fd /\ out.msg.conn = out.fd
                                THEN out.msg.num ELSE 0)]_vars
  <2> SUFFICES ASSUME IInv, Next, out' # out, out'.msg.conn = out'.fd, ~skipped
               PROVE  out'.msg.num = 1 + (IF out.fd = out'.fd /\ out.msg.conn = out.fd
                                          THEN out.msg.num ELSE 0)
    BY DEF vars
  <2>1. /\ At("sending") /\ alive /\ Order
        /\ out'.fd = conn /\ out'.msg = cloud.msg
    BY OnlySendDone
  <2>2. cloud.msg.num = Sent + 1
    BY <2>1 DEF Order, New
  <2>3. Sent = (IF out.fd = out'.fd /\ out.msg.conn = out.fd THEN out.msg.num ELSE 0)
    BY <2>1 DEF Sent, New
  <2>4. Sent \in Nat
    <3>1. out.msg.num \in Nat
      BY DEF IInv, Typed, Message
    <3> QED BY <3>1 DEF Sent
  <2>5. cloud.msg.num = 1 + Sent
    BY <2>2, <2>4
  <2> QED BY <2>1, <2>3, <2>5
<1> QED BY <1>1, Invariance, PTL DEF Spec, InOrder
=============================================================================
