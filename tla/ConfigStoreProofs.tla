------------------------- MODULE ConfigStoreProofs -------------------------
(***************************************************************************)
(* Proofs about ConfigStore, for all sets of addresses and all bounds of   *)
(* tokens, configurations, power losses and failures.                      *)
(***************************************************************************)
EXTENDS ConfigStore, TLAPS

\* The lock is held from the read of the sector to its release.
Holder(t) == job[t].at \in {"read", "copy", "erase", "page0", "page1", "release"}
Held == (IF Holder("cloud") THEN 1 ELSE 0) + (IF Holder("device") THEN 1 ELSE 0)

\* Each failure but that of the allocation releases the lock once too often.
LockCount ==
    /\ count \in [config : Nat, loss : Nat, error : 0 .. MaxError]
    /\ lock + Held <= 1 + count.error
    /\ ~failed => lock + Held = 1

\* No record is garbled, be it in memory, in a cache or in flash.
Clean(db) == db.head.cloud # Garbled /\ db.head.token # Mixed /\ db.addr # Garbled
AllClean ==
    /\ Clean(ram) /\ Clean(flash)
    /\ \A t \in Task : Clean(job[t].cache) /\ job[t].addr # Garbled /\ job[t].cloud # Garbled

\* Pages are programmed over erased ones.
ErasedFirst ==
    \A t \in Task : /\ At(t, "page0") => flash = ErasedSector
                    /\ At(t, "page1") => flash.addr = Erased

\* A head in memory that differs from the one in flash is still to be copied, or
\* has been copied and is still to be programmed; and so is a tail.
HeadKept ==
    \/ \E t \in Task : job[t].at \in {"assign", "acquire", "read"}
    \/ \E t \in Task : job[t].at \in {"copy", "erase", "page0"} /\ job[t].cache.head = ram.head
    \/ /\ \A t \in Task : job[t].at \notin {"copy", "erase", "page0"}
       /\ flash.head = ram.head
TailKept ==
    \/ \E t \in Task : job[t].at \in {"assign", "acquire", "read", "copy"}
    \/ \E t \in Task : job[t].at \in {"erase", "page0", "page1"} /\ job[t].cache.addr = ram.addr
    \/ /\ \A t \in Task : job[t].at \notin {"erase", "page0", "page1"}
       /\ flash.addr = ram.addr

\* The token in flash is the last one programmed, unless the sector is erased; a
\* token to be programmed is no older than it, and one in memory no older than either.
TokensInOrder ==
    /\ flash.head = ErasedHead \/ flash.head.token = kept
    /\ kept \in 0 .. token
    /\ ram.head.token = 0 \/ ram.head.token \in kept .. token
    /\ \A t \in Task : job[t].at \in {"copy", "erase", "page0"} =>
          /\ job[t].cache.head.token = 0 \/ job[t].cache.head.token \in kept .. token
          /\ ram.head.token = 0 \/ ram.head.token >= job[t].cache.head.token

IInv ==
    /\ TypeOK /\ token \in Token /\ LockCount
    /\ ~failed => AllClean /\ ErasedFirst /\ TokensInOrder
    /\ ~failed /\ ~volatile => HeadKept /\ TailKept

USE ConfigBounds, AddressAssumption

\* What a sector that was never written boots to, and a task at rest.
LEMMA RestFacts ==
    /\ Boot(ErasedSector) \in Db /\ Clean(Boot(ErasedSector))
    /\ Boot(ErasedSector).head.token = 0
    /\ Rest \in [at : Place, addr : Address, cloud : Cloud, cache : Db]
    /\ Rest.at = "idle" /\ Rest.cache = Boot(ErasedSector)
    /\ Rest.addr # Garbled /\ Rest.cloud # Garbled
    /\ ErasedSector \in Sector /\ Clean(ErasedSector)
<1>1. Boot(ErasedSector) = [head |-> [mode |-> 0, cloud |-> "test", token |-> 0], addr |-> Erased]
  BY DEF Boot, ErasedSector
<1>2. 0 \in Token /\ 0 # Mixed
  BY DEF Token, Mixed
<1>3. Boot(ErasedSector) \in Db /\ Clean(Boot(ErasedSector)) /\ Boot(ErasedSector).head.token = 0
  BY <1>1, <1>2 DEF Db, Head, Cloud, Address, Clean, Garbled, Erased
<1>4. ErasedSector \in Sector /\ Clean(ErasedSector)
  BY <1>2 DEF ErasedSector, ErasedHead, Sector, Address, Clean, Garbled, Erased
<1> HIDE DEF Boot
<1>5. /\ Rest \in [at : Place, addr : Address, cloud : Cloud, cache : Db]
      /\ Rest.at = "idle" /\ Rest.cache = Boot(ErasedSector)
      /\ Rest.addr # Garbled /\ Rest.cloud # Garbled
  BY <1>3 DEF Rest, Place, Address, Cloud, Garbled, Erased
<1> QED BY <1>3, <1>4, <1>5

LEMMA InitIInv == Init => IInv
<1> SUFFICES ASSUME Init PROVE IInv
  OBVIOUS
<1>1. TypeOK /\ token \in Token
  <2>1. ram \in Db /\ flash \in Sector /\ lock \in 0 .. 1 + MaxError /\ times \in 0 .. Failures + 1
    BY RestFacts DEF Init
  <2>2. job \in [Task -> [at : Place, addr : Address, cloud : Cloud, cache : Db]]
    BY RestFacts DEF Init
  <2>3. 0 \in Token /\ token = 0 /\ kept = 0
    BY DEF Init, Token
  <2> QED BY <2>1, <2>2, <2>3 DEF TypeOK, Init
<1>2. \A t \in Task : job[t] = Rest /\ job[t].at = "idle"
  BY RestFacts DEF Init
<1>3. LockCount
  <2>1. Held = 0
    BY <1>2 DEF Held, Holder, Task
  <2> QED BY <2>1 DEF LockCount, Init
<1>4. AllClean /\ ErasedFirst
  BY <1>2, RestFacts DEF AllClean, ErasedFirst, At, Init
<1>5. TokensInOrder
  BY <1>2, RestFacts DEF TokensInOrder, Init, ErasedSector
<1> QED BY <1>1, <1>3, <1>4, <1>5 DEF IInv, Init

\* One task at a time is between the read of the sector and the release.
LEMMA Exclusive ==
    ASSUME TypeOK, LockCount, ~failed, NEW t \in Task, Holder(t), NEW u \in Task \ {t}
    PROVE  ~Holder(u) /\ lock = 0
<1>1. lock \in Nat /\ lock + Held = 1
  BY DEF TypeOK, LockCount
<1>2. t \in {"cloud", "device"} /\ u \in {"cloud", "device"} /\ t # u
  BY DEF Task
<1> QED BY <1>1, <1>2 DEF Held

\* How the count of holders changes with the place of one task.
LEMMA HeldChange ==
    ASSUME TypeOK, NEW t \in Task, \A u \in Task \ {t} : job'[u].at = job[u].at
    PROVE  /\ Holder(t) /\ Holder(t)' => Held' = Held
           /\ ~Holder(t) /\ ~Holder(t)' => Held' = Held
           /\ Holder(t) /\ ~Holder(t)' => Held' = Held - 1
           /\ ~Holder(t) /\ Holder(t)' => Held' = Held + 1
           /\ Held \in Nat
<1>1. ASSUME NEW u \in Task \ {t} PROVE Holder(u)' <=> Holder(u)
  BY DEF Holder
<1>2. CASE t = "cloud"
  <2>1. Holder("device")' <=> Holder("device")
    BY <1>1, <1>2 DEF Task
  <2> QED BY <1>2, <2>1 DEF Held
<1>3. CASE t = "device"
  <2>1. Holder("cloud")' <=> Holder("cloud")
    BY <1>1, <1>3 DEF Task
  <2> QED BY <1>3, <2>1 DEF Held
<1> QED BY <1>2, <1>3 DEF Task

\* A job is one of four fields.
LEMMA JobType ==
    ASSUME TypeOK, NEW t \in Task
    PROVE  /\ job[t].at \in Place /\ job[t].addr \in Address /\ job[t].cloud \in Cloud
           /\ job[t].cache \in Db
           /\ DOMAIN job = Task
  BY DEF TypeOK

JobSet == [at : Place, addr : Address, cloud : Cloud, cache : Db]

-----------------------------------------------------------------------------
(***************************************************************************)
(* Changes of the configuration in memory.                                 *)
(***************************************************************************)
\* A change for which a store is then pending.
LEMMA ChangeStep ==
    ASSUME IInv, NEW t \in Task,
           job[t].at \in {"idle", "assign"}, job'[t].at \in {"assign", "acquire"},
           job' \in [Task -> JobSet], \A u \in Task \ {t} : job'[u] = job[u],
           job'[t].cache = job[t].cache, job'[t].cloud = job[t].cloud,
           ram' \in Db, AllClean => Clean(ram)' /\ job'[t].addr # Garbled,
           \/ token' = token /\ ram'.head.token = ram.head.token
           \/ token' = token + 1 /\ ram'.head.token = token + 1 /\ token < MaxToken,
           count' \in [config : Nat, loss : Nat, error : 0 .. MaxError], count'.error = count.error,
           UNCHANGED <<flash, lock, times, link, volatile, failed, kept>>
    PROVE  IInv'
<1>1. TypeOK /\ token \in Nat /\ token \in Token
  BY DEF IInv, Token
<1>2. TypeOK' /\ token' \in Token
  BY <1>1 DEF TypeOK, JobSet, Token
<1>3. LockCount'
  <2>1. \A u \in Task \ {t} : job'[u].at = job[u].at
    OBVIOUS
  <2>2. ~Holder(t) /\ ~Holder(t)'
    BY DEF Holder
  <2>3. Held' = Held
    BY <1>1, <2>1, <2>2, HeldChange
  <2> QED BY <2>3 DEF IInv, LockCount
<1>4. ~failed => AllClean' /\ ErasedFirst'
  <2>1. \A u \in Task : job'[u].at \in {"page0", "page1"} => job'[u].at = job[u].at
    OBVIOUS
  <2> QED BY <2>1 DEF IInv, AllClean, ErasedFirst, At, Clean
<1>5. ~failed => TokensInOrder'
  <2> SUFFICES ASSUME ~failed PROVE TokensInOrder'
    OBVIOUS
  <2>1. TokensInOrder /\ AllClean
    BY DEF IInv
  <2>2. kept \in 0 .. token /\ kept \in 0 .. token'
    BY <1>1, <2>1 DEF TokensInOrder
  <2>3. ram'.head.token = 0 \/ ram'.head.token \in kept .. token'
    BY <1>1, <2>1, <2>2 DEF TokensInOrder
  <2>4. ASSUME NEW u \in Task, job'[u].at \in {"copy", "erase", "page0"}
        PROVE  /\ job'[u].cache.head.token = 0 \/ job'[u].cache.head.token \in kept .. token'
               /\ ram'.head.token = 0 \/ ram'.head.token >= job'[u].cache.head.token
    <3>1. job'[u] = job[u] /\ job[u].at \in {"copy", "erase", "page0"}
      BY <2>4
    <3>2. /\ job[u].cache.head.token = 0 \/ job[u].cache.head.token \in kept .. token
          /\ ram.head.token = 0 \/ ram.head.token >= job[u].cache.head.token
      BY <2>1, <3>1 DEF TokensInOrder
    <3> QED BY <1>1, <2>2, <3>1, <3>2
  <2> QED BY <2>1, <2>2, <2>3, <2>4 DEF TokensInOrder
<1>6. HeadKept' /\ TailKept'
  BY DEF HeadKept, TailKept
<1> QED BY <1>2, <1>3, <1>4, <1>5, <1>6 DEF IInv

LEMMA StoreTokenKeyStep == ASSUME IInv, StoreTokenKey PROVE IInv'
<1>1. TypeOK /\ token \in 0 .. MaxToken /\ MaxToken \in Nat /\ job["cloud"].at = "idle" /\ token < MaxToken
  BY DEF IInv, StoreTokenKey, At, Token
<1>2. ram' \in Db /\ ram'.head.token = token + 1
      /\ ram'.head.cloud = ram.head.cloud /\ ram'.addr = ram.addr
  BY <1>1 DEF TypeOK, StoreTokenKey, Db, Head, Token
<1>3. AllClean => Clean(ram)'
  BY <1>1, <1>2 DEF AllClean, Clean, Mixed
<1>4. job \in [Task -> JobSet] /\ job' = [job EXCEPT !["cloud"].at = "acquire"] /\ "cloud" \in Task
  BY <1>1 DEF TypeOK, StoreTokenKey, Goto, JobSet, Task
<1>5. job' \in [Task -> JobSet] /\ job'["cloud"] = [job["cloud"] EXCEPT !.at = "acquire"]
      /\ \A u \in Task \ {"cloud"} : job'[u] = job[u]
  BY <1>4 DEF JobSet, Place
<1>6. AllClean => job["cloud"].addr # Garbled
  BY <1>4 DEF AllClean
<1> QED BY <1>1, <1>2, <1>3, <1>4, <1>5, <1>6, ChangeStep DEF StoreTokenKey, IInv, LockCount

LEMMA StoreAccessInfoStep ==
    ASSUME IInv, NEW a \in Reachable \cup Dead, StoreAccessInfo(a)
    PROVE  IInv'
<1>1. TypeOK /\ job["cloud"].at = "idle" /\ job \in [Task -> JobSet] /\ "cloud" \in Task
  BY DEF IInv, StoreAccessInfo, At, TypeOK, JobSet, Task
<1>2. /\ ram' \in Db /\ ram'.head.token = ram.head.token
      /\ ram'.head.cloud = ram.head.cloud /\ ram'.addr = ram.addr
  BY <1>1 DEF TypeOK, StoreAccessInfo, Db, Head
<1>3. AllClean => Clean(ram)'
  BY <1>2 DEF AllClean, Clean
<1>4. /\ job' \in [Task -> JobSet]
      /\ job'["cloud"] = [job["cloud"] EXCEPT !.at = "assign", !.addr = a]
      /\ \A u \in Task \ {"cloud"} : job'[u] = job[u]
  <2>1. job' = [job EXCEPT !["cloud"] = [job["cloud"] EXCEPT !.at = "assign", !.addr = a]]
    BY <1>1 DEF StoreAccessInfo
  <2>2. [job["cloud"] EXCEPT !.at = "assign", !.addr = a] \in JobSet
    BY <1>1 DEF JobSet, Place, Address
  <2> QED BY <1>1, <2>1, <2>2
<1>5. a # Garbled
  BY DEF Garbled
<1>6. job'["cloud"].at = "assign" /\ job'["cloud"].addr = a
      /\ job'["cloud"].cache = job["cloud"].cache /\ job'["cloud"].cloud = job["cloud"].cloud
  BY <1>1, <1>4 DEF JobSet
<1> QED BY <1>1, <1>2, <1>3, <1>4, <1>5, <1>6, ChangeStep DEF StoreAccessInfo, IInv, LockCount

LEMMA ConfigParaStep ==
    ASSUME IInv, NEW m \in {0, 1}, NEW a \in Reachable \cup Dead, ConfigPara(m, a)
    PROVE  IInv'
<1>1. TypeOK /\ job["device"].at = "idle" /\ job \in [Task -> JobSet] /\ "device" \in Task
  BY DEF IInv, ConfigPara, At, TypeOK, JobSet, Task
<1>2. /\ ram' \in Db /\ ram'.head.token = ram.head.token
      /\ ram'.head.cloud = ram.head.cloud /\ ram'.addr = ram.addr
  BY <1>1 DEF TypeOK, ConfigPara, Db, Head
<1>3. AllClean => Clean(ram)'
  BY <1>2 DEF AllClean, Clean
<1>4. /\ job' \in [Task -> JobSet]
      /\ job'["device"] = [job["device"] EXCEPT !.at = "assign", !.addr = a]
      /\ \A u \in Task \ {"device"} : job'[u] = job[u]
  <2>1. job' = [job EXCEPT !["device"] = [job["device"] EXCEPT !.at = "assign", !.addr = a]]
    BY <1>1 DEF ConfigPara
  <2>2. [job["device"] EXCEPT !.at = "assign", !.addr = a] \in JobSet
    BY <1>1 DEF JobSet, Place, Address
  <2> QED BY <1>1, <2>1, <2>2
<1>5. a # Garbled
  BY DEF Garbled
<1>6. job'["device"].at = "assign" /\ job'["device"].addr = a
      /\ job'["device"].cache = job["device"].cache /\ job'["device"].cloud = job["device"].cloud
  BY <1>1, <1>4 DEF JobSet
<1>7. count' \in [config : Nat, loss : Nat, error : 0 .. MaxError] /\ count'.error = count.error
  BY DEF IInv, LockCount, ConfigPara
<1> QED BY <1>1, <1>2, <1>3, <1>4, <1>5, <1>6, <1>7, ChangeStep DEF ConfigPara

LEMMA AssignStep == ASSUME IInv, NEW t \in Task, Assign(t) PROVE IInv'
<1>1. TypeOK /\ job[t].at = "assign" /\ job \in [Task -> JobSet]
  BY DEF IInv, Assign, At, TypeOK, JobSet
<1>2. job[t] \in JobSet
  BY <1>1
<1>3. /\ ram' \in Db /\ ram'.head.token = ram.head.token /\ ram'.addr = job[t].addr
      /\ ram'.head.cloud \in {ram.head.cloud, job[t].cloud}
  BY <1>1, <1>2 DEF TypeOK, Assign, Db, Head, JobSet
<1>4. AllClean => Clean(ram)' /\ job[t].addr # Garbled
  BY <1>3 DEF AllClean, Clean
<1>5. /\ job' \in [Task -> JobSet]
      /\ job'[t] = [job[t] EXCEPT !.at = "acquire"]
      /\ \A u \in Task \ {t} : job'[u] = job[u]
  BY <1>1 DEF Assign, Goto, JobSet, Place
<1>6. /\ job'[t].at = "acquire" /\ job'[t].addr = job[t].addr
      /\ job'[t].cache = job[t].cache /\ job'[t].cloud = job[t].cloud
  BY <1>2, <1>5 DEF JobSet
<1> QED BY <1>1, <1>3, <1>4, <1>5, <1>6, ChangeStep DEF Assign, IInv, LockCount

\* A change in memory only, or none.
LEMMA VolatileStep ==
    ASSUME IInv, ram' \in Db, ram'.head.cloud # Garbled \/ ram'.head.cloud = ram.head.cloud,
           ram'.addr = ram.addr, ram'.head.token \in {0, ram.head.token},
           volatile' = TRUE \/ (volatile' = volatile /\ ram' = ram),
           link' \in BOOLEAN, times' \in 0 .. Failures + 1,
           UNCHANGED <<flash, lock, job, failed, token, kept, count>>
    PROVE  IInv'
<1>1. TypeOK'
  BY DEF IInv, TypeOK
<1>2. LockCount'
  BY DEF IInv, LockCount, Held, Holder
<1>3. ~failed => AllClean' /\ ErasedFirst'
  BY DEF IInv, AllClean, Clean, ErasedFirst, At, Mixed
<1>4. ~failed => TokensInOrder'
  BY DEF IInv, TokensInOrder
<1>5. ~failed /\ ~volatile' => HeadKept' /\ TailKept'
  BY DEF IInv, HeadKept, TailKept
<1> QED BY <1>1, <1>2, <1>3, <1>4, <1>5 DEF IInv

LEMMA ResetNetWorkStep == ASSUME IInv, ResetNetWork PROVE IInv'
<1>1. ram \in Db /\ times \in 0 .. Failures + 1 /\ 0 \in Token
  BY DEF IInv, TypeOK, Token
<1>2. /\ ram' \in Db /\ ram'.head.cloud = "device"
      /\ ram'.addr = ram.addr /\ ram'.head.token = 0
  BY <1>1 DEF ResetNetWork, InitPara, Db, Head, Cloud
<1> QED BY <1>1, <1>2, VolatileStep DEF ResetNetWork, Garbled

LEMMA LinkStep ==
    ASSUME IInv, ConnectOk \/ ConnectFails \/ ResolveFails \/ LinkDrops \/ UNCHANGED vars
    PROVE  IInv'
<1>1. ram \in Db /\ times \in 0 .. Failures + 1 /\ Failures \in Nat /\ link \in BOOLEAN
  BY DEF IInv, TypeOK
<1>2. CASE ram' = ram /\ volatile' = volatile
  <2>1. UNCHANGED <<flash, lock, job, failed, token, kept, count>>
    BY DEF ConnectOk, ConnectFails, ResolveFails, LinkDrops, vars
  <2>2. link' = TRUE \/ link' = FALSE \/ link' = link
    BY DEF ConnectOk, ConnectFails, ResolveFails, LinkDrops, vars
  <2>3. times' = 0 \/ times' = times \/ (times <= Failures /\ times' = times + 1)
    BY <1>1 DEF ConnectOk, ConnectFails, ResolveFails, LinkDrops, vars
  <2>4. link' \in BOOLEAN /\ times' \in 0 .. Failures + 1
    <3>1. link' \in BOOLEAN
      BY <1>1, <2>2
    <3>2. times' \in 0 .. Failures + 1
      BY <1>1, <2>3
    <3> QED BY <3>1, <3>2
  <2> QED BY <1>1, <1>2, <2>1, <2>4, VolatileStep
<1>3. CASE ConnectFails /\ ram' = [ram EXCEPT !.head.mode = 0] /\ volatile' = TRUE
  <2>1. /\ ram' \in Db /\ ram'.head.cloud = ram.head.cloud
        /\ ram'.addr = ram.addr /\ ram'.head.token = ram.head.token
    BY <1>1, <1>3 DEF Db, Head
  <2>2. link' \in BOOLEAN /\ times' \in 0 .. Failures + 1
    BY <1>1, <1>3 DEF ConnectFails
  <2> QED BY <1>3, <2>1, <2>2, VolatileStep DEF ConnectFails
<1> QED BY <1>2, <1>3 DEF ConnectOk, ConnectFails, ResolveFails, LinkDrops, vars

-----------------------------------------------------------------------------
(***************************************************************************)
(* The store.                                                              *)
(***************************************************************************)
\* A step of a store moves one task and touches neither memory nor history.
\* What is left to show is what it says of flash and of the pending pages.
LEMMA MoveStep ==
    ASSUME IInv, NEW t \in Task, job' \in [Task -> JobSet],
           \A u \in Task \ {t} : job'[u] = job[u],
           job'[t].addr \in {job[t].addr, Erased}, job'[t].cloud \in {job[t].cloud, "given"},
           flash' \in Sector, lock' \in Nat, lock' + Held' = lock + Held,
           link' \in BOOLEAN, volatile' \in BOOLEAN,
           UNCHANGED <<ram, times, failed, token, count>>, kept' \in Token \cup {Mixed},
           ~failed => /\ Clean(flash)' /\ Clean(job'[t].cache)
                      /\ ErasedFirst' /\ TokensInOrder'
                      /\ ~volatile' => HeadKept' /\ TailKept'
    PROVE  IInv'
<1>1. TypeOK /\ LockCount /\ token \in Token
  BY DEF IInv
<1>2. LockCount'
  BY <1>1 DEF LockCount
<1>3. lock' \in 0 .. 1 + MaxError
  <2>1. Held' \in Nat
    BY DEF Held
  <2>2. lock' + Held' <= 1 + count.error /\ count.error \in 0 .. MaxError
    BY <1>1, <1>2 DEF LockCount
  <2> QED BY <2>1, <2>2
<1>4. TypeOK'
  BY <1>1, <1>3 DEF TypeOK, JobSet
<1>5. ~failed => AllClean'
  <2> SUFFICES ASSUME ~failed PROVE AllClean'
    OBVIOUS
  <2>1. AllClean
    BY DEF IInv
  <2>2. \A u \in Task : Clean(job'[u].cache) /\ job'[u].addr # Garbled /\ job'[u].cloud # Garbled
    BY <2>1 DEF AllClean, Garbled, Erased
  <2> QED BY <2>1, <2>2 DEF AllClean, Clean
<1> QED BY <1>1, <1>2, <1>4, <1>5 DEF IInv

LEMMA JobTyped == ASSUME IInv PROVE job \in [Task -> JobSet] /\ TypeOK /\ lock \in Nat
  BY DEF IInv, TypeOK, JobSet

LEMMA AcquireStep == ASSUME IInv, NEW t \in Task, Acquire(t) PROVE IInv'
<1>1. TypeOK /\ job[t].at = "acquire" /\ job \in [Task -> JobSet] /\ lock \in Nat /\ job[t] \in JobSet
  BY JobTyped DEF Acquire, At
<1>2. job' \in [Task -> JobSet] /\ job'[t] = [job[t] EXCEPT !.at = "read"]
      /\ \A u \in Task \ {t} : job'[u] = job[u]
  BY <1>1 DEF Acquire, Goto, JobSet, Place
<1>3. job'[t].at = "read" /\ job'[t].addr = job[t].addr
      /\ job'[t].cache = job[t].cache /\ job'[t].cloud = job[t].cloud
  BY <1>1, <1>2 DEF JobSet
<1>4. Held' = Held + 1 /\ Held \in Nat
  <2>1. ~Holder(t) /\ Holder(t)'
    BY <1>1, <1>3 DEF Holder
  <2> QED BY <1>1, <1>2, <2>1, HeldChange
<1>5. lock' \in Nat /\ lock' + Held' = lock + Held
  BY <1>1, <1>4 DEF Acquire
<1>6. ASSUME ~failed
      PROVE  /\ Clean(flash)' /\ Clean(job'[t].cache)
             /\ ErasedFirst' /\ TokensInOrder'
             /\ ~volatile' => HeadKept' /\ TailKept'
  <2>1. AllClean /\ ErasedFirst /\ TokensInOrder
    BY <1>6 DEF IInv
  <2>2. UNCHANGED <<ram, flash, volatile, token, kept>>
    BY DEF Acquire
  <2>3. Clean(flash)' /\ Clean(job'[t].cache)
    BY <1>3, <2>1, <2>2 DEF AllClean, Clean
  <2>4. ErasedFirst'
    BY <1>2, <1>3, <2>1, <2>2 DEF ErasedFirst, At
  <2>5. TokensInOrder'
    BY <1>2, <1>3, <2>1, <2>2 DEF TokensInOrder
  <2>6. HeadKept' /\ TailKept'
    BY <1>3 DEF HeadKept, TailKept
  <2> QED BY <2>3, <2>4, <2>5, <2>6
<1> QED BY <1>1, <1>2, <1>3, <1>5, <1>6, MoveStep DEF Acquire, TypeOK

LEMMA CopyHeadStep == ASSUME IInv, NEW t \in Task, CopyHead(t) PROVE IInv'
<1>1. TypeOK /\ job[t].at = "read" /\ job \in [Task -> JobSet] /\ lock \in Nat /\ job[t] \in JobSet
      /\ ram \in Db
  BY JobTyped DEF CopyHead, At, TypeOK
<1>2. job' \in [Task -> JobSet]
      /\ job'[t] = [job[t] EXCEPT !.at = "copy", !.cache.head = ram.head]
      /\ \A u \in Task \ {t} : job'[u] = job[u]
  <2>1. job' = [job EXCEPT ![t] = [job[t] EXCEPT !.at = "copy", !.cache.head = ram.head]]
    BY <1>1 DEF CopyHead
  <2>2. [job[t] EXCEPT !.at = "copy", !.cache.head = ram.head] \in JobSet
    BY <1>1 DEF JobSet, Place, Db
  <2> QED BY <1>1, <2>1, <2>2
<1>3. job'[t].at = "copy" /\ job'[t].addr = job[t].addr /\ job'[t].cloud = job[t].cloud
      /\ job'[t].cache.head = ram.head /\ job'[t].cache.addr = job[t].cache.addr
  BY <1>1, <1>2 DEF JobSet, Db
<1>4. Held' = Held /\ Held \in Nat
  <2>1. Holder(t) /\ Holder(t)'
    BY <1>1, <1>3 DEF Holder
  <2> QED BY <1>1, <1>2, <2>1, HeldChange
<1>5. ASSUME ~failed
      PROVE  /\ Clean(flash)' /\ Clean(job'[t].cache)
             /\ ErasedFirst' /\ TokensInOrder'
             /\ HeadKept' /\ TailKept'
  <2>1. AllClean /\ ErasedFirst /\ TokensInOrder
    BY <1>5 DEF IInv
  <2>2. UNCHANGED <<ram, flash, token, kept>>
    BY DEF CopyHead
  <2>3. Clean(flash)' /\ Clean(job'[t].cache)
    BY <1>3, <2>1, <2>2 DEF AllClean, Clean
  <2>4. ErasedFirst'
    BY <1>2, <1>3, <2>1, <2>2 DEF ErasedFirst, At
  <2>5. ram.head.token \in Int /\ ram.head.token >= ram.head.token
    BY <1>1 DEF Db, Head, Token, Mixed
  <2>6. TokensInOrder'
    BY <1>2, <1>3, <2>1, <2>2, <2>5 DEF TokensInOrder
  <2>7. HeadKept' /\ TailKept'
    BY <1>3, <2>2 DEF HeadKept, TailKept
  <2> QED BY <2>3, <2>4, <2>6, <2>7
<1> QED BY <1>1, <1>2, <1>3, <1>4, <1>5, MoveStep DEF CopyHead, TypeOK

LEMMA CopyTailStep == ASSUME IInv, NEW t \in Task, CopyTail(t) PROVE IInv'
<1>1. TypeOK /\ job[t].at = "copy" /\ job \in [Task -> JobSet] /\ lock \in Nat /\ job[t] \in JobSet
      /\ ram \in Db
  BY JobTyped DEF CopyTail, At, TypeOK
<1>2. job' \in [Task -> JobSet]
      /\ job'[t] = [job[t] EXCEPT !.at = "erase", !.cache.addr = ram.addr]
      /\ \A u \in Task \ {t} : job'[u] = job[u]
  <2>1. job' = [job EXCEPT ![t] = [job[t] EXCEPT !.at = "erase", !.cache.addr = ram.addr]]
    BY <1>1 DEF CopyTail
  <2>2. [job[t] EXCEPT !.at = "erase", !.cache.addr = ram.addr] \in JobSet
    BY <1>1 DEF JobSet, Place, Db
  <2> QED BY <1>1, <2>1, <2>2
<1>3. job'[t].at = "erase" /\ job'[t].addr = job[t].addr /\ job'[t].cloud = job[t].cloud
      /\ job'[t].cache.head = job[t].cache.head /\ job'[t].cache.addr = ram.addr
  BY <1>1, <1>2 DEF JobSet, Db
<1>4. Held' = Held /\ Held \in Nat
  <2>1. Holder(t) /\ Holder(t)'
    BY <1>1, <1>3 DEF Holder
  <2> QED BY <1>1, <1>2, <2>1, HeldChange
<1>5. ASSUME ~failed
      PROVE  /\ Clean(flash)' /\ Clean(job'[t].cache)
             /\ ErasedFirst' /\ TokensInOrder'
             /\ ~volatile' => HeadKept' /\ TailKept'
  <2>1. AllClean /\ ErasedFirst /\ TokensInOrder /\ (~volatile => HeadKept)
    BY <1>5 DEF IInv
  <2>2. UNCHANGED <<ram, flash, volatile, token, kept>>
    BY DEF CopyTail
  <2>3. Clean(flash)' /\ Clean(job'[t].cache)
    BY <1>3, <2>1, <2>2 DEF AllClean, Clean
  <2>4. ErasedFirst'
    BY <1>2, <1>3, <2>1, <2>2 DEF ErasedFirst, At
  <2>5. TokensInOrder'
    BY <1>1, <1>2, <1>3, <2>1, <2>2 DEF TokensInOrder
  <2>6. HeadKept => HeadKept'
    BY <1>1, <1>2, <1>3, <2>2 DEF HeadKept
  <2>7. TailKept'
    BY <1>3, <2>2 DEF TailKept
  <2> QED BY <2>1, <2>2, <2>3, <2>4, <2>5, <2>6, <2>7
<1> QED BY <1>1, <1>2, <1>3, <1>4, <1>5, MoveStep DEF CopyTail, TypeOK

LEMMA EraseStep == ASSUME IInv, NEW t \in Task, Erase(t) PROVE IInv'
<1>1. TypeOK /\ job[t].at = "erase" /\ job \in [Task -> JobSet] /\ lock \in Nat /\ job[t] \in JobSet
  BY JobTyped DEF Erase, At
<1>2. job' \in [Task -> JobSet] /\ job'[t] = [job[t] EXCEPT !.at = "page0"]
      /\ \A u \in Task \ {t} : job'[u] = job[u]
  BY <1>1 DEF Erase, Goto, JobSet, Place
<1>3. job'[t].at = "page0" /\ job'[t].addr = job[t].addr
      /\ job'[t].cache = job[t].cache /\ job'[t].cloud = job[t].cloud
  BY <1>1, <1>2 DEF JobSet
<1>4. Held' = Held /\ Held \in Nat
  <2>1. Holder(t) /\ Holder(t)'
    BY <1>1, <1>3 DEF Holder
  <2> QED BY <1>1, <1>2, <2>1, HeldChange
<1>5. UNCHANGED <<ram, volatile, token, kept>> /\ flash' = ErasedSector
      /\ flash' \in Sector /\ Clean(flash)'
  BY RestFacts DEF Erase, Clean
<1>6. ASSUME ~failed
      PROVE  /\ Clean(flash)' /\ Clean(job'[t].cache)
             /\ ErasedFirst' /\ TokensInOrder'
             /\ ~volatile' => HeadKept' /\ TailKept'
  <2>1. AllClean /\ ErasedFirst /\ TokensInOrder /\ (~volatile => HeadKept /\ TailKept) /\ LockCount
    BY <1>6 DEF IInv
  <2>2. ASSUME NEW u \in Task \ {t}
        PROVE  job[u].at \notin {"read", "copy", "erase", "page0", "page1", "release"}
    BY <1>1, <1>6, <2>1, Exclusive DEF Holder
  <2>3. Clean(job'[t].cache)
    BY <1>3, <2>1 DEF AllClean, Clean
  <2>4. ErasedFirst'
    BY <1>2, <1>3, <1>5, <2>2 DEF ErasedFirst, At
  <2>5. TokensInOrder'
    BY <1>1, <1>2, <1>3, <1>5, <2>1 DEF TokensInOrder, ErasedSector
  <2>6. HeadKept => HeadKept'
    BY <1>1, <1>2, <1>3, <1>5 DEF HeadKept
  <2>7. TailKept => TailKept'
    BY <1>1, <1>2, <1>3, <1>5 DEF TailKept
  <2> QED BY <1>5, <2>1, <2>3, <2>4, <2>5, <2>6, <2>7
<1> QED BY <1>1, <1>2, <1>3, <1>4, <1>5, <1>6, MoveStep DEF Erase, TypeOK

\* Programming makes a head of two heads, and over an erased page the new one.
LEMMA Program0Facts ==
    ASSUME NEW old \in Head \cup {ErasedHead}, NEW new \in Head
    PROVE  Program0(old, new) \in Head /\ (old = ErasedHead => Program0(old, new) = new)
<1>1. CASE old = ErasedHead
  BY <1>1 DEF Program0
<1>2. CASE old # ErasedHead
  <2>1. old.mode * new.mode \in {0, 1}
    <3>1. old.mode \in {0, 1} /\ new.mode \in {0, 1}
      BY <1>2 DEF Head
    <3>2. old.mode = 0 \/ new.mode = 0 \/ (old.mode = 1 /\ new.mode = 1)
      BY <3>1
    <3> QED BY <3>1, <3>2
  <2>2. Blend(old.cloud, new.cloud) \in Cloud
    BY <1>2 DEF Head, Blend, Cloud
  <2>3. (IF old.token = new.token THEN new.token ELSE Mixed) \in Token \cup {Mixed}
    BY DEF Head
  <2> QED BY <1>2, <2>1, <2>2, <2>3 DEF Program0, Head
<1> QED BY <1>1, <1>2

LEMMA WritePage0Step == ASSUME IInv, NEW t \in Task, WritePage0(t) PROVE IInv'
<1>1. TypeOK /\ job[t].at = "page0" /\ job \in [Task -> JobSet] /\ lock \in Nat /\ job[t] \in JobSet
  BY JobTyped DEF WritePage0, At
<1>2. job' \in [Task -> JobSet] /\ job'[t] = [job[t] EXCEPT !.at = "page1"]
      /\ \A u \in Task \ {t} : job'[u] = job[u]
  BY <1>1 DEF WritePage0, Goto, JobSet, Place
<1>3. job'[t].at = "page1" /\ job'[t].addr = job[t].addr
      /\ job'[t].cache = job[t].cache /\ job'[t].cloud = job[t].cloud
  BY <1>1, <1>2 DEF JobSet
<1>4. Held' = Held /\ Held \in Nat
  <2>1. Holder(t) /\ Holder(t)'
    BY <1>1, <1>3 DEF Holder
  <2> QED BY <1>1, <1>2, <2>1, HeldChange
<1>5. UNCHANGED <<ram, volatile, token>> /\ kept' = flash'.head.token
      /\ flash' = [flash EXCEPT !.head = Program0(flash.head, job[t].cache.head)]
  BY DEF WritePage0
<1>6. /\ flash.head \in Head \cup {ErasedHead} /\ flash.addr \in Address /\ flash \in Sector
      /\ job[t].cache.head \in Head /\ job[t].cache \in Db
  BY <1>1 DEF TypeOK, Sector, JobSet, Db
<1>7. /\ flash'.head = Program0(flash.head, job[t].cache.head) /\ flash'.addr = flash.addr
      /\ flash'.head \in Head
      /\ flash.head = ErasedHead => flash'.head = job[t].cache.head
  BY <1>5, <1>6, Program0Facts DEF Sector
<1>8. flash' \in Sector /\ kept' \in Token \cup {Mixed}
  BY <1>5, <1>6, <1>7 DEF Sector, Head
<1>9. ASSUME ~failed
      PROVE  /\ Clean(flash)' /\ Clean(job'[t].cache)
             /\ ErasedFirst' /\ TokensInOrder'
             /\ ~volatile' => HeadKept' /\ TailKept'
  <2>1. AllClean /\ ErasedFirst /\ TokensInOrder /\ (~volatile => HeadKept /\ TailKept) /\ LockCount
    BY <1>9 DEF IInv
  <2>2. ASSUME NEW u \in Task \ {t}
        PROVE  job[u].at \notin {"read", "copy", "erase", "page0", "page1", "release"}
    BY <1>1, <1>9, <2>1, Exclusive DEF Holder
  <2>3. flash.head = ErasedHead /\ flash.addr = Erased /\ flash'.head = job[t].cache.head
    BY <1>1, <1>7, <2>1 DEF ErasedFirst, At, ErasedSector
  <2>4. Clean(job'[t].cache) /\ Clean(flash)'
    BY <1>3, <1>7, <2>1, <2>3 DEF AllClean, Clean
  <2>5. ErasedFirst'
    BY <1>2, <1>3, <1>7, <2>2, <2>3 DEF ErasedFirst, At
  <2>6. TokensInOrder'
    <3>1. /\ kept' = job[t].cache.head.token
          /\ job[t].cache.head.token = 0 \/ job[t].cache.head.token \in kept .. token
          /\ ram.head.token = 0 \/ ram.head.token >= job[t].cache.head.token
          /\ ram.head.token = 0 \/ ram.head.token \in kept .. token
          /\ kept \in 0 .. token
      BY <1>1, <1>5, <2>1, <2>3 DEF TokensInOrder
    <3>2. token \in Nat
      BY DEF IInv, Token
    <3>3. kept' \in 0 .. token /\ (ram.head.token = 0 \/ ram.head.token \in kept' .. token)
      BY <3>1, <3>2
    <3>4. \A u \in Task : job'[u].at \notin {"copy", "erase", "page0"}
      BY <1>2, <1>3, <2>2
    <3> QED BY <1>5, <3>3, <3>4 DEF TokensInOrder
  <2>7. HeadKept => HeadKept'
    <3>1. ASSUME NEW u \in Task, job[u].at \in {"assign", "acquire", "read"} PROVE HeadKept'
      <4>1. job'[u] = job[u]
        BY <1>1, <1>2, <3>1
      <4> QED BY <3>1, <4>1 DEF HeadKept
    <3>2. ASSUME job[t].cache.head = ram.head PROVE HeadKept'
      <4>1. \A u \in Task : job'[u].at \notin {"copy", "erase", "page0"}
        BY <1>2, <1>3, <2>2
      <4>2. flash'.head = ram'.head
        BY <1>5, <2>3, <3>2
      <4> QED BY <4>1, <4>2 DEF HeadKept
    <3>3. ASSUME NEW u \in Task, job[u].at \in {"copy", "erase", "page0"} PROVE u = t
      BY <2>2, <3>3
    <3> QED BY <1>1, <3>1, <3>2, <3>3 DEF HeadKept
  <2>8. TailKept => TailKept'
    <3>1. ASSUME NEW u \in Task, job[u].at \in {"assign", "acquire", "read", "copy"} PROVE TailKept'
      <4>1. job'[u] = job[u]
        BY <1>1, <1>2, <3>1
      <4> QED BY <3>1, <4>1 DEF TailKept
    <3>2. ASSUME job[t].cache.addr = ram.addr PROVE TailKept'
      BY <1>3, <1>5, <3>2 DEF TailKept
    <3>3. ASSUME NEW u \in Task, job[u].at \in {"erase", "page0", "page1"} PROVE u = t
      BY <2>2, <3>3
    <3> QED BY <1>1, <3>1, <3>2, <3>3 DEF TailKept
  <2> QED BY <1>5, <2>1, <2>4, <2>5, <2>6, <2>7, <2>8
<1> QED BY <1>1, <1>2, <1>3, <1>4, <1>5, <1>8, <1>9, MoveStep DEF WritePage0, TypeOK

LEMMA WritePage1Step == ASSUME IInv, NEW t \in Task, WritePage1(t) PROVE IInv'
<1>1. TypeOK /\ job[t].at = "page1" /\ job \in [Task -> JobSet] /\ lock \in Nat /\ job[t] \in JobSet
  BY JobTyped DEF WritePage1, At
<1>2. job' \in [Task -> JobSet] /\ job'[t] = [job[t] EXCEPT !.at = "release"]
      /\ \A u \in Task \ {t} : job'[u] = job[u]
  BY <1>1 DEF WritePage1, Goto, JobSet, Place
<1>3. job'[t].at = "release" /\ job'[t].addr = job[t].addr
      /\ job'[t].cache = job[t].cache /\ job'[t].cloud = job[t].cloud
  BY <1>1, <1>2 DEF JobSet
<1>4. Held' = Held /\ Held \in Nat
  <2>1. Holder(t) /\ Holder(t)'
    BY <1>1, <1>3 DEF Holder
  <2> QED BY <1>1, <1>2, <2>1, HeldChange
<1>5. UNCHANGED <<ram, volatile, token, kept>>
      /\ flash' = [flash EXCEPT !.addr = Blend(flash.addr, job[t].cache.addr)]
  BY DEF WritePage1
<1>6. /\ flash.head \in Head \cup {ErasedHead} /\ flash \in Sector
      /\ job[t].cache.addr \in Address
  BY <1>1 DEF TypeOK, Sector, JobSet, Db
<1>7. /\ flash'.addr = Blend(flash.addr, job[t].cache.addr) /\ flash'.head = flash.head
      /\ flash' \in Sector
  BY <1>5, <1>6 DEF Sector, Blend, Address
<1>8. ASSUME ~failed
      PROVE  /\ Clean(flash)' /\ Clean(job'[t].cache)
             /\ ErasedFirst' /\ TokensInOrder'
             /\ ~volatile' => HeadKept' /\ TailKept'
  <2>1. AllClean /\ ErasedFirst /\ TokensInOrder /\ (~volatile => HeadKept /\ TailKept) /\ LockCount
    BY <1>8 DEF IInv
  <2>2. ASSUME NEW u \in Task \ {t}
        PROVE  job[u].at \notin {"read", "copy", "erase", "page0", "page1", "release"}
    BY <1>1, <1>8, <2>1, Exclusive DEF Holder
  <2>3. flash'.addr = job[t].cache.addr
    BY <1>1, <1>7, <2>1 DEF ErasedFirst, At, Blend
  <2>4. Clean(job'[t].cache) /\ Clean(flash)'
    BY <1>3, <1>7, <2>1, <2>3 DEF AllClean, Clean
  <2>5. ErasedFirst'
    BY <1>2, <1>3, <2>2 DEF ErasedFirst, At
  <2>6. TokensInOrder'
    BY <1>2, <1>3, <1>5, <1>7, <2>1 DEF TokensInOrder
  <2>7. HeadKept => HeadKept'
    BY <1>1, <1>2, <1>3, <1>5, <1>7 DEF HeadKept
  <2>8. TailKept => TailKept'
    <3>1. ASSUME NEW u \in Task, job[u].at \in {"assign", "acquire", "read", "copy"} PROVE TailKept'
      <4>1. job'[u] = job[u]
        BY <1>1, <1>2, <3>1
      <4> QED BY <3>1, <4>1 DEF TailKept
    <3>2. ASSUME job[t].cache.addr = ram.addr PROVE TailKept'
      <4>1. \A u \in Task : job'[u].at \notin {"erase", "page0", "page1"}
        BY <1>2, <1>3, <2>2
      <4>2. flash'.addr = ram'.addr
        BY <1>5, <2>3, <3>2
      <4> QED BY <4>1, <4>2 DEF TailKept
    <3>3. ASSUME NEW u \in Task, job[u].at \in {"erase", "page0", "page1"} PROVE u = t
      BY <2>2, <3>3
    <3> QED BY <1>1, <3>1, <3>2, <3>3 DEF TailKept
  <2> QED BY <1>5, <2>1, <2>4, <2>5, <2>6, <2>7, <2>8
<1> QED BY <1>1, <1>2, <1>3, <1>4, <1>5, <1>7, <1>8, MoveStep DEF WritePage1, TypeOK

LEMMA ReleaseStep == ASSUME IInv, NEW t \in Task, Release(t) PROVE IInv'
<1>1. TypeOK /\ job[t].at = "release" /\ job \in [Task -> JobSet] /\ lock \in Nat
  BY JobTyped DEF Release, At
<1>2. Rest \in JobSet
  BY RestFacts DEF JobSet
<1>3. job' \in [Task -> JobSet] /\ job'[t] = Rest
      /\ \A u \in Task \ {t} : job'[u] = job[u]
  BY <1>1, <1>2 DEF Release
<1>4. job'[t].at = "idle" /\ job'[t].addr = Erased /\ job'[t].cloud = "given" /\ Clean(job'[t].cache)
  BY <1>3, RestFacts DEF Rest
<1>5. Held' = Held - 1 /\ Held \in Nat
  <2>1. Holder(t) /\ ~Holder(t)'
    BY <1>1, <1>4 DEF Holder
  <2> QED BY <1>1, <1>3, <2>1, HeldChange
<1>6. lock' \in Nat /\ lock' + Held' = lock + Held
  BY <1>1, <1>5 DEF Release
<1>7. UNCHANGED <<ram, flash, volatile, token, kept>> /\ link' \in BOOLEAN
  BY <1>1 DEF Release, TypeOK
<1>8. ASSUME ~failed
      PROVE  /\ Clean(flash)' /\ ErasedFirst' /\ TokensInOrder'
             /\ ~volatile' => HeadKept' /\ TailKept'
  <2>1. AllClean /\ ErasedFirst /\ TokensInOrder /\ (~volatile => HeadKept /\ TailKept)
    BY <1>8 DEF IInv
  <2>2. Clean(flash)'
    BY <1>7, <2>1 DEF AllClean, Clean
  <2>3. ErasedFirst'
    BY <1>3, <1>4, <1>7, <2>1 DEF ErasedFirst, At
  <2>4. TokensInOrder'
    BY <1>3, <1>4, <1>7, <2>1 DEF TokensInOrder
  <2>5. (HeadKept => HeadKept') /\ (TailKept => TailKept')
    BY <1>1, <1>3, <1>4, <1>7 DEF HeadKept, TailKept
  <2> QED BY <1>7, <2>1, <2>2, <2>3, <2>4, <2>5
<1> QED BY <1>1, <1>3, <1>4, <1>6, <1>7, <1>8, MoveStep DEF Release, TypeOK

\* A failure excuses everything but the types and the count of the lock.
LEMMA WriteFailsStep == ASSUME IInv, NEW t \in Task, WriteFails(t) PROVE IInv'
<1>1. TypeOK /\ job[t].at \in {"read", "erase", "page0", "page1"} /\ job \in [Task -> JobSet] /\ lock \in Nat
  BY JobTyped DEF WriteFails
<1>2. job' \in [Task -> JobSet] /\ job'[t].at = "idle"
      /\ \A u \in Task \ {t} : job'[u] = job[u]
  BY <1>1, RestFacts DEF WriteFails, JobSet
<1>3. Held' = Held - 1 /\ Held \in Nat
  <2>1. Holder(t) /\ ~Holder(t)'
    BY <1>1, <1>2 DEF Holder
  <2> QED BY <1>1, <1>2, <2>1, HeldChange
<1>4. lock' \in {lock + 1, lock + 2} /\ failed' = TRUE /\ Held' \in Nat
  BY DEF WriteFails, Held
<1>5. /\ count \in [config : Nat, loss : Nat, error : 0 .. MaxError]
      /\ lock + Held <= 1 + count.error /\ count.error < MaxError
      /\ count' = [count EXCEPT !.error = @ + 1]
  BY DEF IInv, LockCount, WriteFails
<1>6. count' \in [config : Nat, loss : Nat, error : 0 .. MaxError] /\ count'.error = count.error + 1
      /\ count.error \in Nat /\ count'.error <= MaxError
  BY <1>5
<1>7. LockCount' /\ lock' \in 0 .. 1 + MaxError
  <2>1. lock' + Held' <= 1 + count'.error
    BY <1>1, <1>3, <1>4, <1>5, <1>6
  <2>2. lock' \in Nat /\ lock' <= 1 + MaxError
    BY <1>1, <1>4, <1>6, <2>1
  <2> QED BY <1>4, <1>6, <2>1, <2>2 DEF LockCount
<1>8. TypeOK'
  <2>1. link' \in BOOLEAN
    BY <1>1 DEF WriteFails, TypeOK
  <2> QED BY <1>1, <1>2, <1>4, <1>7, <2>1 DEF TypeOK, WriteFails, JobSet
<1> QED BY <1>4, <1>7, <1>8 DEF IInv, WriteFails

\* Power is back: memory is what flash says, and nothing is under way.
LEMMA PowerLossStep == ASSUME IInv, PowerLoss PROVE IInv'
<1>1. TypeOK /\ token \in Token /\ flash \in Sector
  BY DEF IInv, TypeOK
<1>2. /\ UNCHANGED <<flash, failed, token, kept>> /\ ram' = Boot(flash) /\ lock' = 1
      /\ volatile' = (flash.head = ErasedHead)
      /\ \A t \in Task : job'[t] = Rest /\ job'[t].at = "idle"
  BY RestFacts DEF PowerLoss
<1>3. CASE flash.head = ErasedHead
  <2>1. ram' = Boot(ErasedSector)
    BY <1>2, <1>3 DEF Boot, ErasedSector
  <2>2. TypeOK'
    <3>1. ram' \in Db /\ flash' \in Sector /\ lock' \in 0 .. 1 + MaxError /\ times' \in 0 .. Failures + 1
      BY <1>1, <2>1, RestFacts DEF PowerLoss
    <3>2. job' \in [Task -> [at : Place, addr : Address, cloud : Cloud, cache : Db]]
      BY RestFacts DEF PowerLoss
    <3>3. volatile' \in BOOLEAN
      BY <1>2, <1>3
    <3> QED BY <1>1, <1>2, <3>1, <3>2, <3>3 DEF TypeOK, PowerLoss
  <2>3. LockCount'
    <3>1. Held' = 0
      BY <1>2 DEF Held, Holder, Task
    <3> QED BY <1>2, <3>1 DEF IInv, LockCount, PowerLoss
  <2>4. ~failed => AllClean' /\ ErasedFirst'
    BY <1>2, <2>1, RestFacts DEF IInv, AllClean, Clean, ErasedFirst, At
  <2>5. ~failed => TokensInOrder'
    BY <1>2, <2>1, RestFacts DEF IInv, TokensInOrder
  <2> QED BY <1>1, <1>2, <1>3, <2>2, <2>3, <2>4, <2>5 DEF IInv
<1>4. CASE flash.head # ErasedHead
  <2>1. ram' = flash /\ flash \in Db
    BY <1>1, <1>2, <1>4 DEF Boot, Sector, Db
  <2>2. TypeOK'
    <3>1. ram' \in Db /\ flash' \in Sector /\ lock' \in 0 .. 1 + MaxError /\ times' \in 0 .. Failures + 1
      BY <1>1, <2>1, RestFacts DEF PowerLoss
    <3>2. job' \in [Task -> [at : Place, addr : Address, cloud : Cloud, cache : Db]]
      BY RestFacts DEF PowerLoss
    <3>3. volatile' \in BOOLEAN
      BY <1>2, <1>4
    <3> QED BY <1>1, <1>2, <3>1, <3>2, <3>3 DEF TypeOK, PowerLoss
  <2>3. LockCount'
    <3>1. Held' = 0
      BY <1>2 DEF Held, Holder, Task
    <3> QED BY <1>2, <3>1 DEF IInv, LockCount, PowerLoss
  <2>4. ~failed => AllClean' /\ ErasedFirst'
    BY <1>2, <2>1, RestFacts DEF IInv, AllClean, Clean, ErasedFirst, At
  <2>5. ~failed => TokensInOrder'
    <3> SUFFICES ASSUME ~failed PROVE TokensInOrder'
      OBVIOUS
    <3>1. flash.head.token = kept /\ kept \in 0 .. token /\ token \in Nat
      BY <1>1, <1>4 DEF IInv, TokensInOrder, Token
    <3>2. kept \in kept .. token
      BY <3>1
    <3> QED BY <1>2, <2>1, <3>1, <3>2 DEF TokensInOrder
  <2>6. HeadKept' /\ TailKept'
    BY <1>2, <2>1 DEF HeadKept, TailKept
  <2> QED BY <1>1, <1>2, <2>2, <2>3, <2>4, <2>5, <2>6 DEF IInv
<1> QED BY <1>3, <1>4

-----------------------------------------------------------------------------
(***************************************************************************)
(* The theorems.                                                           *)
(***************************************************************************)
LEMMA NextIInv == IInv /\ [Next]_vars => IInv'
<1> SUFFICES ASSUME IInv, [Next]_vars PROVE IInv'
  OBVIOUS
<1>1. CASE StoreTokenKey \/ ResetNetWork
  BY <1>1, StoreTokenKeyStep, ResetNetWorkStep
<1>2. CASE \E a \in Reachable \cup Dead : StoreAccessInfo(a)
  BY <1>2, StoreAccessInfoStep
<1>3. CASE \E m \in {0, 1}, a \in Reachable \cup Dead : ConfigPara(m, a)
  BY <1>3, ConfigParaStep
<1>4. ASSUME NEW t \in Task, Write(t) \/ WriteFails(t) PROVE IInv'
  BY <1>4, AssignStep, AcquireStep, CopyHeadStep, CopyTailStep, EraseStep,
     WritePage0Step, WritePage1Step, ReleaseStep, WriteFailsStep DEF Write
<1>5. CASE ConnectOk \/ ConnectFails \/ ResolveFails \/ LinkDrops \/ UNCHANGED vars
  BY <1>5, LinkStep
<1>6. CASE PowerLoss
  BY <1>6, PowerLossStep
<1> QED BY <1>1, <1>2, <1>3, <1>4, <1>5, <1>6 DEF Next

LEMMA Invariance == Spec => []IInv
<1> QED BY InitIInv, NextIInv, PTL DEF Spec

\* Two tasks that store the record at once, from memory that neither locks, leave
\* clean pages in the sector and lose none of the changes, as long as no write fails.
THEOREM StoresAreSound == Spec => []StoreSound
<1>1. ASSUME IInv PROVE StoreSound
  <2>1. TypeOK
    BY <1>1 DEF IInv
  <2>2. PagesClean
    BY <1>1 DEF IInv, AllClean, Clean, PagesClean
  <2>3. Persisted
    <3> SUFFICES ASSUME \A t \in Task : job[t].at = "idle", ~volatile, ~failed PROVE flash = ram
      BY DEF Persisted, At
    <3>1. HeadKept /\ TailKept
      BY <1>1 DEF IInv
    <3>2. flash.head = ram.head /\ flash.addr = ram.addr
      BY <3>1 DEF HeadKept, TailKept
    <3> QED BY <2>1, <3>2 DEF TypeOK, Db, Sector
  <2> QED BY <2>1, <2>2, <2>3 DEF StoreSound
<1> QED BY <1>1, Invariance, PTL

\* A token that a later one has replaced in flash does not come back into it,
\* neither by a store that copied it before nor by a power loss.
THEOREM OldTokensStayAway == Spec => TokenNeverBack
<1>1. ASSUME IInv, Next, ~failed', kept' # kept PROVE kept' = 0 \/ kept' > kept
  <2>1. PICK t \in Task : WritePage0(t)
    BY <1>1 DEF Next, StoreTokenKey, ResetNetWork, StoreAccessInfo, ConfigPara, Write, WriteFails,
                Assign, Acquire, CopyHead, CopyTail, Erase, WritePage1, Release,
                ConnectOk, ConnectFails, ResolveFails, LinkDrops, PowerLoss, vars
  <2>2. ~failed /\ job[t].at = "page0" /\ TypeOK
    BY <1>1, <2>1 DEF WritePage0, At, IInv
  <2>3. flash = ErasedSector /\ TokensInOrder
    BY <1>1, <2>2 DEF IInv, ErasedFirst, At
  <2>4. flash'.head = job[t].cache.head
    BY <2>1, <2>3 DEF WritePage0, Program0, ErasedSector
  <2>5. kept' = job[t].cache.head.token
    BY <2>1, <2>4 DEF WritePage0
  <2>6. job[t].cache.head.token = 0 \/ job[t].cache.head.token \in kept .. token
    BY <2>2, <2>3 DEF TokensInOrder
  <2>7. kept \in Int /\ token \in Int
    BY <1>1, <2>3 DEF IInv, Token, TokensInOrder
  <2> QED BY <1>1, <2>5, <2>6, <2>7
<1>2. IInv /\ [Next]_vars => [~failed' => kept' \in {0, kept} \/ kept' > kept]_vars
  BY <1>1
<1> QED BY <1>2, Invariance, PTL DEF Spec, TokenNeverBack
====
