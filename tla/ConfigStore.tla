---------------------------- MODULE ConfigStore ----------------------------
(***************************************************************************)
(* The configuration of the agent, g_struZcConfigDb: its copy in memory,   *)
(* which the cloud task and the device task change without a lock, its     *)
(* copy in flash, which tls_fls_write replaces by erasing a sector and     *)
(* programming it page by page, a power loss between any two of these      *)
(* steps, and HF_ConnectToCloud, which reads from it where the cloud is    *)
(* and goes back to the name of the cloud when an address fails too often. *)
(*                                                                         *)
(* The record is longer than a flash page.  Magic flag, keys, token,       *)
(* switches and cloud name are in the first one, here "head"; server       *)
(* address and port are in the second, here "tail".                        *)
(***************************************************************************)
EXTENDS Integers, FiniteSets

CONSTANTS
    Reachable,  \* server addresses (with port) that accept a connection
    Dead,       \* server addresses that do not
    Failures,   \* the 20 of HF_ConnectToCloud
    MaxToken,   \* bound: tokens the cloud sets
    MaxConfig,  \* bound: configurations the device sends
    MaxLoss,    \* bound: power losses
    MaxError    \* bound: failures of tls_fls_write

ASSUME ConfigBounds ==
    {Failures, MaxToken, MaxConfig, MaxLoss, MaxError} \subseteq Nat
ASSUME AddressAssumption ==
    /\ Reachable \cap Dead = {}
    /\ (Reachable \cup Dead) \cap {"erased", "garbled"} = {}

VARIABLES
    ram,        \* g_struZcConfigDb
    flash,      \* the sector at USER_FLASH_PARAM1_ADDR
    lock,       \* count of the semaphore spi_fls->fls_lock
    job,        \* what each task does with the configuration
    times,      \* u32ConnectionTimes
    link,       \* the cloud connection is up
    volatile,   \* history: memory was changed where the code does not store it
    failed,     \* history: a tls_fls_write failed
    token,      \* history: number of the last token the cloud has set
    kept,       \* history: the token last programmed into flash
    count       \* how much of each bound is used

vars == <<ram, flash, lock, job, times, link, volatile, failed, token, kept, count>>

Task == {"cloud", "device"}

\* What an erased page reads as; it is no address that accepts connections.
Erased == "erased"
\* What a page reads as that was programmed over different contents.
Garbled == "garbled"

Address == Reachable \cup Dead \cup {Erased, Garbled}
\* u32SecSwitch, u8CloudKey and u8CloudAddr, of HF_Init, of ZC_ConfigInitPara
\* and of a configuration message.
Cloud == {"test", "device", "given", Garbled}
Token == 0 .. MaxToken
\* The token of a garbled page.
Mixed == -1
\* The first page without the magic flag; no switch has the value 1.
ErasedHead == [mode |-> 0, cloud |-> Erased, token |-> 0]
ErasedSector == [head |-> ErasedHead, addr |-> Erased]

Head == [mode : {0, 1}, cloud : Cloud, token : Token \cup {Mixed}]
Db == [head : Head, addr : Address]
Sector == [head : Head \cup {ErasedHead}, addr : Address]
Place == {"idle", "assign", "acquire", "read", "copy", "erase",
          "page0", "page1", "release"}

\* ZC_ConfigInitPara; the address is not touched, the default token is 0.
InitPara(db) ==
    [db EXCEPT !.head = [mode |-> 0, cloud |-> "device", token |-> 0]]

\* HF_Init after it, and HF_ReadDataFromFlash, for which the magic flag of a
\* page that was programmed is right, whatever else the page holds.
Boot(sector) ==
    IF sector.head = ErasedHead
    THEN [head |-> [mode |-> 0, cloud |-> "test", token |-> 0], addr |-> Erased]
    ELSE sector

Rest == [at |-> "idle", addr |-> Erased, cloud |-> "given", cache |-> Boot(ErasedSector)]

Init ==
    /\ flash = ErasedSector
    /\ ram = Boot(flash)
    /\ lock = 1
    /\ job = [t \in Task |-> Rest]
    /\ times = 0
    /\ link = FALSE
    /\ volatile = TRUE
    /\ failed = FALSE
    /\ token = 0
    /\ kept = 0
    /\ count = [config |-> 0, loss |-> 0, error |-> 0]

-----------------------------------------------------------------------------
(***************************************************************************)
(* Changes of the configuration in memory.                                 *)
(***************************************************************************)
At(t, place) == job[t].at = place
Goto(t, place) == job' = [job EXCEPT ![t].at = place]

\* PCT_SetTokenKey, ZC_StoreTokenKey.
StoreTokenKey ==
    /\ link /\ At("cloud", "idle") /\ token < MaxToken
    /\ token' = token + 1
    /\ ram' = [ram EXCEPT !.head.token = token + 1]
    /\ Goto("cloud", "acquire")
    /\ UNCHANGED <<flash, lock, times, link, volatile, failed, kept, count>>

\* The answer with an access point: ZC_StoreAccessInfo sets the switch first.
StoreAccessInfo(addr) ==
    /\ link /\ At("cloud", "idle")
    /\ ram' = [ram EXCEPT !.head.mode = 1]
    /\ job' = [job EXCEPT !["cloud"].at = "assign", !["cloud"].addr = addr]
    /\ UNCHANGED <<flash, lock, times, link, volatile, failed, token, kept, count>>

\* ZC_ConfigPara sets the switches first; it leaves the token alone.
ConfigPara(mode, addr) ==
    /\ At("device", "idle") /\ count.config < MaxConfig
    /\ count' = [count EXCEPT !.config = @ + 1]
    /\ ram' = [ram EXCEPT !.head.mode = mode]
    /\ job' = [job EXCEPT !["device"].at = "assign", !["device"].addr = addr]
    /\ UNCHANGED <<flash, lock, times, link, volatile, failed, token, kept>>

\* The rest of the assignments of ZC_StoreAccessInfo or of ZC_ConfigPara.
Assign(t) ==
    /\ At(t, "assign")
    /\ ram' = IF t = "cloud" THEN [ram EXCEPT !.addr = job[t].addr]
              ELSE [ram EXCEPT !.addr = job[t].addr, !.head.cloud = job[t].cloud]
    /\ Goto(t, "acquire")
    /\ UNCHANGED <<flash, lock, times, link, volatile, failed, token, kept, count>>

\* PCT_ResetNetWork: the configuration in flash stays.
ResetNetWork ==
    /\ link /\ At("cloud", "idle")
    /\ ram' = InitPara(ram)
    /\ link' = FALSE
    /\ volatile' = TRUE
    /\ UNCHANGED <<flash, lock, job, times, failed, token, kept, count>>

-----------------------------------------------------------------------------
(***************************************************************************)
(* tls_fls_write of the whole record, for the task t.                      *)
(***************************************************************************)
\* It copies out of the record in memory once it has the lock.
MutAcquire(t) ==
    /\ At(t, "acquire")
    /\ Goto(t, "read")
    /\ UNCHANGED <<ram, flash, lock, times, link, volatile, failed, token, kept, count>>
MutAcquireOnce(t) ==
    /\ At(t, "acquire")
    /\ IF lock > 0 THEN lock' = lock - 1 /\ Goto(t, "read")
       ELSE lock' = lock /\ job' = [job EXCEPT ![t] = Rest]
    /\ UNCHANGED <<ram, flash, times, link, volatile, failed, token, kept, count>>
Acquire(t) ==
    /\ At(t, "acquire") /\ lock > 0
    /\ lock' = lock - 1
    /\ Goto(t, "read")
    /\ UNCHANGED <<ram, flash, times, link, volatile, failed, token, kept, count>>

\* The sector is read into the cache and the record copied over it, which
\* another task can interrupt.
CopyHead(t) ==
    /\ At(t, "read")
    /\ job' = [job EXCEPT ![t].at = "copy", ![t].cache.head = ram.head]
    /\ volatile' = FALSE
    /\ UNCHANGED <<ram, flash, lock, times, link, failed, token, kept, count>>

CopyTail(t) ==
    /\ At(t, "copy")
    /\ job' = [job EXCEPT ![t].at = "erase", ![t].cache.addr = ram.addr]
    /\ UNCHANGED <<ram, flash, lock, times, link, volatile, failed, token, kept, count>>

Erase(t) ==
    /\ At(t, "erase")
    /\ flash' = ErasedSector
    /\ Goto(t, "page0")
    /\ UNCHANGED <<ram, lock, times, link, volatile, failed, token, kept, count>>

\* Programming clears bits: over other contents it leaves neither.
Blend(old, new) == IF old = Erased \/ old = new THEN new ELSE Garbled

Program0(old, new) ==
    IF old = ErasedHead THEN new
    ELSE [mode |-> old.mode * new.mode,
          cloud |-> Blend(old.cloud, new.cloud),
          token |-> IF old.token = new.token THEN new.token ELSE Mixed]

WritePage0(t) ==
    /\ At(t, "page0")
    /\ flash' = [flash EXCEPT !.head = Program0(@, job[t].cache.head)]
    /\ kept' = flash'.head.token
    /\ Goto(t, "page1")
    /\ UNCHANGED <<ram, lock, times, link, volatile, failed, token, count>>

WritePage1(t) ==
    /\ At(t, "page1")
    /\ flash' = [flash EXCEPT !.addr = Blend(@, job[t].cache.addr)]
    /\ Goto(t, "release")
    /\ UNCHANGED <<ram, lock, times, link, volatile, failed, token, kept, count>>

\* The end: an access point makes the cloud task disconnect after it.
Release(t) ==
    /\ At(t, "release")
    /\ lock' = lock + 1
    /\ job' = [job EXCEPT ![t] = Rest]
    /\ link' = (link /\ ~(t = "cloud" /\ job[t].addr # Erased))
    /\ UNCHANGED <<ram, flash, times, volatile, failed, token, kept, count>>

\* A failure of the allocation, the read, the erasure or a page: nothing looks
\* at the result, and all but the first release the lock twice.
WriteFails(t) ==
    /\ count.error < MaxError
    /\ job[t].at \in {"read", "erase", "page0", "page1"}
    /\ count' = [count EXCEPT !.error = @ + 1]
    /\ failed' = TRUE
    /\ \/ At(t, "read") /\ lock' = lock + 1
       \/ lock' = lock + 2
    /\ job' = [job EXCEPT ![t] = Rest]
    /\ link' = (link /\ ~(t = "cloud" /\ job[t].addr # Erased))
    /\ UNCHANGED <<ram, flash, times, volatile, token, kept>>

Write(t) ==
    \/ Assign(t) \/ Acquire(t) \/ CopyHead(t) \/ CopyTail(t) \/ Erase(t)
    \/ WritePage0(t) \/ WritePage1(t) \/ Release(t)

-----------------------------------------------------------------------------
(***************************************************************************)
(* HF_ConnectToCloud.  An address accepts the connection or not; a name    *)
(* may or may not be resolved, and what it resolves to accepts.            *)
(***************************************************************************)
MayConnect == ~link /\ At("cloud", "idle")

ConnectOk ==
    /\ MayConnect
    /\ ram.head.mode = 1 => ram.addr \in Reachable
    /\ link' = TRUE
    /\ times' = 0
    /\ UNCHANGED <<ram, flash, lock, job, volatile, failed, token, kept, count>>

\* The counter is incremented after it is compared; beyond Failures + 1 its
\* values are not told apart.
MutConnectFails ==
    /\ MayConnect
    /\ ram.head.mode = 1 => ram.addr \notin Reachable
    /\ times' = IF times > Failures THEN 0 ELSE times + 1
    /\ UNCHANGED <<ram, flash, lock, job, link, volatile, failed, token, kept, count>>
ConnectFails ==
    /\ MayConnect
    /\ ram.head.mode = 1 => ram.addr \notin Reachable
    /\ times' = IF times > Failures THEN times ELSE times + 1
    /\ IF times > Failures
       THEN ram' = [ram EXCEPT !.head.mode = 0] /\ volatile' = TRUE
       ELSE UNCHANGED <<ram, volatile>>
    /\ UNCHANGED <<flash, lock, job, link, failed, token, kept, count>>

\* gethostbyname fails: the failure is not counted.
ResolveFails ==
    /\ MayConnect
    /\ ram.head.mode # 1
    /\ UNCHANGED vars

LinkDrops ==
    /\ link /\ At("cloud", "idle")
    /\ link' = FALSE
    /\ UNCHANGED <<ram, flash, lock, job, times, volatile, failed, token, kept, count>>

\* The power fails, and the module starts again.
PowerLoss ==
    /\ count.loss < MaxLoss
    /\ count' = [count EXCEPT !.loss = @ + 1]
    /\ ram' = Boot(flash)
    /\ lock' = 1
    /\ job' = [t \in Task |-> Rest]
    /\ times' = 0
    /\ link' = FALSE
    /\ volatile' = (flash.head = ErasedHead)
    /\ UNCHANGED <<flash, failed, token, kept>>

Next ==
    \/ StoreTokenKey \/ ResetNetWork
    \/ \E a \in Reachable \cup Dead : StoreAccessInfo(a)
    \/ \E m \in {0, 1}, a \in Reachable \cup Dead : ConfigPara(m, a)
    \/ \E t \in Task : Write(t) \/ WriteFails(t)
    \/ ConnectOk \/ ConnectFails \/ ResolveFails \/ LinkDrops
    \/ PowerLoss

(***************************************************************************)
(* The tasks run; the cloud task tries again after each failure, and the   *)
(* name of the cloud is resolved and accepted now and then.                *)
(***************************************************************************)
Fairness ==
    /\ \A t \in Task : WF_vars(Write(t))
    /\ WF_vars(ConnectFails)
    /\ SF_vars(ConnectOk)

Spec == Init /\ [][Next]_vars /\ Fairness

-----------------------------------------------------------------------------
\* Every variable has its type.
TypeOK ==
    /\ ram \in Db
    /\ flash \in Sector
    /\ lock \in 0 .. 1 + MaxError
    /\ job \in [Task -> [at : Place, addr : Address, cloud : Cloud, cache : Db]]
    /\ times \in 0 .. Failures + 1
    /\ {link, volatile, failed} \subseteq BOOLEAN
    /\ {token, kept} \subseteq Token \cup {Mixed}

\* Both tasks write the record with tls_fls_write: each has the sector for
\* itself between its erasure and its last page, so that no page is programmed
\* over another one (as long as no write fails and releases the lock twice).
PagesClean ==
    ~failed => /\ Garbled \notin {flash.head.cloud, flash.addr}
               /\ flash.head.token # Mixed

\* The stores of zc_configuration.c lose no update of the other task: with no
\* store under way flash holds what memory holds, though neither the record
\* nor the copy made of it is locked (except for what ZC_ConfigInitPara and
\* the fallback of HF_ConnectToCloud change in memory only).
Persisted ==
    (\A t \in Task : At(t, "idle")) /\ ~volatile /\ ~failed => flash = ram

\* What two tasks that store at once leave in the sector.
StoreSound == TypeOK /\ PagesClean /\ Persisted

\* A power loss in a store may bring back the default token, but no token that
\* a later one has replaced in flash comes back into it.
TokenNeverBack ==
    [][~failed' => kept' \in {0, kept} \/ kept' > kept]_vars

\* Whatever a power loss, an error or a configuration leaves as the server
\* address, the module finds the cloud again: HF_ConnectToCloud gives up an
\* address after the failures it counts.
FindsCloud == []<>link

====
