---------------------------- MODULE KernelProofs ----------------------------
(***************************************************************************)
(* Proofs about Kernel, for every number of tasks, every set of events of  *)
(* any kinds and limits, and every bound of delays and of nesting; and     *)
(* about OsTimer, for every number of timers, every size of the wheel,     *)
(* every width of OSTmrTime and all delays that fit into it.               *)
(***************************************************************************)
EXTENDS Kernel, OsTimer, TLAPS, FiniteSetTheorems, WellFoundedInduction

\* A nonempty set of priorities has a highest one (what OS_SchedNew finds in
\* OSRdyGrp and OSRdyTbl, and OS_EventTaskRdy in OSEventGrp and OSEventTbl).
LEMMA MinOf ==
    ASSUME NEW S, S \subseteq Nat, S # {}
    PROVE  Min(S) \in S /\ \A y \in S : Min(S) <= y
<1>1. IsWellFoundedOn(OpToRel(<, Nat), Nat)
  BY NatLessThanWellFounded
<1>2. PICK s \in S : \A r \in S : ~(<<r, s>> \in OpToRel(<, Nat))
  BY <1>1, WFMin
<1>3. ASSUME NEW r \in S PROVE s <= r
  <2>1. <<r, s>> \notin OpToRel(<, Nat)
    BY <1>2
  <2>2. ~(r < s)
    BY <2>1 DEF OpToRel
  <2> QED BY <2>2
<1> QED BY <1>3 DEF Min

\* A nonempty set of tasks has a last one.
LEMMA MaxOf ==
    ASSUME NEW S, S \subseteq Task, S # {}
    PROVE  Max(S) \in S
<1> DEFINE R == {k \in 0 .. N : N - k \in S}
<1>1. R # {} /\ R \subseteq Nat
  <2>1. PICK s \in S : TRUE
    OBVIOUS
  <2>2. s \in 1 .. N /\ N - s \in 0 .. N /\ N - (N - s) = s
    BY NAssumption DEF Task
  <2>3. N - s \in R
    BY <2>2
  <2> QED BY <2>3, NAssumption
<1>2. Min(R) \in R /\ \A y \in R : Min(R) <= y
  BY <1>1, MinOf
<1>3. \A y \in S : N - Min(R) >= y
  <2> TAKE y \in S
  <2>1. y \in 1 .. N /\ N - y \in 0 .. N /\ N - (N - y) = y
    BY NAssumption DEF Task
  <2>2. N - y \in R
    BY <2>1
  <2>3. Min(R) <= N - y /\ Min(R) \in 0 .. N
    BY <2>2, <1>2
  <2> QED BY <2>1, <2>3, NAssumption
<1>4. N - Min(R) \in S
  BY <1>2
<1> QED BY <1>3, <1>4 DEF Max

\* The scheduler always has a task to run, the idle task at the least.
LEMMA HighestReadyType ==
    ASSUME ready \subseteq Task
    PROVE  /\ HighestReady \in ready \cup {Idle}
           /\ \A t \in ready \cup {Idle} : HighestReady <= t
<1>1. ready \cup {Idle} \subseteq Nat /\ ready \cup {Idle} # {}
  BY NAssumption DEF Task, Idle
<1> QED BY <1>1, MinOf DEF HighestReady

\* Cardinalities of sets of tasks are numbers.
LEMMA TasksFinite ==
    ASSUME NEW S \in SUBSET Task
    PROVE  IsFiniteSet(S) /\ Cardinality(S) \in Nat
<1>1. IsFiniteSet(Task)
  BY NAssumption, FS_Interval DEF Task
<1>2. IsFiniteSet(S)
  BY <1>1, FS_Subset
<1> QED BY <1>2, FS_CardinalityType

-----------------------------------------------------------------------------
(***************************************************************************)
(* The invariant.                                                          *)
(***************************************************************************)
\* Each task control block agrees with the place of its task.  What an
\* OS_ERR_EVENT_TYPE left in it is told by OSTCBEventMultiPtr (multi) of a task
\* that is not in OSEventPendMulti (many): but for that, a task outside of pend
\* calls waits for nothing, and one that waits for a single event still has the
\* bit of this event only while it is in its list.  A delay that runs in a pend
\* call is the timeout of a wait that has not ended; a task that has neither
\* timed out nor got a token has the bit and is not ready; and the event that
\* OSTCBEventPtr names in a wait is one the task waits for.
CallMatches(t) ==
    /\ pc[t] = "run" => evs[t] = {}
    /\ pc[t] = "wake" => evs[t] # {}
    /\ t \in ready => "suspend" \notin stat[t] /\ dly[t] = 0
    /\ many[t] => multi[t]
    /\ evs[t] = {} /\ ~multi[t] => stat[t] \subseteq {"suspend"}
    /\ evs[t] # {} /\ ~multi[t] =>
          /\ evs[t] = {eptr[t]}
          /\ stat[t] \subseteq {Kind[eptr[t]], "suspend"}
          /\ Kind[eptr[t]] \in stat[t] => t \in wait[eptr[t]]
    /\ evs[t] # {} /\ dly[t] > 0 =>
          pend[t] = "ok" /\ \E e \in Event : t \in wait[e]
    /\ \A e \in Event : t \in wait[e] =>
          /\ \A f \in Event : eptr[t] = f => t \in wait[f]
          /\ pend[t] = "ok" => Kind[e] \in stat[t] /\ t \notin ready

\* While the scheduler is locked, a task runs that is in no pend call.
LockHeld == lockNest > 0 => cur \in Task /\ evs[cur] = {}

\* The conjunct of ListsMatch for one task.
Listed(t) ==
    \A e \in Event : t \in wait[e] =>
        /\ evs[t] = {f \in Event : t \in wait[f]}
        /\ pend[t] # "abort" /\ evs[t] \subseteq valid

Block(t) == CallMatches(t) /\ Listed(t) /\ (t \notin ready => multi[t] \/ Waits(t))
Blocks == \A t \in Task : Block(t)

IInv == TypeOK /\ NoTokenWaits /\ Blocks /\ LockHeld /\ HighestRuns /\ TokensConserved

USE NAssumption, EventAssumption, KernelBounds

LEMMA BlocksParts == Blocks => ListsMatch /\ NoLostWakeup
  BY DEF Blocks, Block, Listed, ListsMatch, NoLostWakeup

LEMMA InitIInv == Init => IInv
<1> SUFFICES ASSUME Init PROVE IInv
  OBVIOUS
<1>1. cur \in Task \cup {Idle} /\ cur = HighestReady
  <2>1. ready \subseteq Task /\ cur = HighestReady
    BY DEF Init, HighestReady
  <2> QED BY <2>1, HighestReadyType
<1>2. TypeOK
  BY <1>1 DEF Init, TypeOK, Timeout
<1>3. NoTokenWaits /\ Blocks /\ LockHeld /\ HighestRuns
  BY <1>1 DEF Init, NoTokenWaits, Blocks, Block, CallMatches, Listed, LockHeld, HighestRuns
<1>4. TokensConserved
  <2>1. \A e \in Event : Handed(e) = {}
    BY DEF Init, Handed
  <2>2. Cardinality({}) = 0
    BY FS_EmptySet
  <2>3. \A e \in Event : balance[e] = 0 /\ cnt[e] = 0
    BY DEF Init
  <2> QED BY <2>1, <2>2, <2>3 DEF TokensConserved
<1> QED BY <1>2, <1>3, <1>4 DEF IInv

-----------------------------------------------------------------------------
(***************************************************************************)
(* Steps that leave the task control blocks and the pend calls alone.      *)
(***************************************************************************)
\* A call goes on to OS_Sched, or leaves it, and no pend call begins or ends.
Goes ==
    /\ evs' = evs /\ many' = many
    /\ pc' \in [Task -> {"run", "sched", "wake"}]
    /\ \A t \in Task : /\ pc'[t] = "run" => evs[t] = {}
                       /\ pc'[t] = "wake" => evs[t] # {}

LEMMA SchedGoes ==
    ASSUME TypeOK, Blocks, MayPost, Sched
    PROVE  Goes
<1>1. \A t \in Task : (pc[t] = "run" => evs[t] = {}) /\ (pc[t] = "wake" => evs[t] # {})
  BY DEF Blocks, Block, CallMatches
<1> QED BY <1>1 DEF Goes, Sched, TypeOK, MayPost, InTask, InIsr, call

LEMMA SameGoes ==
    ASSUME TypeOK, Blocks, UNCHANGED call
    PROVE  Goes
<1>1. \A t \in Task : (pc[t] = "run" => evs[t] = {}) /\ (pc[t] = "wake" => evs[t] # {})
  BY DEF Blocks, Block, CallMatches
<1> QED BY <1>1 DEF Goes, TypeOK, call

\* The blocks still agree when only a place moves.
LEMMA BlocksSame ==
    ASSUME Blocks, UNCHANGED tcb, Goes, UNCHANGED valid
    PROVE  Blocks'
<1> SUFFICES ASSUME NEW t \in Task
             PROVE  CallMatches(t)' /\ Listed(t)' /\ (t \notin ready => multi[t] \/ Waits(t))'
  BY DEF Blocks, Block
<1>1. CallMatches(t) /\ Listed(t) /\ (t \notin ready => multi[t] \/ Waits(t))
  BY DEF Blocks, Block
<1>2. CallMatches(t)'
  BY <1>1 DEF CallMatches, Goes, tcb
<1>3. Listed(t)' /\ (t \notin ready => multi[t] \/ Waits(t))'
  BY <1>1 DEF Listed, Waits, Goes, tcb
<1> QED BY <1>2, <1>3

LEMMA HandedSame ==
    ASSUME UNCHANGED tcb, evs' = evs
    PROVE  \A e \in Event : Handed(e)' = Handed(e)
  BY DEF Handed, tcb

LEMMA SchedStep == ASSUME IInv, OS_Sched PROVE IInv'
<1> USE DEF IInv
<1>1. HighestReady \in Task \cup {Idle}
  BY HighestReadyType DEF TypeOK
<1>2. Goes
  <2>1. \A t \in Task : (pc[t] = "run" => evs[t] = {}) /\ (pc[t] = "wake" => evs[t] # {})
    BY DEF Blocks, Block, CallMatches
  <2> QED BY <2>1 DEF Goes, OS_Sched, TypeOK
<1>3. TypeOK'
  BY <1>1, <1>2 DEF TypeOK, OS_Sched, tcb, nest, Goes
<1>4. NoTokenWaits'
  BY DEF NoTokenWaits, OS_Sched, tcb
<1>5. Blocks'
  BY <1>2, BlocksSame DEF OS_Sched
<1>6. LockHeld'
  BY DEF LockHeld, OS_Sched, nest, TypeOK
<1>7. HighestRuns'
  BY DEF HighestRuns, HighestReady, OS_Sched, tcb, nest
<1>8. TokensConserved'
  BY HandedSame DEF TokensConserved, OS_Sched
<1> QED BY <1>3, <1>4, <1>5, <1>6, <1>7, <1>8

LEMMA LockStep == ASSUME IInv, OSSchedLock \/ OSSchedUnlock PROVE IInv'
<1> USE DEF IInv
<1>1. UNCHANGED <<tcb, intNest, tickLeft, valid, cnt, cur, balance>> /\ InTask
  BY DEF OSSchedLock, OSSchedUnlock
<1>2. Goes /\ lockNest' \in 0 .. MaxNest
  <2>1. CASE OSSchedLock
    BY <2>1, SameGoes DEF OSSchedLock, TypeOK
  <2>2. CASE OSSchedUnlock
    <3>1. MayPost /\ lockNest' \in 0 .. MaxNest
      BY <2>2 DEF OSSchedUnlock, MayPost, TypeOK
    <3> QED BY <2>2, <3>1, SameGoes, SchedGoes DEF OSSchedUnlock
  <2> QED BY <2>1, <2>2
<1>3. TypeOK'
  BY <1>1, <1>2 DEF TypeOK, tcb, Goes
<1>4. NoTokenWaits'
  BY <1>1 DEF NoTokenWaits, tcb
<1>5. Blocks'
  BY <1>1, <1>2, BlocksSame
<1>6. LockHeld'
  <2>1. cur \in Task /\ evs[cur] = {}
    BY <1>1 DEF InTask, Blocks, Block, CallMatches
  <2> QED BY <1>1, <1>2, <2>1 DEF LockHeld, Goes
<1>7. HighestRuns'
  <2>1. CASE OSSchedLock
    BY <2>1 DEF HighestRuns, OSSchedLock, TypeOK
  <2>2. CASE OSSchedUnlock /\ lockNest = 1
    BY <2>2 DEF HighestRuns, OSSchedUnlock, Sched, InTask, InIsr, TypeOK
  <2>3. CASE OSSchedUnlock /\ lockNest # 1
    BY <2>3 DEF HighestRuns, OSSchedUnlock, TypeOK
  <2> QED BY <2>1, <2>2, <2>3
<1>8. TokensConserved'
  BY <1>1, <1>2, HandedSame DEF TokensConserved, Goes
<1> QED BY <1>3, <1>4, <1>5, <1>6, <1>7, <1>8

LEMMA InterruptStep == ASSUME IInv, OSIntEnter \/ OSIntExit \/ TickStart PROVE IInv'
<1> USE DEF IInv
<1>1. UNCHANGED <<tcb, call, lockNest, valid, cnt, balance>>
  BY DEF OSIntEnter, OSIntExit, TickStart
<1>2. Goes
  BY <1>1, SameGoes
<1>3. TypeOK'
  <2>1. HighestReady \in Task \cup {Idle}
    BY HighestReadyType DEF TypeOK
  <2>2. cur' \in Task \cup {Idle} /\ intNest' \in 0 .. MaxNest /\ tickLeft' \subseteq Task
    BY <2>1 DEF OSIntEnter, OSIntExit, TickStart, InIsr, TypeOK
  <2> QED BY <1>1, <2>2 DEF TypeOK, tcb, call
<1>4. NoTokenWaits'
  BY <1>1 DEF NoTokenWaits, tcb
<1>5. Blocks'
  BY <1>1, <1>2, BlocksSame
<1>6. LockHeld'
  BY <1>1 DEF LockHeld, OSIntEnter, OSIntExit, TickStart, call, TypeOK
<1>7. HighestRuns'
  <2>1. CASE OSIntEnter \/ TickStart
    BY <2>1 DEF HighestRuns, OSIntEnter, TickStart, InIsr, TypeOK
  <2>2. CASE OSIntExit
    BY <2>2, <1>1 DEF HighestRuns, HighestReady, OSIntExit, InIsr, TypeOK, tcb
  <2> QED BY <2>1, <2>2
<1>8. TokensConserved'
  BY <1>1, HandedSame DEF TokensConserved, call
<1> QED BY <1>3, <1>4, <1>5, <1>6, <1>7, <1>8

-----------------------------------------------------------------------------
(***************************************************************************)
(* Steps that only take or put tokens nobody waits for.                    *)
(***************************************************************************)
LEMMA CountStep ==
    ASSUME IInv, UNCHANGED <<tcb, call, nest, valid, cur>>,
           cnt' \in [Event -> Nat], balance' \in [Event -> Int],
           \A e \in Event : /\ cnt'[e] <= Limit[e]
                            /\ cnt'[e] > 0 => wait[e] = {}
                            /\ balance'[e] - cnt'[e] = balance[e] - cnt[e]
    PROVE  IInv'
<1> USE DEF IInv
<1>1. Goes
  BY SameGoes
<1>2. TypeOK'
  BY DEF TypeOK, tcb, call, nest
<1>3. NoTokenWaits'
  BY DEF NoTokenWaits, tcb
<1>4. Blocks'
  BY <1>1, BlocksSame
<1>5. LockHeld' /\ HighestRuns'
  BY DEF LockHeld, HighestRuns, HighestReady, tcb, call, nest
<1>6. TokensConserved'
  <2>1. SUFFICES ASSUME NEW e \in Event
                 PROVE  balance'[e] = cnt'[e] + Cardinality(Handed(e)')
    BY DEF TokensConserved
  <2>2. Handed(e)' = Handed(e)
    BY HandedSame DEF call
  <2>3. balance[e] = cnt[e] + Cardinality(Handed(e))
    BY DEF TokensConserved
  <2>4. Cardinality(Handed(e)) \in Nat
    BY TasksFinite DEF Handed
  <2> QED BY <2>2, <2>3, <2>4 DEF TypeOK
<1> QED BY <1>2, <1>3, <1>4, <1>5, <1>6

LEMMA TakeStep ==
    ASSUME IInv, UNCHANGED <<tcb, call, nest, valid, cur>>,
           NEW E \in SUBSET Event, \A e \in E : cnt[e] > 0, Take(E)
    PROVE  IInv'
<1>1. \A e \in Event : cnt[e] \in Nat /\ balance[e] \in Int /\ Limit[e] \in Nat /\ cnt[e] <= Limit[e]
  BY DEF IInv, TypeOK
<1>2. cnt' \in [Event -> Nat] /\ balance' \in [Event -> Int]
  BY <1>1 DEF Take
<1>3. ASSUME NEW e \in Event
      PROVE  /\ cnt'[e] <= Limit[e]
             /\ cnt'[e] > 0 => wait[e] = {}
             /\ balance'[e] - cnt'[e] = balance[e] - cnt[e]
  <2>1. cnt[e] > 0 => wait[e] = {}
    BY DEF IInv, NoTokenWaits
  <2>2. cnt'[e] = (IF e \in E THEN cnt[e] - 1 ELSE cnt[e])
        /\ balance'[e] = (IF e \in E THEN balance[e] - 1 ELSE balance[e])
    BY DEF Take
  <2> QED BY <1>1, <2>1, <2>2
<1> QED BY <1>2, <1>3, CountStep

LEMMA OSQAcceptStep == ASSUME IInv, NEW e \in Event, OSQAccept(e) PROVE IInv'
<1>1. {e} \in SUBSET Event /\ \A f \in {e} : cnt[f] > 0
  BY DEF OSQAccept
<1> QED BY <1>1, TakeStep DEF OSQAccept

LEMMA SetCountStep ==
    ASSUME IInv, NEW e \in Event, NEW n \in 0 .. 1, SetCount(e, n)
    PROVE  IInv'
<1>1. \A f \in Event : cnt[f] \in Nat /\ balance[f] \in Int /\ Limit[f] \in Nat \ {0} /\ cnt[f] <= Limit[f]
  BY DEF IInv, TypeOK
<1>2. cnt' = [cnt EXCEPT ![e] = n] /\ balance' = [balance EXCEPT ![e] = balance[e] - cnt[e] + n]
  BY DEF SetCount
<1>3. cnt \in [Event -> Nat] /\ balance \in [Event -> Int]
  BY DEF IInv, TypeOK
<1>4. cnt' \in [Event -> Nat] /\ balance' \in [Event -> Int]
  BY <1>1, <1>2, <1>3
<1>5. ASSUME NEW f \in Event
      PROVE  /\ cnt'[f] <= Limit[f]
             /\ cnt'[f] > 0 => wait[f] = {}
             /\ balance'[f] - cnt'[f] = balance[f] - cnt[f]
  <2>1. cnt[f] > 0 => wait[f] = {}
    BY DEF IInv, NoTokenWaits
  <2>2. CASE f = e
    <3>1. n = 0 \/ cnt[e] > 0 \/ wait[e] = {}
      BY DEF SetCount
    <3> QED BY <1>1, <1>2, <1>3, <2>1, <2>2, <3>1
  <2>3. CASE f # e
    BY <1>1, <1>2, <1>3, <2>1, <2>3
  <2> QED BY <2>2, <2>3
<1> QED BY <1>4, <1>5, CountStep DEF SetCount

\* The post that nobody waits for.
LEMMA StoreStep ==
    ASSUME IInv, NEW e \in Event, UNCHANGED <<tcb, call, nest, valid, cur>>,
           wait[e] = {}, cnt[e] < Limit[e],
           cnt' = [cnt EXCEPT ![e] = @ + 1], balance' = [balance EXCEPT ![e] = @ + 1]
    PROVE  IInv'
<1>1. \A f \in Event : cnt[f] \in Nat /\ balance[f] \in Int /\ Limit[f] \in Nat \ {0} /\ cnt[f] <= Limit[f]
  BY DEF IInv, TypeOK
<1>2. cnt \in [Event -> Nat] /\ balance \in [Event -> Int]
  BY DEF IInv, TypeOK
<1>3. cnt' \in [Event -> Nat] /\ balance' \in [Event -> Int]
  BY <1>1, <1>2
<1>4. ASSUME NEW f \in Event
      PROVE  /\ cnt'[f] <= Limit[f]
             /\ cnt'[f] > 0 => wait[f] = {}
             /\ balance'[f] - cnt'[f] = balance[f] - cnt[f]
  <2>1. cnt[f] > 0 => wait[f] = {}
    BY DEF IInv, NoTokenWaits
  <2> QED BY <1>1, <1>2, <2>1
<1> QED BY <1>3, <1>4, CountStep

-----------------------------------------------------------------------------
(***************************************************************************)
(* OS_EventTaskRdy: what a post, an abort and a deletion do to the tasks   *)
(* of a waiting list.                                                      *)
(***************************************************************************)
\* The new blocks have their types, and only tasks that are not suspended
\* become ready.
LEMMA RdyType ==
    ASSUME TypeOK, NEW e \in Event, NEW W \in SUBSET Task,
           NEW result \in {"ok", "abort"}, OS_EventTaskRdy(e, W, result)
    PROVE  /\ ready' \subseteq Task
           /\ stat' \in [Task -> SUBSET Bit]
           /\ pend' \in [Task -> {"ok", "to", "abort"}]
           /\ dly' \in [Task -> Timeout]
           /\ eptr' \in [Task -> Event \cup {None}]
           /\ multi' \in [Task -> BOOLEAN]
           /\ wait' \in [Event -> SUBSET Task]
  BY DEF TypeOK, OS_EventTaskRdy, Timeout

\* What the step does to one task.
LEMMA RdyTask ==
    ASSUME TypeOK, NEW e \in Event, NEW W \in SUBSET Task,
           NEW result, OS_EventTaskRdy(e, W, result), NEW t \in W
    PROVE  /\ multi'[t] = multi[t]
           /\ stat'[t] = stat[t] \ {Kind[e]} /\ pend'[t] = result /\ dly'[t] = 0
           /\ eptr'[t] = IF multi[t] THEN e ELSE eptr[t]
           /\ t \in ready' <=> t \in ready \/ "suspend" \notin stat[t]
           /\ \A f \in Event : t \in wait'[f] <=> t \in wait[f] /\ f # e /\ ~multi[t]
  BY DEF TypeOK, OS_EventTaskRdy

\* And to the others.
LEMMA RdyOther ==
    ASSUME TypeOK, NEW e \in Event, NEW W \in SUBSET Task,
           NEW result, OS_EventTaskRdy(e, W, result), NEW t \in Task \ W
    PROVE  /\ multi'[t] = multi[t]
           /\ stat'[t] = stat[t] /\ pend'[t] = pend[t] /\ dly'[t] = dly[t]
           /\ eptr'[t] = eptr[t] /\ (t \in ready' <=> t \in ready)
           /\ \A f \in Event : t \in wait'[f] <=> t \in wait[f]
  BY DEF TypeOK, OS_EventTaskRdy

\* No task of W is in a waiting list afterwards.
LEMMA RdyLeaves ==
    ASSUME TypeOK, Blocks, NEW e \in Event, NEW W \in SUBSET wait[e],
           NEW result, OS_EventTaskRdy(e, W, result), NEW t \in W
    PROVE  /\ t \in Task /\ evs[t] # {} /\ e \in evs[t]
           /\ ~multi[t] => eptr[t] = e
           /\ \A f \in Event : t \notin wait'[f]
<1>1. t \in Task /\ W \in SUBSET Task
  BY DEF TypeOK
<1>2. evs[t] = {f \in Event : t \in wait[f]} /\ e \in evs[t]
  BY <1>1 DEF Blocks, Block, Listed
<1>3. ~multi[t] => evs[t] = {eptr[t]}
  BY <1>1, <1>2 DEF Blocks, Block, CallMatches
<1>4. \A f \in Event : t \in wait'[f] => t \in wait[f] /\ f # e /\ ~multi[t]
  BY <1>1, RdyTask
<1> QED BY <1>1, <1>2, <1>3, <1>4

LEMMA RdyBlocks ==
    ASSUME TypeOK, Blocks, NEW e \in Event, NEW W \in SUBSET wait[e],
           NEW result \in {"ok", "abort"}, OS_EventTaskRdy(e, W, result), Goes,
           valid' = valid \/ (valid' = valid \ {e} /\ W = wait[e])
    PROVE  Blocks'
<1>0. W \in SUBSET Task
  BY DEF TypeOK
<1> SUFFICES ASSUME NEW t \in Task
             PROVE  CallMatches(t)' /\ Listed(t)' /\ (t \notin ready => multi[t] \/ Waits(t))'
  BY DEF Blocks, Block
<1>1. CallMatches(t) /\ Listed(t) /\ (t \notin ready => multi[t] \/ Waits(t))
  BY DEF Blocks, Block
<1>2. evs'[t] = evs[t] /\ (pc'[t] = "run" => evs[t] = {}) /\ (pc'[t] = "wake" => evs[t] # {})
  BY DEF Goes
<1>3. CASE t \in W
  <2>1. /\ multi'[t] = multi[t]
        /\ stat'[t] = stat[t] \ {Kind[e]} /\ pend'[t] = result /\ dly'[t] = 0
        /\ eptr'[t] = IF multi[t] THEN e ELSE eptr[t]
        /\ t \in ready' <=> t \in ready \/ "suspend" \notin stat[t]
    BY <1>0, <1>3, RdyTask
  <2>2. /\ evs[t] # {} /\ e \in evs[t]
        /\ ~multi[t] => eptr[t] = e
        /\ \A f \in Event : t \notin wait'[f]
    BY <1>3, RdyLeaves
  <2>3. Kind[e] # "suspend"
    OBVIOUS
  <2>4. CallMatches(t)'
    BY <1>1, <1>2, <2>1, <2>2, <2>3 DEF CallMatches, Goes
  <2>5. Listed(t)'
    BY <2>2 DEF Listed
  <2>6. (t \notin ready => multi[t] \/ Waits(t))'
    BY <2>1, <2>3 DEF Waits
  <2> QED BY <2>4, <2>5, <2>6
<1>4. CASE t \notin W
  <2>1. /\ multi'[t] = multi[t]
        /\ stat'[t] = stat[t] /\ pend'[t] = pend[t] /\ dly'[t] = dly[t]
        /\ eptr'[t] = eptr[t] /\ (t \in ready' <=> t \in ready)
        /\ \A f \in Event : t \in wait'[f] <=> t \in wait[f]
    BY <1>0, <1>4, RdyOther
  <2>2. ~multi[t] /\ evs[t] # {} => eptr[t] \in Event
    BY <1>1 DEF CallMatches, TypeOK
  <2>3. CallMatches(t)'
    BY <1>1, <1>2, <2>1, <2>2 DEF CallMatches, Goes
  <2>4. Listed(t)'
    <3> SUFFICES ASSUME NEW f \in Event, t \in wait'[f]
                 PROVE  /\ evs'[t] = {g \in Event : t \in wait'[g]}
                        /\ pend'[t] # "abort" /\ evs'[t] \subseteq valid'
      BY DEF Listed
    <3>1. evs[t] = {g \in Event : t \in wait[g]} /\ pend[t] # "abort" /\ evs[t] \subseteq valid
      BY <1>1, <2>1 DEF Listed
    <3>2. evs[t] \subseteq valid'
      BY <3>1, <1>4
    <3> QED BY <1>2, <2>1, <3>1, <3>2
  <2>5. (t \notin ready => multi[t] \/ Waits(t))'
    BY <1>1, <2>1 DEF Waits
  <2> QED BY <2>3, <2>4, <2>5
<1> QED BY <1>3, <1>4

\* Tokens are handed to the tasks of W by a post, to nobody by an abort.
LEMMA RdyHanded ==
    ASSUME TypeOK, Blocks, NEW e \in Event, NEW W \in SUBSET wait[e],
           NEW result \in {"ok", "abort"}, OS_EventTaskRdy(e, W, result), Goes,
           NEW f \in Event
    PROVE  /\ Handed(f)' = IF f = e /\ result = "ok" THEN Handed(f) \cup W ELSE Handed(f)
           /\ f = e => Handed(f) \cap W = {}
<1>0. W \in SUBSET Task
  BY DEF TypeOK
<1>1. ASSUME NEW t \in Task, t \in W
      PROVE  /\ t \notin Handed(f)
             /\ t \in Handed(f)' <=> f = e /\ result = "ok"
  <2>1. /\ t \in Task /\ evs[t] # {} /\ e \in evs[t]
        /\ ~multi[t] => eptr[t] = e
        /\ \A g \in Event : t \notin wait'[g]
    BY <1>1, RdyLeaves
  <2>2. /\ multi'[t] = multi[t]
        /\ stat'[t] = stat[t] \ {Kind[e]} /\ pend'[t] = result /\ dly'[t] = 0
        /\ eptr'[t] = IF multi[t] THEN e ELSE eptr[t]
        /\ t \in ready' <=> t \in ready \/ "suspend" \notin stat[t]
    BY <1>0, <1>1, RdyTask
  <2>3. pend[t] = "ok" /\ eptr[t] = f => t \in wait[f]
    BY <1>1, <2>1 DEF Blocks, Block, CallMatches, None
  <2>4. evs'[t] = evs[t] /\ None # f
    BY DEF Goes, None
  <2> QED BY <1>1, <2>1, <2>2, <2>3, <2>4 DEF Handed
<1>2. ASSUME NEW t \in Task \ W
      PROVE  t \in Handed(f)' <=> t \in Handed(f)
  <2>1. pend'[t] = pend[t] /\ eptr'[t] = eptr[t] /\ (t \in wait'[f] <=> t \in wait[f])
    BY <1>0, <1>2, RdyOther
  <2> QED BY <2>1 DEF Handed, Goes
<1>3. Handed(f) \subseteq Task /\ Handed(f)' \subseteq Task
  BY DEF Handed
<1> QED BY <1>0, <1>1, <1>2, <1>3

\* The whole step, given what the service does to the counts.
LEMMA RdyStep ==
    ASSUME IInv, NEW e \in Event, NEW W \in SUBSET wait[e],
           NEW result \in {"ok", "abort"}, OS_EventTaskRdy(e, W, result),
           MayPost, Sched \/ (W = {} /\ UNCHANGED call), UNCHANGED <<nest, cur>>,
           valid' = valid \/ (valid' = valid \ {e} /\ W = wait[e]),
           cnt' \in [Event -> Nat], balance' \in [Event -> Int],
           \A f \in Event :
              /\ cnt'[f] \in {0, cnt[f]}
              /\ balance'[f] - cnt'[f] = balance[f] - cnt[f]
                   + (IF f = e /\ result = "ok" THEN Cardinality(W) ELSE 0)
    PROVE  IInv'
<1> USE DEF IInv
<1>0. W \in SUBSET Task
  BY DEF TypeOK
<1>1. Goes
  BY SchedGoes, SameGoes
<1>2. TypeOK'
  <2>1. ASSUME NEW f \in Event PROVE cnt'[f] <= Limit[f]
    <3>1. cnt[f] <= Limit[f] /\ Limit[f] \in Nat /\ cnt'[f] \in {0, cnt[f]}
      BY DEF TypeOK
    <3> QED BY <3>1
  <2>2. valid' \subseteq Event
    BY DEF TypeOK
  <2> QED BY <1>0, <1>1, <2>1, <2>2, RdyType DEF TypeOK, Goes, nest
<1>3. NoTokenWaits'
  <2> SUFFICES ASSUME NEW f \in Event, cnt'[f] > 0 PROVE wait'[f] = {}
    BY DEF NoTokenWaits
  <2>1. wait[f] = {}
    BY DEF NoTokenWaits
  <2>2. wait'[f] \subseteq wait[f]
    BY DEF OS_EventTaskRdy
  <2> QED BY <2>1, <2>2
<1>4. Blocks'
  BY <1>1, RdyBlocks
<1>5. LockHeld'
  BY <1>1 DEF LockHeld, nest, Goes
<1>6. HighestRuns'
  <2>1. CASE Sched
    BY <2>1 DEF HighestRuns, Sched, nest, MayPost, InTask, InIsr, TypeOK
  <2>2. CASE W = {} /\ UNCHANGED call
    <3>1. ready' = ready
      BY <2>2 DEF OS_EventTaskRdy
    <3> QED BY <2>2, <3>1 DEF HighestRuns, HighestReady, nest, call
  <2> QED BY <2>1, <2>2
<1>7. TokensConserved'
  <2>1. SUFFICES ASSUME NEW f \in Event
                 PROVE  balance'[f] = cnt'[f] + Cardinality(Handed(f)')
    BY DEF TokensConserved
  <2>2. balance[f] = cnt[f] + Cardinality(Handed(f))
    BY DEF TokensConserved
  <2>3. /\ IsFiniteSet(Handed(f)) /\ Cardinality(Handed(f)) \in Nat
        /\ IsFiniteSet(W) /\ Cardinality(W) \in Nat
    BY <1>0, TasksFinite DEF Handed
  <2>4. /\ cnt[f] \in Nat /\ cnt'[f] \in Nat /\ balance[f] \in Int /\ balance'[f] \in Int
        /\ balance'[f] - cnt'[f] = balance[f] - cnt[f]
                   + (IF f = e /\ result = "ok" THEN Cardinality(W) ELSE 0)
    BY DEF TypeOK
  <2>5. CASE f = e /\ result = "ok"
    <3>1. Handed(f)' = Handed(f) \cup W /\ Handed(f) \cap W = {}
      BY <1>1, <2>5, RdyHanded
    <3>2. Cardinality({}) = 0
      BY FS_EmptySet
    <3>3. Cardinality(Handed(f) \cup W) = Cardinality(Handed(f)) + Cardinality(W)
      <4>1. Cardinality(Handed(f) \cup W) =
               Cardinality(Handed(f)) + Cardinality(W) - Cardinality(Handed(f) \cap W)
        BY <2>3, FS_Union
      <4>2. Cardinality(Handed(f) \cap W) = 0
        BY <3>1, <3>2
      <4> QED BY <2>3, <4>1, <4>2
    <3>4. Cardinality(Handed(f)') = Cardinality(Handed(f)) + Cardinality(W)
      BY <3>1, <3>3
    <3> QED BY <2>2, <2>3, <2>4, <2>5, <3>4
  <2>6. CASE ~(f = e /\ result = "ok")
    <3>1. Handed(f)' = Handed(f)
      BY <1>1, <2>6, RdyHanded
    <3> QED BY <2>2, <2>3, <2>4, <2>6, <3>1
  <2> QED BY <2>5, <2>6
<1> QED BY <1>2, <1>3, <1>4, <1>5, <1>6, <1>7

LEMMA PostStep == ASSUME IInv, NEW e \in Event, Post(e) PROVE IInv'
<1>1. CASE wait[e] = {}
  BY <1>1, StoreStep DEF Post
<1>2. CASE wait[e] # {}
  <2>1. wait[e] \subseteq Task /\ cnt \in [Event -> Nat] /\ balance \in [Event -> Int]
    BY DEF IInv, TypeOK
  <2>2. Min(wait[e]) \in wait[e]
    BY <1>2, <2>1, MinOf DEF Task
  <2> DEFINE W == {Min(wait[e])}
  <2>3. /\ OS_EventTaskRdy(e, W, "ok") /\ Sched /\ MayPost
        /\ UNCHANGED <<nest, cur>> /\ valid' = valid /\ cnt' = cnt
        /\ balance' = [balance EXCEPT ![e] = @ + 1]
    BY <1>2 DEF Post
  <2>4. Cardinality(W) = 1 /\ W \in SUBSET wait[e]
    BY <2>2, FS_Singleton
  <2>5. ASSUME NEW f \in Event
        PROVE  /\ cnt'[f] \in {0, cnt[f]}
               /\ balance'[f] - cnt'[f] = balance[f] - cnt[f]
                     + (IF f = e /\ "ok" = "ok" THEN Cardinality(W) ELSE 0)
    BY <2>1, <2>3, <2>4
  <2>6. cnt' \in [Event -> Nat] /\ balance' \in [Event -> Int]
    BY <2>1, <2>3
  <2> HIDE DEF W
  <2> QED BY <2>3, <2>4, <2>5, <2>6, RdyStep
<1> QED BY <1>1, <1>2

LEMMA PostAllStep == ASSUME IInv, NEW e \in Event, PostAll(e) PROVE IInv'
<1>1. wait[e] \in SUBSET Task /\ cnt \in [Event -> Nat] /\ balance \in [Event -> Int]
  BY DEF IInv, TypeOK
<1>2. Cardinality(wait[e]) \in Nat
  BY <1>1, TasksFinite
<1>3. /\ OS_EventTaskRdy(e, wait[e], "ok") /\ Sched /\ MayPost
      /\ UNCHANGED <<nest, cur>> /\ valid' = valid /\ cnt' = cnt
      /\ balance' = [balance EXCEPT ![e] = @ + Cardinality(wait[e])]
  BY DEF PostAll
<1>4. ASSUME NEW f \in Event
      PROVE  /\ cnt'[f] \in {0, cnt[f]}
             /\ balance'[f] - cnt'[f] = balance[f] - cnt[f]
                   + (IF f = e /\ "ok" = "ok" THEN Cardinality(wait[e]) ELSE 0)
  BY <1>1, <1>2, <1>3
<1>5. cnt' \in [Event -> Nat] /\ balance' \in [Event -> Int]
  BY <1>1, <1>2, <1>3
<1> QED BY <1>3, <1>4, <1>5, RdyStep

LEMMA OSQPendAbortStep ==
    ASSUME IInv, NEW e \in Event,
           NEW W \in {wait[e], {Min(wait[e] \cup {Idle})}}, OSQPendAbort(e, W)
    PROVE  IInv'
<1>1. wait[e] \in SUBSET Task /\ cnt \in [Event -> Nat] /\ balance \in [Event -> Int]
  BY DEF IInv, TypeOK
<1>2. W \in SUBSET wait[e]
  <2>1. PICK t \in wait[e] : TRUE
    BY DEF OSQPendAbort
  <2>2. wait[e] \cup {Idle} \subseteq Nat
    BY <1>1 DEF Task, Idle
  <2>3. Min(wait[e] \cup {Idle}) \in wait[e] \cup {Idle} /\ Min(wait[e] \cup {Idle}) <= t
    BY <2>2, MinOf
  <2>4. t <= N /\ Idle = N + 1 /\ t \in Nat
    BY <1>1 DEF Task, Idle
  <2> QED BY <2>3, <2>4
<1>3. /\ OS_EventTaskRdy(e, W, "abort") /\ Sched /\ MayPost
      /\ UNCHANGED <<nest, cur>> /\ valid' = valid /\ cnt' = cnt /\ balance' = balance
  BY DEF OSQPendAbort
<1>4. ASSUME NEW f \in Event
      PROVE  /\ cnt'[f] \in {0, cnt[f]}
             /\ balance'[f] - cnt'[f] = balance[f] - cnt[f]
                   + (IF f = e /\ "abort" = "ok" THEN Cardinality(W) ELSE 0)
  BY <1>1, <1>3
<1> QED BY <1>1, <1>2, <1>3, <1>4, RdyStep

LEMMA DelStep == ASSUME IInv, NEW e \in Event, Del(e) PROVE IInv'
<1>1. wait[e] \in SUBSET Task /\ cnt \in [Event -> Nat] /\ balance \in [Event -> Int]
  BY DEF IInv, TypeOK
<1>2. Cardinality(wait[e]) \in Nat
  BY <1>1, TasksFinite
<1>3. /\ OS_EventTaskRdy(e, wait[e], "ok") /\ MayPost
      /\ Sched \/ (wait[e] = {} /\ UNCHANGED call)
      /\ UNCHANGED <<nest, cur>> /\ valid' = valid \ {e} /\ cnt' = [cnt EXCEPT ![e] = 0]
      /\ balance' = [balance EXCEPT ![e] = @ - cnt[e] + Cardinality(wait[e])]
  BY DEF Del, MayPost
<1>4. ASSUME NEW f \in Event
      PROVE  /\ cnt'[f] \in {0, cnt[f]}
             /\ balance'[f] - cnt'[f] = balance[f] - cnt[f]
                   + (IF f = e /\ "ok" = "ok" THEN Cardinality(wait[e]) ELSE 0)
  BY <1>1, <1>2, <1>3
<1>5. cnt' \in [Event -> Nat] /\ balance' \in [Event -> Int]
  BY <1>1, <1>2, <1>3
<1> QED BY <1>3, <1>4, <1>5, RdyStep

-----------------------------------------------------------------------------
(***************************************************************************)
(* Steps that change the block of one task.                                *)
(***************************************************************************)
Untouched(t) ==
    /\ stat'[t] = stat[t] /\ pend'[t] = pend[t] /\ dly'[t] = dly[t]
    /\ eptr'[t] = eptr[t] /\ multi'[t] = multi[t]
    /\ evs'[t] = evs[t] /\ many'[t] = many[t] /\ pc'[t] \in {pc[t], "sched"}
    /\ t \in ready' <=> t \in ready
    /\ \A e \in Event : t \in wait'[e] <=> t \in wait[e]

LEMMA UntouchedBlock ==
    ASSUME TypeOK, NEW t \in Task, Block(t), Untouched(t), valid \subseteq valid'
    PROVE  Block(t)'
<1> USE DEF Untouched, Block
<1>1. ~multi[t] /\ evs[t] # {} => eptr[t] \in Event
  BY DEF CallMatches, TypeOK
<1>2. CallMatches(t)'
  BY <1>1 DEF CallMatches
<1>3. Listed(t)' /\ (t \notin ready => multi[t] \/ Waits(t))'
  BY DEF Listed, Waits
<1> QED BY <1>2, <1>3

LEMMA UntouchedHanded ==
    ASSUME NEW t \in Task, Untouched(t), NEW f \in Event
    PROVE  t \in Handed(f)' <=> t \in Handed(f)
  BY DEF Untouched, Handed

\* The invariant after such a step, from what is particular to it.
LEMMA OneTask ==
    ASSUME IInv, NEW t \in Task, \A u \in Task \ {t} : Untouched(u),
           TypeOK', NoTokenWaits', LockHeld', HighestRuns', Block(t)',
           valid \subseteq valid', cnt' = cnt, balance' = balance,
           \A f \in Event : t \in Handed(f)' <=> t \in Handed(f)
    PROVE  IInv'
<1>1. Blocks'
  BY UntouchedBlock DEF IInv, Blocks
<1>2. \A f \in Event : Handed(f)' = Handed(f)
  <2> TAKE f \in Event
  <2>1. \A u \in Task : u \in Handed(f)' <=> u \in Handed(f)
    BY UntouchedHanded
  <2>2. Handed(f) \subseteq Task /\ Handed(f)' \subseteq Task
    BY DEF Handed
  <2> QED BY <2>1, <2>2
<1>3. TokensConserved'
  BY <1>2 DEF IInv, TokensConserved
<1> QED BY <1>1, <1>3 DEF IInv

\* With the scheduler unlocked, a task that runs is ready, hence neither
\* suspended nor delayed.
LEMMA Runs ==
    ASSUME IInv, intNest = 0, lockNest = 0, cur \in Task, pc[cur] # "sched"
    PROVE  cur \in ready /\ "suspend" \notin stat[cur] /\ dly[cur] = 0
<1>1. cur = HighestReady /\ ready \subseteq Task
  BY DEF IInv, HighestRuns, TypeOK
<1>2. cur \in ready
  BY <1>1, HighestReadyType DEF Task, Idle
<1> QED BY <1>2 DEF IInv, Blocks, Block, CallMatches

LEMMA WaitStep ==
    ASSUME IInv, MayWait, NEW E \in SUBSET Event, E # {}, E \subseteq valid,
           \A e \in E : cnt[e] = 0, NEW any \in BOOLEAN,
           ~any => \E e \in Event : E = {e}, NEW n \in Timeout,
           OS_EventTaskWait(E, any, n), UNCHANGED <<nest, valid, cur, cnt, balance>>
    PROVE  IInv'
<1>1. intNest = 0 /\ lockNest = 0 /\ cur \in Task /\ pc[cur] = "run"
  BY DEF MayWait, InTask
<1>2. cur \in ready /\ "suspend" \notin stat[cur] /\ dly[cur] = 0
  BY <1>1, Runs
<1>3. evs[cur] = {} /\ (~multi[cur] => stat[cur] = {})
  BY <1>1, <1>2 DEF IInv, Blocks, Block, CallMatches
<1>4. \A e \in Event : cur \notin wait[e]
  BY <1>1, <1>3 DEF IInv, Blocks, Block, Listed
<1>5. {Kind[e] : e \in E} \subseteq PendAny
  BY DEF PendAny
<1>6. ~any => (CHOOSE e \in E : TRUE) \in E
  OBVIOUS
<1>7. TypeOK
  BY DEF IInv
<1>8. /\ stat'[cur] = stat[cur] \cup {Kind[e] : e \in E} \cup (IF any THEN {"multi"} ELSE {})
      /\ pend'[cur] = "ok" /\ dly'[cur] = n /\ multi'[cur] = (any \/ multi[cur]) /\ many'[cur] = any
      /\ eptr'[cur] = (IF any THEN None ELSE CHOOSE e \in E : TRUE)
      /\ evs'[cur] = E /\ pc'[cur] = "sched" /\ cur \notin ready'
  BY <1>1, <1>3, <1>7 DEF OS_EventTaskWait, TypeOK
<1>9. \A e \in Event : cur \in wait'[e] <=> e \in E
  BY <1>4 DEF OS_EventTaskWait
<1>10. TypeOK'
  <2>1. stat'[cur] \in SUBSET Bit
    BY <1>1, <1>5, <1>7, <1>8 DEF PendAny, Bit, TypeOK
  <2>2. eptr'[cur] \in Event \cup {None}
    BY <1>6, <1>8
  <2>3. stat' \in [Task -> SUBSET Bit] /\ eptr' \in [Task -> Event \cup {None}]
    BY <1>1, <1>7, <2>1, <2>2 DEF OS_EventTaskWait, TypeOK
  <2>4. /\ pend' \in [Task -> {"ok", "to", "abort"}] /\ dly' \in [Task -> Timeout]
        /\ multi' \in [Task -> BOOLEAN] /\ evs' \in [Task -> SUBSET Event]
        /\ many' \in [Task -> BOOLEAN]
        /\ pc' \in [Task -> {"run", "sched", "wake"}]
        /\ wait' \in [Event -> SUBSET Task] /\ ready' \subseteq Task
    BY <1>1, <1>7 DEF OS_EventTaskWait, TypeOK
  <2> QED BY <1>7, <2>3, <2>4 DEF TypeOK, nest
<1>11. \A u \in Task \ {cur} : Untouched(u)
  BY <1>7 DEF OS_EventTaskWait, TypeOK, Untouched
<1>12. NoTokenWaits'
  BY DEF IInv, NoTokenWaits, OS_EventTaskWait
<1>13. LockHeld' /\ HighestRuns'
  BY <1>1, <1>8 DEF LockHeld, HighestRuns, nest
<1>14. Block(cur)'
  <2>1. ~multi'[cur] => evs'[cur] = {eptr'[cur]} /\ eptr'[cur] \in Event
    BY <1>6, <1>8
  <2>2. \A e \in Event : cur \in wait'[e] => Kind[e] \in stat'[cur]
    BY <1>8, <1>9
  <2>3. ~multi'[cur] => stat'[cur] = {Kind[eptr'[cur]]}
    <3>1. ~multi'[cur] => ~any /\ stat[cur] = {} /\ E = {eptr'[cur]}
      BY <1>3, <1>8, <2>1
    <3>2. ~any => stat'[cur] = stat[cur] \cup {Kind[e] : e \in E}
      BY <1>8
    <3> QED BY <3>1, <3>2
  <2>4. \E e \in Event : cur \in wait'[e]
    BY <1>9
  <2>5. \A f \in Event : eptr'[cur] = f => cur \in wait'[f]
    BY <1>6, <1>8, <1>9 DEF None
  <2>6. (many'[cur] => multi'[cur]) /\ cur \notin ready' /\ pend'[cur] = "ok"
    BY <1>8
  <2>7. CallMatches(cur)'
    BY <1>8, <1>9, <2>1, <2>2, <2>3, <2>4, <2>5, <2>6 DEF CallMatches
  <2>8. Listed(cur)'
    BY <1>8, <1>9 DEF Listed
  <2>9. Waits(cur)'
    BY <2>2, <2>4 DEF Waits
  <2> QED BY <2>7, <2>8, <2>9 DEF Block
<1>15. \A f \in Event : cur \notin Handed(f)' /\ cur \notin Handed(f)
  BY <1>3, <1>8, <1>9, <1>6 DEF Handed, None
<1> QED BY <1>1, <1>10, <1>11, <1>12, <1>13, <1>14, <1>15, OneTask

LEMMA PendStep ==
    ASSUME IInv, NEW e \in Event, NEW n \in Timeout, Pend(e, n)
    PROVE  IInv'
<1>1. CASE cnt[e] > 0 /\ Take({e}) /\ UNCHANGED <<tcb, call>>
  BY <1>1, TakeStep DEF Pend
<1>2. CASE cnt[e] = 0 /\ OS_EventTaskWait({e}, FALSE, n) /\ UNCHANGED <<cnt, balance>>
  <2>1. {e} \subseteq valid /\ {e} # {} /\ (\A f \in {e} : cnt[f] = 0) /\ {e} \in SUBSET Event
    BY <1>2 DEF Pend
  <2> QED BY <1>2, <2>1, WaitStep DEF Pend
<1> QED BY <1>1, <1>2 DEF Pend

LEMMA OSEventPendMultiStep ==
    ASSUME IInv, NEW E \in Sets, NEW n \in Timeout, OSEventPendMulti(E, n)
    PROVE  IInv'
<1> DEFINE full == {e \in E : cnt[e] > 0}
<1>1. CASE full # {} /\ Take(full) /\ UNCHANGED <<tcb, call>>
  <2>1. full \in SUBSET Event /\ \A e \in full : cnt[e] > 0
    BY DEF Sets
  <2> HIDE DEF full
  <2> QED BY <1>1, <2>1, TakeStep DEF OSEventPendMulti
<1>2. CASE full = {} /\ OS_EventTaskWait(E, TRUE, n) /\ UNCHANGED <<cnt, balance>>
  <2>1. \A e \in E : cnt[e] = 0
    BY <1>2 DEF IInv, TypeOK, Sets
  <2>2. MayWait /\ E \subseteq valid /\ UNCHANGED <<nest, valid, cur, cnt, balance>>
    BY <1>2 DEF OSEventPendMulti
  <2>3. E \in SUBSET Event /\ E # {} /\ TRUE \in BOOLEAN /\ (~TRUE => \E e \in Event : E = {e})
    BY DEF Sets
  <2> HIDE DEF full
  <2> QED BY <1>2, <2>1, <2>2, <2>3, WaitStep
<1> QED BY <1>1, <1>2 DEF OSEventPendMulti

LEMMA WakeStep == ASSUME IInv, Wake PROVE IInv'
<1>1. intNest = 0 /\ cur \in Task /\ pc[cur] = "wake" /\ TypeOK
  BY DEF Wake, IInv
<1>2. evs[cur] # {} /\ Block(cur) /\ lockNest = 0
  BY <1>1 DEF IInv, LockHeld, Blocks, Block, CallMatches, TypeOK
<1>3. cur \in ready /\ "suspend" \notin stat[cur] /\ dly[cur] = 0
  BY <1>1, <1>2, Runs
<1>4. ASSUME NEW e \in Event, cur \in wait[e]
      PROVE  pend[cur] = "to" /\ e \in evs[cur]
  BY <1>1, <1>2, <1>3, <1>4 DEF Block, CallMatches, Listed, TypeOK
<1>5. \A e \in Event : cur \notin wait'[e]
  BY <1>1, <1>4 DEF Wake, Leave, TypeOK
<1>6. /\ stat'[cur] = {} \/ (multi'[cur] /\ stat'[cur] = stat[cur])
      /\ evs'[cur] = {} /\ ~many'[cur] /\ pc'[cur] = "run"
      /\ cur \in ready' /\ dly'[cur] = 0
  <2>1. EventTypeError => multi[cur]
    BY <1>1, <1>2 DEF EventTypeError, Block, CallMatches
  <2>2. stat'[cur] = {} \/ (multi'[cur] /\ stat'[cur] = stat[cur])
    BY <1>1, <2>1 DEF Wake, TaskStat, TypeOK
  <2>3. evs'[cur] = {} /\ ~many'[cur] /\ pc'[cur] = "run" /\ cur \in ready' /\ dly'[cur] = 0
    BY <1>1, <1>3 DEF Wake, Return, TypeOK
  <2> QED BY <2>2, <2>3
<1>7. wait' \in [Event -> SUBSET Task] /\ \A e \in Event : wait'[e] \subseteq wait[e]
  BY <1>1 DEF Wake, Leave, TypeOK
<1>8. ASSUME NEW e \in Event
      PROVE  /\ balance'[e] \in Int
             /\ balance'[e] = IF pend[cur] = "ok" /\ eptr[cur] = e
                              THEN balance[e] - 1 ELSE balance[e]
  BY <1>1 DEF Wake, Return, TypeOK, None
<1>9. TypeOK'
  <2>1. balance' \in [Event -> Int]
    BY <1>1, <1>8 DEF Wake, Return, TypeOK
  <2> QED BY <1>1, <1>7, <2>1 DEF Wake, TaskStat, Return, TypeOK, nest
<1>10. \A u \in Task \ {cur} : Untouched(u)
  <2> TAKE u \in Task \ {cur}
  <2>1. \A e \in Event : u \in wait'[e] <=> u \in wait[e]
    BY <1>1 DEF Wake, Leave, TypeOK
  <2> QED BY <1>1, <2>1 DEF Wake, TaskStat, Return, TypeOK, Untouched
<1>11. NoTokenWaits'
  BY <1>7 DEF IInv, NoTokenWaits, Wake
<1>12. LockHeld' /\ HighestRuns'
  BY <1>1, <1>2 DEF IInv, LockHeld, HighestRuns, HighestReady, Wake, nest
<1>13. Block(cur)'
  <2>1. "suspend" \notin stat'[cur]
    BY <1>3, <1>6
  <2>2. ~multi'[cur] => stat'[cur] \subseteq {"suspend"}
    BY <1>6
  <2>3. CallMatches(cur)'
    BY <1>5, <1>6, <2>1, <2>2 DEF CallMatches, Wake
  <2> QED BY <1>5, <1>6, <2>3 DEF Block, Listed, Wake
<1>14. Blocks'
  BY <1>10, <1>13, UntouchedBlock DEF IInv, Blocks, Wake
<1>15. TokensConserved'
  <2> SUFFICES ASSUME NEW e \in Event
               PROVE  balance'[e] = cnt'[e] + Cardinality(Handed(e)')
    BY DEF TokensConserved
  <2>1. Handed(e) \subseteq Task /\ Handed(e)' \subseteq Task
    BY DEF Handed
  <2>2. cur \notin Handed(e)'
    BY <1>6 DEF Handed
  <2>3. cur \in Handed(e) <=> pend[cur] = "ok" /\ eptr[cur] = e
    BY <1>1, <1>2, <1>4 DEF Handed
  <2>4. Handed(e)' = Handed(e) \ {cur}
    BY <1>1, <1>10, <2>1, <2>2, UntouchedHanded
  <2>5. /\ IsFiniteSet(Handed(e)) /\ Cardinality(Handed(e)) \in Nat
        /\ balance[e] = cnt[e] + Cardinality(Handed(e))
        /\ cnt[e] \in Nat /\ cnt'[e] = cnt[e]
    BY <1>1, <2>1, TasksFinite DEF IInv, TokensConserved, TypeOK, Wake
  <2>6. Cardinality(Handed(e) \ {cur}) =
           IF cur \in Handed(e) THEN Cardinality(Handed(e)) - 1 ELSE Cardinality(Handed(e))
    BY <2>5, FS_RemoveElement
  <2> QED BY <1>8, <2>3, <2>4, <2>5, <2>6
<1> QED BY <1>9, <1>11, <1>12, <1>14, <1>15 DEF IInv

\* A service that leaves HighestRuns to OS_Sched or to the end of the interrupt.
LEMMA SchedHighest ==
    ASSUME TypeOK, MayPost, Sched, UNCHANGED <<intNest, lockNest, cur>>
    PROVE  HighestRuns'
  BY DEF TypeOK, MayPost, InTask, InIsr, Sched, HighestRuns

LEMMA SchedPlaces ==
    ASSUME TypeOK, MayPost, Sched \/ UNCHANGED call
    PROVE  \A u \in Task : /\ evs'[u] = evs[u] /\ many'[u] = many[u]
                        /\ pc'[u] \in {pc[u], "sched"}
  BY DEF TypeOK, MayPost, InTask, InIsr, Sched, call

\* The end of a delay or a timeout, wherever it is found: if it readies the
\* task, OS_Sched follows, here or at the end of the interrupt.
LEMMA ExpireStep ==
    ASSUME IInv, NEW t \in Task, dly[t] > 0, Expire(t), MayPost,
           Sched \/ ("suspend" \in stat[t] /\ UNCHANGED call),
           UNCHANGED <<eptr, multi, wait, lockNest, intNest, valid, cnt, cur, balance>>,
           tickLeft' \subseteq Task
    PROVE  IInv'
<1>1. TypeOK /\ Block(t) /\ Goes
  BY SchedGoes, SameGoes DEF IInv, Blocks
<1>2. /\ stat'[t] = stat[t] \ PendAny /\ dly'[t] = 0
      /\ pend'[t] = IF TimedOut(t) THEN "to" ELSE "ok"
      /\ t \in ready' <=> t \in ready \/ "suspend" \notin stat[t]
      /\ evs'[t] = evs[t] /\ eptr'[t] = eptr[t] /\ multi'[t] = multi[t]
      /\ many'[t] = many[t]
  BY <1>1 DEF Expire, TypeOK, Goes
<1>3. TypeOK'
  BY <1>1 DEF Expire, TypeOK, Goes, Timeout
<1>4. \A u \in Task \ {t} : Untouched(u)
  <2>1. \A u \in Task : /\ evs'[u] = evs[u] /\ many'[u] = many[u]
                        /\ pc'[u] \in {pc[u], "sched"}
    BY <1>1, SchedPlaces
  <2> QED BY <1>1, <2>1 DEF Expire, TypeOK, Untouched
<1>5. NoTokenWaits' /\ LockHeld'
  BY <1>1 DEF IInv, NoTokenWaits, LockHeld, Goes
<1>6. HighestRuns'
  <2>1. CASE Sched
    BY <1>1, <2>1, SchedHighest
  <2>2. CASE "suspend" \in stat[t] /\ UNCHANGED call
    BY <2>2 DEF IInv, HighestRuns, HighestReady, Expire, call
  <2> QED BY <2>1, <2>2
\* A task whose timeout runs is in a waiting list, and has its bit.
<1>7. evs[t] # {} => pend'[t] = "to" /\ pend[t] = "ok" /\ \E e \in Event : t \in wait[e]
  <2> SUFFICES ASSUME evs[t] # {} PROVE pend'[t] = "to" /\ pend[t] = "ok" /\ \E e \in Event : t \in wait[e]
    OBVIOUS
  <2>1. pend[t] = "ok" /\ \E e \in Event : t \in wait[e]
    BY <1>1 DEF Block, CallMatches
  <2>2. \E e \in Event : Kind[e] \in stat[t]
    BY <1>1, <2>1 DEF Block, CallMatches
  <2>3. \A e \in Event : Kind[e] \in PendAny
    BY DEF PendAny
  <2> QED BY <1>2, <2>1, <2>2, <2>3 DEF TimedOut
<1>8. Block(t)'
  <2>1. \A e \in Event : Kind[e] \in PendAny /\ Kind[e] # "suspend"
    BY DEF PendAny
  <2>2. "suspend" \in stat[t] => "suspend" \in stat'[t]
    BY <1>2 DEF PendAny
  <2>3. (pc'[t] = "run" => evs[t] = {}) /\ (pc'[t] = "wake" => evs[t] # {})
    BY <1>1 DEF Goes
  <2>4. \A e \in Event : t \in wait[e] => evs[t] # {}
    BY <1>1 DEF Block, Listed
  <2>5. CallMatches(t)'
    BY <1>1, <1>2, <1>7, <2>1, <2>3, <2>4 DEF Block, CallMatches, TypeOK
  <2>6. Listed(t)'
    BY <1>1, <1>2, <1>7, <2>4 DEF Block, Listed
  <2>7. (t \notin ready => multi[t] \/ Waits(t))'
    BY <1>2, <2>2 DEF Waits
  <2> QED BY <2>5, <2>6, <2>7 DEF Block
<1>9. ASSUME NEW f \in Event PROVE t \in Handed(f)' <=> t \in Handed(f)
  <2>1. CASE evs[t] = {}
    BY <1>2, <2>1 DEF Handed
  <2>2. CASE evs[t] # {}
    <3>1. t \notin Handed(f)'
      BY <1>7, <2>2 DEF Handed
    <3>2. PICK e \in Event : t \in wait[e]
      BY <1>7, <2>2
    <3>3. eptr[t] = f => t \in wait[f]
      BY <1>1, <3>2 DEF Block, CallMatches, None
    <3> QED BY <3>1, <3>3 DEF Handed
  <2> QED BY <2>1, <2>2
<1> QED BY <1>3, <1>4, <1>5, <1>6, <1>8, <1>9, OneTask

LEMMA OSTimeDlyResumeStep ==
    ASSUME IInv, NEW t \in Task, OSTimeDlyResume(t)
    PROVE  IInv'
<1>1. tickLeft' \subseteq Task
  BY DEF IInv, TypeOK, OSTimeDlyResume, nest
<1> QED BY <1>1, ExpireStep DEF OSTimeDlyResume, nest

LEMMA CountDownStep ==
    ASSUME IInv, NEW t \in Task, dly[t] # 1, UNCHANGED <<stat, pend, ready>>,
           dly[t] = 0 => dly' = dly, dly[t] > 1 => dly' = [dly EXCEPT ![t] = @ - 1],
           UNCHANGED <<eptr, multi, wait, call, lockNest, intNest, valid, cnt, cur, balance>>,
           tickLeft' \subseteq Task
    PROVE  IInv'
<1>0. TypeOK /\ Block(t) /\ dly \in [Task -> 0 .. MaxDly]
  BY DEF IInv, Blocks, TypeOK, Timeout
<1>1. /\ dly' \in [Task -> Timeout]
      /\ dly'[t] > 0 <=> dly[t] > 0
      /\ dly'[t] = 0 <=> dly[t] = 0
      /\ \A u \in Task \ {t} : dly'[u] = dly[u]
  <2>1. CASE dly[t] = 0
    BY <1>0, <2>1 DEF Timeout
  <2>2. CASE dly[t] > 1
    <3>1. dly[t] - 1 \in 0 .. MaxDly /\ dly[t] - 1 > 0
      BY <1>0, <2>2
    <3> QED BY <1>0, <2>2, <3>1 DEF Timeout
  <2> QED BY <1>0, <2>1, <2>2
<1>2. TypeOK'
  BY <1>0, <1>1 DEF TypeOK, call
<1>3. NoTokenWaits' /\ LockHeld' /\ HighestRuns'
  BY DEF IInv, NoTokenWaits, LockHeld, HighestRuns, HighestReady, call
<1>4. \A u \in Task \ {t} : Untouched(u)
  BY <1>1 DEF Untouched, call
<1>5. CallMatches(t)' /\ Listed(t)'
  BY <1>0, <1>1 DEF Block, CallMatches, Listed, call
<1>6. (t \notin ready => multi[t] \/ Waits(t))'
  BY <1>0, <1>1 DEF Block, Waits
<1>7. \A f \in Event : t \in Handed(f)' <=> t \in Handed(f)
  BY DEF Handed, call
<1> QED BY <1>2, <1>3, <1>4, <1>5, <1>6, <1>7, OneTask DEF Block

LEMMA TickTaskStep == ASSUME IInv, TickTask PROVE IInv'
<1>1. TypeOK /\ InIsr /\ MayPost
  BY DEF IInv, TickTask, MayPost
<1>2. PICK t \in Task : t = Max(tickLeft)
  BY <1>1, MaxOf DEF TypeOK, TickTask
<1>3. tickLeft' \subseteq Task
  BY <1>1 DEF TypeOK, TickTask
<1>4. Sched
  BY <1>1 DEF Sched, TickTask
<1>5. UNCHANGED <<eptr, multi, wait, call, lockNest, intNest, valid, cnt, cur, balance>>
  BY DEF TickTask
<1>6. CASE dly[t] = 0 /\ UNCHANGED <<dly, stat, pend, ready>>
  BY <1>3, <1>5, <1>6, CountDownStep
<1>7. CASE dly[t] > 1 /\ dly' = [dly EXCEPT ![t] = @ - 1] /\ UNCHANGED <<stat, pend, ready>>
  <2>1. dly[t] # 1 /\ dly[t] # 0 /\ UNCHANGED <<stat, pend, ready>>
    BY <1>7
  <2> QED BY <1>3, <1>5, <1>7, <2>1, CountDownStep
<1>8. CASE dly[t] = 1 /\ Expire(t)
  BY <1>1, <1>3, <1>4, <1>5, <1>8, ExpireStep
<1> QED BY <1>2, <1>6, <1>7, <1>8 DEF TickTask

LEMMA OSTimeDlyStep ==
    ASSUME IInv, NEW n \in Timeout \ {0}, OSTimeDly(n)
    PROVE  IInv'
<1>1. TypeOK /\ MayPost /\ intNest = 0 /\ lockNest = 0 /\ cur \in Task /\ pc[cur] = "run" /\ Block(cur)
  BY DEF IInv, OSTimeDly, MayWait, MayPost, InTask, Blocks
<1>2. Goes /\ UNCHANGED <<intNest, lockNest, cur>>
  BY <1>1, SchedGoes DEF IInv, OSTimeDly, nest
<1>3. evs[cur] = {} /\ n > 0
  BY <1>1 DEF Block, CallMatches, Timeout
<1>4. /\ dly'[cur] = n /\ cur \notin ready' /\ evs'[cur] = {} /\ multi'[cur] = multi[cur]
      /\ stat'[cur] = stat[cur] /\ wait' = wait
  BY <1>1, <1>2, <1>3 DEF OSTimeDly, TypeOK, Goes
<1>5. TypeOK'
  BY <1>1, <1>2 DEF OSTimeDly, TypeOK, Goes, nest
<1>6. NoTokenWaits' /\ LockHeld'
  BY <1>1, <1>2 DEF IInv, NoTokenWaits, LockHeld, OSTimeDly
<1>7. HighestRuns'
  BY <1>1, <1>2, SchedHighest DEF OSTimeDly
<1>8. \A u \in Task \ {cur} : Untouched(u)
  <2>1. \A u \in Task : /\ evs'[u] = evs[u] /\ many'[u] = many[u]
                        /\ pc'[u] \in {pc[u], "sched"}
    BY <1>1, SchedPlaces DEF OSTimeDly
  <2> QED BY <1>1, <2>1 DEF OSTimeDly, TypeOK, Untouched
<1>9. Block(cur)'
  <2>1. \A e \in Event : cur \notin wait[e]
    BY <1>1, <1>3 DEF Block, Listed
  <2>2. CallMatches(cur)'
    BY <1>1, <1>2, <1>3, <1>4, <2>1 DEF Block, CallMatches, Goes
  <2>3. Listed(cur)' /\ Waits(cur)'
    BY <1>2, <1>3, <1>4, <2>1 DEF Listed, Waits
  <2> QED BY <2>2, <2>3 DEF Block
<1>10. \A f \in Event : cur \notin Handed(f)' /\ cur \notin Handed(f)
  BY <1>3, <1>4 DEF Handed
<1> QED BY <1>1, <1>5, <1>6, <1>7, <1>8, <1>9, <1>10, OneTask DEF OSTimeDly

LEMMA OSTaskSuspendStep ==
    ASSUME IInv, NEW t \in Task, OSTaskSuspend(t)
    PROVE  IInv'
<1>1. TypeOK /\ MayPost /\ intNest = 0 /\ cur \in Task /\ pc[cur] = "run" /\ Block(t)
  BY DEF IInv, OSTaskSuspend, MayPost, InTask, Blocks
<1>2. /\ Goes /\ UNCHANGED <<intNest, lockNest, cur>> /\ (Sched \/ UNCHANGED call)
      /\ UNCHANGED <<pend, dly, eptr, multi, wait, tickLeft, valid, cnt, balance>>
  BY <1>1, SchedGoes, SameGoes DEF IInv, OSTaskSuspend, nest
<1>3. stat'[t] = stat[t] \cup {"suspend"} /\ t \notin ready' /\ evs'[t] = evs[t]
  BY <1>1, <1>2 DEF OSTaskSuspend, TypeOK, Goes
<1>4. TypeOK'
  BY <1>1, <1>2 DEF OSTaskSuspend, TypeOK, Goes, Bit
<1>5. NoTokenWaits' /\ LockHeld'
  BY <1>1, <1>2 DEF IInv, NoTokenWaits, LockHeld, Goes
<1>6. HighestRuns'
  <2>1. CASE t = cur
    BY <1>1, <1>2, <2>1, SchedHighest DEF OSTaskSuspend
  <2>2. CASE t # cur /\ lockNest = 0
    <3>1. cur = HighestReady /\ cur \in ready
      BY <1>1, <2>2, Runs DEF IInv, HighestRuns
    <3>2. \A u \in ready \cup {Idle} : cur <= u
      BY <1>1, <3>1, HighestReadyType DEF TypeOK
    <3>3. ready' \subseteq ready /\ cur \in ready' /\ ready' \cup {Idle} \subseteq Nat
      BY <1>1, <2>2, <3>1 DEF OSTaskSuspend, TypeOK, Task, Idle
    <3>4. /\ Min(ready' \cup {Idle}) \in ready' \cup {Idle}
          /\ Min(ready' \cup {Idle}) <= cur
      BY <3>3, MinOf
    <3>5. cur <= Min(ready' \cup {Idle})
      BY <3>2, <3>3, <3>4
    <3>6. cur = Min(ready' \cup {Idle})
      BY <3>3, <3>4, <3>5
    <3> QED BY <1>2, <3>6 DEF HighestRuns, HighestReady
  <2>3. CASE lockNest # 0
    BY <1>2, <2>3 DEF HighestRuns
  <2> QED BY <2>1, <2>2, <2>3
<1>7. \A u \in Task \ {t} : Untouched(u)
  <2>1. \A u \in Task : /\ evs'[u] = evs[u] /\ many'[u] = many[u]
                        /\ pc'[u] \in {pc[u], "sched"}
    BY <1>1, <1>2, SchedPlaces
  <2> QED BY <1>1, <1>2, <2>1 DEF OSTaskSuspend, TypeOK, Untouched
<1>8. Block(t)'
  <2>1. (pc'[t] = "run" => evs[t] = {}) /\ (pc'[t] = "wake" => evs[t] # {})
    BY <1>2 DEF Goes
  <2>2. \A e \in Event : Kind[e] # "suspend"
    OBVIOUS
  <2>3. ~multi[t] /\ evs[t] # {} => eptr[t] \in Event
    BY <1>1 DEF Block, CallMatches, TypeOK
  <2>4. CallMatches(t)'
    BY <1>1, <1>2, <1>3, <2>1, <2>2, <2>3 DEF Block, CallMatches, Goes
  <2>5. Listed(t)' /\ Waits(t)'
    BY <1>1, <1>2, <1>3 DEF Block, Listed, Waits
  <2> QED BY <2>4, <2>5 DEF Block
<1>9. \A f \in Event : t \in Handed(f)' <=> t \in Handed(f)
  BY <1>2, <1>3 DEF Handed
<1> QED BY <1>2, <1>4, <1>5, <1>6, <1>7, <1>8, <1>9, OneTask

LEMMA OSTaskResumeStep ==
    ASSUME IInv, NEW t \in Task, OSTaskResume(t)
    PROVE  IInv'
<1>1. TypeOK /\ MayPost /\ Block(t) /\ "suspend" \in stat[t]
  BY DEF IInv, OSTaskResume, Blocks
<1>2. /\ Goes /\ UNCHANGED <<intNest, lockNest, cur>> /\ (Sched \/ UNCHANGED call)
      /\ UNCHANGED <<pend, dly, eptr, multi, wait, tickLeft, valid, cnt, balance>>
  BY <1>1, SchedGoes, SameGoes DEF IInv, OSTaskResume, nest
<1>3. /\ stat'[t] = stat[t] \ {"suspend"} /\ evs'[t] = evs[t]
      /\ t \in ready' <=> stat'[t] = {} /\ dly[t] = 0
  BY <1>1, <1>2 DEF OSTaskResume, TypeOK, Goes, Block, CallMatches
<1>4. TypeOK'
  BY <1>1, <1>2 DEF OSTaskResume, TypeOK, Goes
<1>5. NoTokenWaits' /\ LockHeld'
  BY <1>1, <1>2 DEF IInv, NoTokenWaits, LockHeld, Goes
<1>6. HighestRuns'
  <2>1. CASE Sched
    BY <1>1, <1>2, <2>1, SchedHighest
  <2>2. CASE UNCHANGED <<ready, call>>
    BY <1>2, <2>2 DEF IInv, HighestRuns, HighestReady, call
  <2> QED BY <2>1, <2>2 DEF OSTaskResume
<1>7. \A u \in Task \ {t} : Untouched(u)
  <2>1. \A u \in Task : /\ evs'[u] = evs[u] /\ many'[u] = many[u]
                        /\ pc'[u] \in {pc[u], "sched"}
    BY <1>1, <1>2, SchedPlaces
  <2> QED BY <1>1, <1>2, <2>1 DEF OSTaskResume, TypeOK, Untouched
<1>8. Block(t)'
  <2>1. (pc'[t] = "run" => evs[t] = {}) /\ (pc'[t] = "wake" => evs[t] # {})
    BY <1>2 DEF Goes
  <2>2. \A e \in Event : Kind[e] # "suspend"
    OBVIOUS
  <2>3. ~multi[t] /\ evs[t] # {} => eptr[t] \in Event
    BY <1>1 DEF Block, CallMatches, TypeOK
  <2>4. t \notin ready
    BY <1>1 DEF Block, CallMatches
  <2>5. \A e \in Event : t \in wait[e] /\ pend[t] = "ok" => t \notin ready'
    BY <1>1, <1>3, <2>2 DEF Block, CallMatches
  <2>6. CallMatches(t)'
    BY <1>1, <1>2, <1>3, <2>1, <2>2, <2>3, <2>5 DEF Block, CallMatches, Goes
  <2>7. Listed(t)'
    BY <1>1, <1>2, <1>3 DEF Block, Listed
  <2>8. (t \notin ready => multi[t] \/ Waits(t))'
    <3> SUFFICES ASSUME t \notin ready', ~multi[t], dly[t] = 0 PROVE Waits(t)'
      BY <1>1, <1>2 DEF Waits, TypeOK, Timeout
    <3>1. stat'[t] # {}
      BY <1>3
    <3>2. evs[t] # {}
      BY <1>1, <1>3, <3>1 DEF Block, CallMatches
    <3>3. /\ stat[t] \subseteq {Kind[eptr[t]], "suspend"} /\ eptr[t] \in Event
          /\ Kind[eptr[t]] \in stat[t] => t \in wait[eptr[t]]
      BY <1>1, <3>2, <2>3 DEF Block, CallMatches
    <3>4. Kind[eptr[t]] \in stat'[t] /\ t \in wait[eptr[t]]
      BY <1>3, <3>1, <3>3, <2>2
    <3> QED BY <1>2, <3>3, <3>4 DEF Waits
  <2> QED BY <2>6, <2>7, <2>8 DEF Block
<1>9. \A f \in Event : t \in Handed(f)' <=> t \in Handed(f)
  BY <1>2, <1>3 DEF Handed
<1> QED BY <1>2, <1>4, <1>5, <1>6, <1>7, <1>8, <1>9, OneTask

\* The list of a new event is empty, and no task had been left in it.
LEMMA CreateStep == ASSUME IInv, NEW e \in Event, Create(e) PROVE IInv'
<1>1. TypeOK
  BY DEF IInv
<1>2. wait[e] = {}
  <2>1. ASSUME NEW t \in wait[e] PROVE FALSE
    <3>1. t \in Task /\ e \notin valid
      BY <1>1, <2>1 DEF TypeOK, Create
    <3>2. e \in evs[t] /\ evs[t] \subseteq valid
      BY <2>1, <3>1 DEF IInv, Blocks, Block, Listed
    <3> QED BY <3>1, <3>2
  <2> QED BY <2>1
<1>3. wait' = wait
  BY <1>1, <1>2 DEF TypeOK, Create
<1>4. UNCHANGED <<tcb, call, nest, cnt, cur, balance>> /\ valid' = valid \cup {e}
  BY <1>3 DEF Create, tcb
<1>5. TypeOK'
  BY <1>1, <1>4 DEF TypeOK, tcb, call, nest
<1>6. NoTokenWaits' /\ LockHeld' /\ HighestRuns'
  BY <1>4 DEF IInv, NoTokenWaits, LockHeld, HighestRuns, HighestReady, tcb, call, nest
<1>7. \A t \in Task : Untouched(t)
  BY <1>4 DEF Untouched, tcb, call
<1>8. Blocks'
  BY <1>1, <1>4, <1>7, UntouchedBlock DEF IInv, Blocks
<1>9. TokensConserved'
  BY <1>4, HandedSame DEF IInv, TokensConserved, call
<1> QED BY <1>5, <1>6, <1>8, <1>9 DEF IInv

-----------------------------------------------------------------------------
(***************************************************************************)
(* The theorems.                                                           *)
(***************************************************************************)
LEMMA NextIInv == IInv /\ [Next]_vars => IInv'
<1> SUFFICES ASSUME IInv, [Next]_vars PROVE IInv'
  OBVIOUS
<1>1. CASE TaskStep
  <2>1. CASE OS_Sched \/ Wake \/ OSSchedLock \/ OSSchedUnlock
    BY <2>1, SchedStep, WakeStep, LockStep
  <2>2. CASE \E e \in Event, n \in Timeout : Pend(e, n)
    BY <2>2, PendStep
  <2>3. CASE \E E \in Sets, n \in Timeout : OSEventPendMulti(E, n)
    BY <2>3, OSEventPendMultiStep
  <2>4. CASE \E n \in Timeout \ {0} : OSTimeDly(n)
    BY <2>4, OSTimeDlyStep
  <2>5. CASE \E t \in Task : OSTaskSuspend(t)
    BY <2>5, OSTaskSuspendStep
  <2>6. CASE \E e \in Event : Del(e) \/ Create(e)
    BY <2>6, DelStep, CreateStep
  <2> QED BY <1>1, <2>1, <2>2, <2>3, <2>4, <2>5, <2>6 DEF TaskStep
<1>2. CASE Service
  <2>1. ASSUME NEW e \in Event, Post(e) \/ PostAll(e) \/ OSQAccept(e) PROVE IInv'
    BY <2>1, PostStep, PostAllStep, OSQAcceptStep
  <2>2. ASSUME NEW e \in Event, NEW n \in 0 .. 1, SetCount(e, n) PROVE IInv'
    BY <2>2, SetCountStep
  <2>3. ASSUME NEW e \in Event, NEW W \in {wait[e], {Min(wait[e] \cup {Idle})}},
               OSQPendAbort(e, W)
        PROVE  IInv'
    BY <2>3, OSQPendAbortStep
  <2>4. ASSUME NEW t \in Task, OSTimeDlyResume(t) \/ OSTaskResume(t) PROVE IInv'
    BY <2>4, OSTimeDlyResumeStep, OSTaskResumeStep
  <2> QED BY <1>2, <2>1, <2>2, <2>3, <2>4 DEF Service
<1>3. CASE Interrupt
  BY <1>3, InterruptStep, TickTaskStep DEF Interrupt
<1>4. CASE UNCHANGED vars
  <2>1. UNCHANGED <<tcb, call, nest, valid, cnt, cur, balance>>
    BY <1>4 DEF vars
  <2>2. \A e \in Event : /\ cnt'[e] <= Limit[e]
                         /\ cnt'[e] > 0 => wait[e] = {}
                         /\ balance'[e] - cnt'[e] = balance[e] - cnt[e]
    BY <2>1 DEF IInv, TypeOK, NoTokenWaits
  <2>3. cnt' \in [Event -> Nat] /\ balance' \in [Event -> Int]
    BY <2>1 DEF IInv, TypeOK
  <2> QED BY <2>1, <2>2, <2>3, CountStep
<1> QED BY <1>1, <1>2, <1>3, <1>4 DEF Next

LEMMA Invariance == Spec => []IInv
<1> QED BY InitIInv, NextIInv, PTL DEF Spec

\* Event control blocks, waiting lists and task control blocks agree between any
\* two critical sections, whatever the interrupts do between those of a pend call.
THEOREM EventBlocksAreSound == Spec => []EventsSound
<1>1. IInv => EventsSound
  BY BlocksParts DEF IInv, EventsSound
<1> QED BY <1>1, Invariance, PTL

\* No token is lost to a timeout, an abort, a deletion or a suspension, and none
\* is handed to two tasks.
THEOREM NoTokenIsLost == Spec => []TokensConserved
<1>1. IInv => TokensConserved
  BY DEF IInv
<1> QED BY <1>1, Invariance, PTL

\* With the scheduler unlocked and no interrupt served, the task that runs its
\* own code is the highest one that is ready.
THEOREM SchedulerIsPreemptive == Spec => []HighestRuns
<1>1. IInv => HighestRuns
  BY DEF IInv
<1> QED BY <1>1, Invariance, PTL

\* A task that is not ready can still be readied, unless its OSTCBEventMultiPtr is
\* set: in OSEventPendMulti, and after it has returned OS_ERR_EVENT_TYPE.
THEOREM NoTaskIsForgotten == Spec => []NoLostWakeup
<1>1. IInv => NoLostWakeup
  BY BlocksParts DEF IInv
<1> QED BY <1>1, Invariance, PTL

\* The step of SuspensionHolds, action by action: OS_EventTaskRdy and Expire
\* take the bits of events, and the end of a pend call, which takes every bit,
\* finds no suspension, since the task that runs is ready.
LEMMA SuspensionStep ==
    ASSUME IInv, Next, NEW t \in Task, "suspend" \in stat[t], "suspend" \notin stat'[t]
    PROVE  OSTaskResume(t)
<1>1. TypeOK /\ stat \in [Task -> SUBSET Bit]
  BY DEF IInv, TypeOK
<1>2. stat' # stat
  OBVIOUS
<1>3. ASSUME NEW e \in Event, NEW W, NEW result, OS_EventTaskRdy(e, W, result) PROVE FALSE
  <2>1. stat'[t] = IF t \in W THEN stat[t] \ {Kind[e]} ELSE stat[t]
    BY <1>3 DEF OS_EventTaskRdy
  <2>2. Kind[e] # "suspend"
    OBVIOUS
  <2> QED BY <2>1, <2>2
<1>4. ASSUME NEW u \in Task, Expire(u) PROVE FALSE
  BY <1>1, <1>4 DEF Expire, PendAny
<1>5. ASSUME NEW E, NEW any, NEW n, OS_EventTaskWait(E, any, n) PROVE FALSE
  <2>1. stat' = [stat EXCEPT ![cur] = @ \cup {Kind[e] : e \in E}
                                        \cup (IF any THEN {"multi"} ELSE {})]
    BY <1>5 DEF OS_EventTaskWait
  <2> QED BY <1>1, <2>1
<1>6. CASE TaskStep
  <2>1. ~(OS_Sched \/ OSSchedLock \/ OSSchedUnlock)
    BY <1>2 DEF OS_Sched, OSSchedLock, OSSchedUnlock, tcb
  <2>2. ~Wake
    <3> SUFFICES ASSUME Wake PROVE FALSE
      OBVIOUS
    <3>1. intNest = 0 /\ cur \in Task /\ pc[cur] = "wake" /\ evs[cur] # {} /\ t = cur
      BY <1>1 DEF Wake, TaskStat, IInv, Blocks, Block, CallMatches
    <3>2. lockNest = 0
      BY <1>1, <3>1 DEF IInv, LockHeld, TypeOK
    <3> QED BY <3>1, <3>2, Runs
  <2>3. \A e \in Event, n \in Timeout : ~Pend(e, n)
    BY <1>2, <1>5 DEF Pend, tcb
  <2>4. \A E \in Sets, n \in Timeout : ~OSEventPendMulti(E, n)
    BY <1>2, <1>5 DEF OSEventPendMulti, tcb
  <2>5. \A n \in Timeout : ~OSTimeDly(n)
    BY <1>2 DEF OSTimeDly
  <2>6. \A u \in Task : ~OSTaskSuspend(u)
    BY <1>1 DEF OSTaskSuspend
  <2>7. \A e \in Event : ~Del(e) /\ ~Create(e)
    BY <1>2, <1>3 DEF Del, Create
  <2> QED BY <1>6, <2>1, <2>2, <2>3, <2>4, <2>5, <2>6, <2>7 DEF TaskStep
<1>7. CASE Service
  <2>1. \A e \in Event : ~Post(e) /\ ~PostAll(e) /\ ~OSQAccept(e)
    BY <1>2, <1>3 DEF Post, PostAll, OSQAccept, tcb
  <2>2. \A e \in Event, n \in 0 .. 1 : ~SetCount(e, n)
    BY <1>2 DEF SetCount, tcb
  <2>3. \A e \in Event : \A W \in {wait[e], {Min(wait[e] \cup {Idle})}} : ~OSQPendAbort(e, W)
    BY <1>3 DEF OSQPendAbort
  <2>4. \A u \in Task : ~OSTimeDlyResume(u)
    BY <1>4 DEF OSTimeDlyResume
  <2>5. \A u \in Task : OSTaskResume(u) => u = t
    BY <1>1 DEF OSTaskResume
  <2> QED BY <1>7, <2>1, <2>2, <2>3, <2>4, <2>5 DEF Service
<1>8. CASE Interrupt
  <2>1. ~(OSIntEnter \/ OSIntExit \/ TickStart)
    BY <1>2 DEF OSIntEnter, OSIntExit, TickStart, tcb
  <2>2. ~TickTask
    <3> SUFFICES ASSUME TickTask PROVE FALSE
      OBVIOUS
    <3>1. PICK u \in Task : u = Max(tickLeft)
      BY <1>1, MaxOf DEF TypeOK, TickTask
    <3> QED BY <1>2, <1>4, <3>1 DEF TickTask
  <2> QED BY <1>8, <2>1, <2>2 DEF Interrupt
<1> QED BY <1>6, <1>7, <1>8 DEF Next

\* Only OSTaskResume ends a suspension.
THEOREM OnlyResumeEndsSuspension == Spec => SuspensionHolds
<1>1. IInv /\ [Next]_vars =>
        [\A t \in Task : "suspend" \in stat[t] /\ "suspend" \notin stat'[t]
                            => OSTaskResume(t)]_vars
  BY SuspensionStep
<1> QED BY <1>1, Invariance, PTL DEF Spec, SuspensionHolds

-----------------------------------------------------------------------------
\* The timers of uC/OS-II: lists.

Ptr == Tmr \cup {Null}

\* next links exactly the timers of L, in a line that starts at the head h:
\* nothing leads back to h, no timer has two that lead to it, and no part of
\* L is closed and holds h but L itself.
ListOf(next, h, L) ==
    /\ L \subseteq Tmr
    /\ h \in L \cup {Null}
    /\ Closed(next, L)
    /\ \A t \in L : next[t] # Null => next[t] # h
    /\ \A t, u \in L : next[t] = next[u] /\ next[t] # Null => t = u
    /\ \A S \in SUBSET L :
        h \in S \cup {Null} /\ Closed(next, S) => S = L

LEMMA NullIsNoTmr == Null \notin Tmr
BY DEF Tmr, Null

\* No part of a list is closed and holds the head.
LEMMA ListLeast ==
    ASSUME NEW next, NEW h, NEW L, ListOf(next, h, L),
           NEW S, S \subseteq L, h \in S \cup {Null}, Closed(next, S)
    PROVE  S = L
BY DEF ListOf, Closed

\* A list is what Chain finds from its head.
LEMMA ListIsChain ==
    ASSUME NEW x, NEW h, NEW L, ListOf(x.next, h, L)
    PROVE  Chain(x, h) = L
<1> USE NullIsNoTmr
<1>1. ASSUME NEW t \in Chain(x, h) PROVE t \in L
  BY <1>1 DEF Chain, Closed, ListOf
<1>2. ASSUME NEW t \in L PROVE t \in Chain(x, h)
  <2>1. SUFFICES ASSUME NEW S \in SUBSET Tmr, Closed(x.next, S), h \in S \cup {Null}
                 PROVE  t \in S
    BY <1>2 DEF Chain, ListOf, Closed
  <2> DEFINE T == S \cap L
  <2>2. T \subseteq L /\ h \in T \cup {Null} /\ Closed(x.next, T)
    BY <2>1 DEF Closed, ListOf
  <2>3. T = L
    <3> HIDE DEF T
    <3> QED BY <2>2, ListLeast
  <2> QED BY <2>3
<1> QED BY <1>1, <1>2

\* A list does not notice what happens to the links of other timers.
LEMMA ListFrame ==
    ASSUME NEW next, NEW new, NEW h, NEW L, ListOf(next, h, L),
           \A t \in L : new[t] = next[t]
    PROVE  ListOf(new, h, L)
BY DEF ListOf, Closed

\* A timer is put in front of a list.
LEMMA ListPush ==
    ASSUME NEW next, NEW new, NEW h, NEW L, ListOf(next, h, L),
           NEW t \in Tmr, t \notin L, new[t] = h,
           \A u \in L : new[u] = next[u]
    PROVE  ListOf(new, t, L \cup {t})
<1> USE NullIsNoTmr
<1>1. ASSUME NEW S \in SUBSET (L \cup {t}), t \in S \cup {Null},
             Closed(new, S)
      PROVE  S = L \cup {t}
  <2>1. t \in S /\ h \in (S \ {t}) \cup {Null}
    BY <1>1 DEF ListOf, Closed
  <2>2. \A u \in S \ {t} : next[u] \in (S \ {t}) \cup {Null}
    BY <1>1 DEF ListOf, Closed
  <2>3. S \ {t} = L
    BY <2>1, <2>2 DEF ListOf, Closed
  <2> QED BY <2>1, <2>3
<1> QED BY <1>1 DEF ListOf, Closed

\* The first timer of a list is taken off: the rest is a list.
LEMMA ListPop ==
    ASSUME NEW next, NEW new, NEW h, NEW L, ListOf(next, h, L), h # Null,
           \A u \in L \ {h} : new[u] = next[u]
    PROVE  ListOf(new, next[h], L \ {h})
<1> USE NullIsNoTmr
<1>1. ASSUME NEW S \in SUBSET (L \ {h}), next[h] \in S \cup {Null},
             Closed(new, S)
      PROVE  S = L \ {h}
  <2> DEFINE T == S \cup {h}
  <2>1. Closed(next, T)
    BY <1>1 DEF Closed
  <2>2. T \subseteq L /\ h \in T \cup {Null}
    BY <1>1 DEF ListOf
  <2>3. T = L
    <3> HIDE DEF T
    <3> QED BY <2>1, <2>2, ListLeast
  <2> QED BY <2>3, <1>1
<1> QED BY <1>1 DEF ListOf, Closed

\* Each timer of a list but the first has one before it.
LEMMA ListBefore ==
    ASSUME NEW next, NEW h, NEW L, ListOf(next, h, L), NEW t \in L, t # h
    PROVE  \E b \in L \ {t} : next[b] = t
<1>1. CASE \A b \in L \ {t} : next[b] # t
  <2>1. \A b \in L \ {t} : next[b] \in (L \ {t}) \cup {Null}
    BY <1>1 DEF ListOf, Closed
  <2>2. L \ {t} = L
    BY <2>1 DEF ListOf, Closed
  <2> QED BY <2>2
<1> QED BY <1>1

\* A timer is taken out of the middle of a list.
LEMMA ListCut ==
    ASSUME NEW next, NEW new, NEW h, NEW L, ListOf(next, h, L),
           NEW t \in L, t # h, NEW b \in L \ {t}, next[b] = t,
           new[b] = next[t],
           \A u \in L \ {b, t} : new[u] = next[u]
    PROVE  ListOf(new, h, L \ {t})
<1> USE NullIsNoTmr
<1>1. next[t] # t /\ h # Null
  <2>1. h # Null
    <3>1. CASE h = Null
      <4> DEFINE T == {}
      <4>1. T \subseteq L /\ h \in T \cup {Null} /\ Closed(next, T)
        BY <3>1 DEF Closed
      <4>2. T = L
        <5> HIDE DEF T
        <5> QED BY <4>1, ListLeast
      <4> QED BY <4>2
    <3> QED BY <3>1
  <2>2. next[t] # t
    BY DEF ListOf, Closed
  <2> QED BY <2>1, <2>2
<1>2. ASSUME NEW S \in SUBSET (L \ {t}), h \in S \cup {Null},
             Closed(new, S)
      PROVE  S = L \ {t}
  <2>1. CASE b \in S
    <3> DEFINE T == S \cup {t}
    <3>1. Closed(next, T)
      BY <2>1, <1>2 DEF Closed
    <3>2. T \subseteq L /\ h \in T \cup {Null}
      BY <1>2
    <3>3. T = L
      <4> HIDE DEF T
      <4> QED BY <3>1, <3>2, ListLeast
    <3> QED BY <3>3, <1>2
  <2>2. CASE b \notin S
    <3>1. Closed(next, S)
      BY <2>2, <1>2 DEF Closed
    <3>2. S = L
      BY <3>1, <1>2 DEF ListOf
    <3> QED BY <3>2, <2>2
  <2> QED BY <2>1, <2>2
<1>3. /\ L \ {t} \subseteq Tmr
      /\ h \in (L \ {t}) \cup {Null}
  BY <1>1 DEF ListOf, Closed
<1>4. \A u \in L \ {t} : /\ new[u] \in (L \ {t}) \cup {Null}
                         /\ new[u] # Null => new[u] # h
  BY <1>1 DEF ListOf, Closed
<1>5. \A u, v \in L \ {t} : new[u] = new[v] /\ new[u] # Null => u = v
  BY <1>1 DEF ListOf, Closed
<1> QED BY <1>2, <1>3, <1>4, <1>5 DEF ListOf, Closed

-----------------------------------------------------------------------------
\* What the operations of os_tmr.c do, field by field.

Wait(x, t, type) ==
    IF type = "periodic" \/ x.dly[t] = 0 THEN x.period[t] ELSE x.dly[t]

LEMMA ModRange ==
    ASSUME NEW a \in Nat
    PROVE  a % Spokes \in 0 .. Spokes - 1 /\ a % M \in 0 .. M - 1
BY WheelAssumption

LEMMA SpokeRange ==
    ASSUME NEW x \in TmrTable, NEW t \in Tmr
    PROVE  Spoke(x, t) \in 0 .. Spokes - 1
<1>1. x.match[t] \in Nat
  BY WheelAssumption DEF TmrTable
<1> QED BY <1>1, ModRange DEF Spoke

Stored(g, f, p, v, t) == g = [Store(f, p, v) EXCEPT ![t] = Null]

LEMMA StoreBoth ==
    ASSUME NEW f \in [Tmr -> Ptr], NEW p \in Ptr, NEW v \in Ptr, NEW t \in Tmr,
           NEW g, Stored(g, f, p, v, t)
    PROVE  /\ g \in [Tmr -> Ptr]
           /\ \A u \in Tmr : g[u] =
                IF u = t THEN Null ELSE IF u = p THEN v ELSE f[u]
<1>1. PICK h : h = Store(f, p, v)
  OBVIOUS
<1>2. h \in [Tmr -> Ptr] /\ \A u \in Tmr : h[u] = IF u = p THEN v ELSE f[u]
  BY <1>1, NullIsNoTmr DEF Store, Ptr
<1>3. g = [h EXCEPT ![t] = Null] /\ Null \in Ptr
  BY <1>1 DEF Ptr, Stored
<1> QED BY <1>2, <1>3

\* A table and its columns.
IsTable(y, state, opt, delay, period, match, next, prev, first, free) ==
    y = [state |-> state, opt |-> opt, dly |-> delay, period |-> period, match |-> match,
         next |-> next, prev |-> prev, first |-> first, free |-> free]

LEMMA LinkFields ==
    ASSUME NEW x \in TmrTable, NEW t \in Tmr, NEW type, time \in 0 .. M - 1,
           NEW y, y = OSTmr_Link(x, t, type)
    PROVE  /\ y \in TmrTable
           /\ Spoke(y, t) \in 0 .. Spokes - 1
           /\ y.state[t] = "running"
           /\ y.match[t] = (time + Wait(x, t, type)) % M
           /\ y.next[t] = x.first[Spoke(y, t)]
           /\ y.prev[t] = Null
           /\ \A u \in Tmr \ {t} :
                /\ y.state[u] = x.state[u]
                /\ y.match[u] = x.match[u]
                /\ y.next[u] = x.next[u]
                /\ y.prev[u] = IF u = x.first[Spoke(y, t)] THEN t ELSE x.prev[u]
           /\ y.period = x.period /\ y.free = x.free
           /\ \A r \in 0 .. Spokes - 1 :
                y.first[r] = IF r = Spoke(y, t) THEN t ELSE x.first[r]
<1> DEFINE m == (time + Wait(x, t, type)) % M
           s == m % Spokes
<1>1. Wait(x, t, type) \in 0 .. MaxWait
  BY DEF Wait, TmrTable
<1>2. m \in 0 .. M - 1
  <2>1. time + Wait(x, t, type) \in Nat
    BY <1>1, WheelAssumption
  <2> QED BY ONLY <2>1, ModRange DEF m
<1>3. s \in 0 .. Spokes - 1
  <2>1. m \in Nat
    BY <1>2, WheelAssumption
  <2> HIDE DEF m
  <2> QED BY <2>1, ModRange
<1>4. y = [x EXCEPT !.state[t] = "running", !.match[t] = m,
                    !.next[t] = x.first[s],
                    !.prev = [Store(x.prev, x.first[s], t) EXCEPT ![t] = Null],
                    !.first[s] = t]
  BY DEF OSTmr_Link, Wait
<1>5. x.first[s] \in Ptr /\ x.prev \in [Tmr -> Ptr] /\ t \in Ptr
  BY <1>3 DEF TmrTable, Ptr
<1>6. PICK p : Stored(p, x.prev, x.first[s], t, t)
  BY DEF Stored
<1>7. p \in [Tmr -> Ptr] /\ \A u \in Tmr : p[u] =
        IF u = t THEN Null ELSE IF u = x.first[s] THEN t ELSE x.prev[u]
  BY <1>5, <1>6, StoreBoth
<1> HIDE DEF m, s
<1>8. PICK match, state, first, next :
        /\ match = [x.match EXCEPT ![t] = m]
        /\ state = [x.state EXCEPT ![t] = "running"]
        /\ first = [x.first EXCEPT ![s] = t]
        /\ next = [x.next EXCEPT ![t] = x.first[s]]
  OBVIOUS
<1>9. /\ match \in [Tmr -> 0 .. M - 1]
      /\ state \in [Tmr -> {"unused", "stopped", "completed", "running"}]
      /\ first \in [0 .. Spokes - 1 -> Ptr]
      /\ next \in [Tmr -> Ptr]
      /\ x.free \in Ptr
  BY <1>2, <1>3, <1>5, <1>8 DEF TmrTable, Ptr
<1>10. IsTable(y, state, x.opt, x.dly, x.period, match, next, p, first, x.free)
  BY <1>4, <1>6, <1>8 DEF TmrTable, IsTable, Stored
<1>11. /\ y \in TmrTable
       /\ y.match = match /\ y.state = state /\ y.first = first /\ y.next = next
       /\ y.opt = x.opt /\ y.dly = x.dly /\ y.period = x.period /\ y.free = x.free
       /\ y.prev = p
  <2>1. x.opt \in [Tmr -> {"none", "periodic"}] /\ x.dly \in [Tmr -> 0 .. MaxWait]
        /\ x.period \in [Tmr -> 0 .. MaxWait]
    BY DEF TmrTable
  <2> QED BY ONLY <2>1, <1>7, <1>9, <1>10 DEF TmrTable, IsTable, Ptr
<1>12. y.match[t] = m
  BY <1>8, <1>11 DEF TmrTable
<1>13. Spoke(y, t) = s
  BY <1>12 DEF Spoke, s
<1>14. /\ state[t] = "running" /\ match[t] = m /\ next[t] = x.first[s]
       /\ \A u \in Tmr \ {t} : /\ state[u] = x.state[u]
                               /\ match[u] = x.match[u]
                               /\ next[u] = x.next[u]
       /\ \A r \in 0 .. Spokes - 1 : first[r] = IF r = s THEN t ELSE x.first[r]
  BY <1>3, <1>8 DEF TmrTable
<1>15. m = (time + Wait(x, t, type)) % M
  BY DEF m
<1> QED BY ONLY <1>3, <1>7, <1>13, <1>11, <1>14, <1>15, t \in Tmr

LEMMA UnlinkFields ==
    ASSUME NEW x \in TmrTable, NEW t \in Tmr,
           NEW y, y = OSTmr_Unlink(x, t)
    PROVE  LET s == Spoke(x, t)
               before == IF x.first[s] = t THEN Null ELSE x.prev[t]
           IN /\ y \in TmrTable
              /\ s \in 0 .. Spokes - 1
              /\ y.state[t] = "stopped" /\ y.next[t] = Null /\ y.prev[t] = Null
              /\ \A u \in Tmr \ {t} :
                    /\ y.state[u] = x.state[u]
                    /\ y.next[u] = IF u = before THEN x.next[t] ELSE x.next[u]
                    /\ y.prev[u] = IF u = x.next[t] THEN before ELSE x.prev[u]
              /\ y.match = x.match /\ y.opt = x.opt
              /\ y.period = x.period /\ y.free = x.free
              /\ \A r \in 0 .. Spokes - 1 : y.first[r] =
                    IF r = s /\ x.first[s] = t THEN x.next[t] ELSE x.first[r]
<1> DEFINE s == Spoke(x, t)
           before == IF x.first[s] = t THEN Null ELSE x.prev[t]
<1>1. s \in 0 .. Spokes - 1
  BY SpokeRange
<1> HIDE DEF s
<1>2. /\ x.next \in [Tmr -> Ptr] /\ x.prev \in [Tmr -> Ptr]
      /\ before \in Ptr /\ x.next[t] \in Ptr
  BY DEF TmrTable, Ptr
<1> HIDE DEF before
<1>3. PICK n : Stored(n, x.next, before, x.next[t], t)
  BY DEF Stored
<1>4. n \in [Tmr -> Ptr] /\ \A u \in Tmr : n[u] =
        IF u = t THEN Null ELSE IF u = before THEN x.next[t] ELSE x.next[u]
  BY <1>2, <1>3, StoreBoth
<1>5. PICK p : Stored(p, x.prev, x.next[t], before, t)
  BY DEF Stored
<1>6. p \in [Tmr -> Ptr] /\ \A u \in Tmr : p[u] =
        IF u = t THEN Null ELSE IF u = x.next[t] THEN before ELSE x.prev[u]
  BY <1>2, <1>5, StoreBoth
<1>7. PICK first, state :
        /\ first = [x.first EXCEPT ![s] = IF x.first[s] = t THEN x.next[t] ELSE @]
        /\ state = [x.state EXCEPT ![t] = "stopped"]
  OBVIOUS
<1>8. IsTable(y, state, x.opt, x.dly, x.period, x.match, n, p, first, x.free)
  BY <1>3, <1>5, <1>7 DEF OSTmr_Unlink, TmrTable, IsTable, Stored, s, before
<1>9. /\ first \in [0 .. Spokes - 1 -> Ptr]
      /\ state \in [Tmr -> {"unused", "stopped", "completed", "running"}]
      /\ \A r \in 0 .. Spokes - 1 : first[r] =
            IF r = s /\ x.first[s] = t THEN x.next[t] ELSE x.first[r]
      /\ state[t] = "stopped" /\ \A u \in Tmr \ {t} : state[u] = x.state[u]
  BY <1>1, <1>2, <1>7 DEF TmrTable, Ptr
<1>10. /\ x.opt \in [Tmr -> {"none", "periodic"}] /\ x.dly \in [Tmr -> 0 .. MaxWait]
       /\ x.period \in [Tmr -> 0 .. MaxWait] /\ x.match \in [Tmr -> 0 .. M - 1]
       /\ x.free \in Ptr
  BY DEF TmrTable, Ptr
<1>11. /\ y \in TmrTable
       /\ y.match = x.match /\ y.state = state /\ y.first = first /\ y.next = n
       /\ y.opt = x.opt /\ y.dly = x.dly /\ y.period = x.period /\ y.free = x.free
       /\ y.prev = p
  BY ONLY <1>4, <1>6, <1>8, <1>9, <1>10 DEF TmrTable, IsTable, Ptr
<1> QED BY ONLY <1>1, <1>4, <1>6, <1>9, <1>11, t \in Tmr DEF s, before

LEMMA FreeFields ==
    ASSUME NEW x \in TmrTable, NEW t \in Tmr,
           NEW y, y = OSTmr_Free(x, t)
    PROVE  /\ y \in TmrTable
           /\ y.state[t] = "unused" /\ y.next[t] = x.free
           /\ \A u \in Tmr \ {t} : /\ y.state[u] = x.state[u]
                                   /\ y.period[u] = x.period[u]
                                   /\ y.match[u] = x.match[u]
                                   /\ y.next[u] = x.next[u]
                                   /\ y.prev[u] = x.prev[u]
           /\ y.first = x.first /\ y.free = t
<1>1. PICK state, opt, period, match, next, prev :
        /\ state = [x.state EXCEPT ![t] = "unused"]
        /\ opt = [x.opt EXCEPT ![t] = "none"]
        /\ period = [x.period EXCEPT ![t] = 0]
        /\ match = [x.match EXCEPT ![t] = 0]
        /\ next = [x.next EXCEPT ![t] = x.free]
        /\ prev = [x.prev EXCEPT ![t] = Null]
  OBVIOUS
<1>2. /\ state \in [Tmr -> {"unused", "stopped", "completed", "running"}]
      /\ opt \in [Tmr -> {"none", "periodic"}]
      /\ next \in [Tmr -> Ptr] /\ prev \in [Tmr -> Ptr]
      /\ x.first \in [0 .. Spokes - 1 -> Ptr] /\ t \in Ptr
  BY <1>1 DEF TmrTable, Ptr
<1>3. /\ x.dly \in [Tmr -> 0 .. MaxWait]
      /\ period \in [Tmr -> 0 .. MaxWait]
      /\ match \in [Tmr -> 0 .. M - 1]
  BY <1>1, WheelAssumption DEF TmrTable
<1>4. IsTable(y, state, opt, x.dly, period, match, next, prev, x.first, t)
  BY <1>1 DEF OSTmr_Free, TmrTable, IsTable
<1>5. /\ y \in TmrTable
      /\ y.state = state /\ y.opt = opt /\ y.dly = x.dly /\ y.period = period
      /\ y.match = match /\ y.next = next /\ y.prev = prev
      /\ y.first = x.first /\ y.free = t
  BY ONLY <1>2, <1>3, <1>4 DEF TmrTable, IsTable, Ptr
<1>6. /\ state[t] = "unused" /\ next[t] = x.free
      /\ \A u \in Tmr \ {t} : /\ state[u] = x.state[u]
                              /\ period[u] = x.period[u]
                              /\ match[u] = x.match[u]
                              /\ next[u] = x.next[u]
                              /\ prev[u] = x.prev[u]
  BY <1>1 DEF TmrTable
<1> QED BY ONLY <1>5, <1>6, t \in Tmr

LEMMA CreatedFields ==
    ASSUME NEW x \in TmrTable, x.free # Null, NEW k \in Kinds,
           NEW y, y = Created(x, k)
    PROVE  LET t == x.free
           IN /\ t \in Tmr
              /\ y \in TmrTable
              /\ y.state[t] = "stopped" /\ y.period[t] \in 1 .. MaxWait
              /\ \A u \in Tmr \ {t} : /\ y.state[u] = x.state[u]
                                      /\ y.period[u] = x.period[u]
                                      /\ y.next[u] = x.next[u]
                                      /\ y.prev[u] = x.prev[u]
              /\ y.match = x.match
              /\ y.first = x.first /\ y.free = x.next[t]
<1>1. PICK t : t = x.free
  OBVIOUS
<1>2. t \in Tmr
  BY <1>1 DEF TmrTable, Null
<1>3. PICK state, opt, delay, period, next, prev, free :
        /\ state = [x.state EXCEPT ![t] = "stopped"]
        /\ opt = [x.opt EXCEPT ![t] = k[1]]
        /\ delay = [x.dly EXCEPT ![t] = 0]
        /\ period = [x.period EXCEPT ![t] = k[2]]
        /\ next = [x.next EXCEPT ![t] = Null]
        /\ prev = [x.prev EXCEPT ![t] = Null]
        /\ free = x.next[t]
  OBVIOUS
<1>4. k[1] \in {"none", "periodic"} /\ k[2] \in 1 .. MaxWait
  BY WheelAssumption
<1>5. /\ state \in [Tmr -> {"unused", "stopped", "completed", "running"}]
      /\ opt \in [Tmr -> {"none", "periodic"}]
      /\ next \in [Tmr -> Ptr] /\ prev \in [Tmr -> Ptr]
      /\ x.first \in [0 .. Spokes - 1 -> Ptr] /\ free \in Ptr
  BY <1>2, <1>3, <1>4 DEF TmrTable, Ptr
<1>6. /\ delay \in [Tmr -> 0 .. MaxWait]
      /\ period \in [Tmr -> 0 .. MaxWait]
      /\ x.match \in [Tmr -> 0 .. M - 1]
  BY <1>2, <1>3, <1>4, WheelAssumption DEF TmrTable
<1>7. IsTable(y, state, opt, delay, period, x.match, next, prev, x.first, free)
  BY <1>1, <1>2, <1>3 DEF Created, OSTmr_Alloc, TmrTable, IsTable
<1>8. /\ y \in TmrTable
      /\ y.state = state /\ y.opt = opt /\ y.dly = delay /\ y.period = period
      /\ y.match = x.match /\ y.next = next /\ y.prev = prev
      /\ y.first = x.first /\ y.free = free
  BY ONLY <1>5, <1>6, <1>7 DEF TmrTable, IsTable, Ptr
<1>9. /\ state[t] = "stopped" /\ period[t] \in 1 .. MaxWait
      /\ \A u \in Tmr \ {t} : /\ state[u] = x.state[u]
                              /\ period[u] = x.period[u]
                              /\ next[u] = x.next[u]
                              /\ prev[u] = x.prev[u]
      /\ free = x.next[t]
  BY <1>2, <1>3, <1>4 DEF TmrTable
<1> QED BY ONLY <1>1, <1>2, <1>8, <1>9

-----------------------------------------------------------------------------
\* The timers of uC/OS-II: the lists stay lists.

Members(x, s) == {t \in Tmr : x.state[t] = "running" /\ Spoke(x, t) = s}
Unused(x) == {t \in Tmr : x.state[t] = "unused"}

\* Each spoke lists its running timers, with prev the inverse of next, and the
\* free list the unused ones; a timer in use has a period.
Sound(x) ==
    /\ x \in TmrTable
    /\ \A t \in Tmr : x.state[t] # "unused" => x.period[t] \in 1 .. MaxWait
    /\ \A s \in 0 .. Spokes - 1 :
        /\ ListOf(x.next, x.first[s], Members(x, s))
        /\ x.first[s] # Null => x.prev[x.first[s]] = Null
    /\ \A t \in Tmr :
        x.state[t] = "running" /\ x.next[t] # Null => x.prev[x.next[t]] = t
    /\ ListOf(x.next, x.free, Unused(x))

\* A running timer is in its spoke, and so is the one after it.
LEMMA InSpoke ==
    ASSUME NEW x, Sound(x), NEW t \in Tmr, x.state[t] = "running",
           NEW s, s = Spoke(x, t)
    PROVE  /\ s \in 0 .. Spokes - 1
           /\ t \in Members(x, s)
           /\ x.next[t] # Null => /\ x.next[t] \in Members(x, s)
                                  /\ x.next[t] # x.first[s]
<1>1. s \in 0 .. Spokes - 1
  BY SpokeRange DEF Sound
<1>2. t \in Members(x, s)
  BY DEF Members
<1>3. ListOf(x.next, x.first[s], Members(x, s))
  BY <1>1 DEF Sound
<1> QED BY <1>1, <1>2, <1>3 DEF ListOf, Closed

\* The first timer of a spoke is one of its members.
LEMMA FirstIn ==
    ASSUME NEW x, Sound(x), NEW s \in 0 .. Spokes - 1, x.first[s] # Null
    PROVE  /\ x.first[s] \in Tmr /\ x.state[x.first[s]] = "running"
           /\ Spoke(x, x.first[s]) = s
<1>1. x.first[s] \in Members(x, s)
  BY DEF Sound, ListOf
<1> QED BY <1>1 DEF Members

LEMMA LinkSound ==
    ASSUME NEW x, Sound(x), NEW t \in Tmr, x.state[t] # "running",
           x.state[t] # "unused", NEW type, time \in 0 .. M - 1,
           NEW y, y = OSTmr_Link(x, t, type)
    PROVE  Sound(y)
<1>1. x \in TmrTable
  BY DEF Sound
<1>2. PICK s : s = Spoke(y, t)
  OBVIOUS
<1>3. /\ y \in TmrTable
      /\ s \in 0 .. Spokes - 1
      /\ y.state[t] = "running" /\ y.next[t] = x.first[s] /\ y.prev[t] = Null
      /\ \A u \in Tmr \ {t} :
            /\ y.state[u] = x.state[u]
            /\ y.match[u] = x.match[u]
            /\ y.next[u] = x.next[u]
            /\ y.prev[u] = IF u = x.first[s] THEN t ELSE x.prev[u]
      /\ y.period = x.period /\ y.free = x.free
      /\ \A r \in 0 .. Spokes - 1 : y.first[r] = IF r = s THEN t ELSE x.first[r]
  BY <1>1, <1>2, LinkFields
<1>4. \A u \in Tmr \ {t} : /\ Spoke(y, u) = Spoke(x, u)
                           /\ y.state[u] = x.state[u]
                           /\ y.next[u] = x.next[u]
  BY <1>3 DEF Spoke
<1>5. y.state[t] = "running" /\ y.next[t] = x.first[s]
  BY <1>3
<1>6. \A r \in 0 .. Spokes - 1 : y.first[r] = IF r = s THEN t ELSE x.first[r]
  BY <1>3
<1>7. \A u \in Tmr : y.prev[u] =
            IF u = t THEN Null ELSE IF u = x.first[s] THEN t ELSE x.prev[u]
  BY <1>3
<1>8. y \in TmrTable /\ y.period = x.period /\ y.free = x.free
  BY <1>3
<1>9. ASSUME NEW r \in 0 .. Spokes - 1
      PROVE  /\ ListOf(y.next, y.first[r], Members(y, r))
             /\ y.first[r] # Null => y.prev[y.first[r]] = Null
  <2>1. ListOf(x.next, x.first[r], Members(x, r)) /\ t \notin Members(x, r)
    BY DEF Sound, Members
  <2>2. \A u \in Members(x, r) : y.next[u] = x.next[u]
    BY <1>4, <2>1 DEF Members
  <2>3. CASE r = s
    <3>1. Members(y, r) = Members(x, r) \cup {t}
      BY <1>2, <1>4, <1>5, <2>3 DEF Members
    <3>2. y.next[t] = x.first[r] /\ y.first[r] = t
      BY <1>5, <1>6, <2>3
    <3>3. ListOf(y.next, t, Members(x, r) \cup {t})
      BY <2>1, <2>2, <3>2, ListPush
    <3> QED BY <1>7, <3>1, <3>2, <3>3
  <2>4. CASE r # s
    <3>1. Members(y, r) = Members(x, r)
      BY <1>2, <1>4, <2>1, <2>4 DEF Members
    <3>2. y.first[r] = x.first[r]
      BY <1>6, <2>4
    <3>3. ListOf(y.next, x.first[r], Members(x, r))
      BY <2>1, <2>2, ListFrame
    <3>4. ASSUME x.first[r] # Null PROVE y.prev[x.first[r]] = Null
      <4>1. /\ x.first[r] \in Tmr /\ x.state[x.first[r]] = "running"
            /\ Spoke(x, x.first[r]) = r
        BY <3>4, FirstIn
      <4>2. x.first[r] # x.first[s]
        BY <2>4, <3>4, <4>1, <1>3, FirstIn
      <4> QED BY <1>7, <3>4, <4>1, <4>2 DEF Sound
    <3> QED BY <3>1, <3>2, <3>3, <3>4
  <2> QED BY <2>3, <2>4
<1>10. ASSUME NEW u \in Tmr, y.state[u] = "running", y.next[u] # Null
       PROVE  y.prev[y.next[u]] = u
  <2>1. CASE u = t
    <3>1. x.first[s] \in Tmr /\ x.state[x.first[s]] = "running"
      BY <1>3, <1>5, <1>10, <2>1, FirstIn
    <3> QED BY <1>5, <1>7, <2>1, <3>1
  <2>2. CASE u # t
    <3>1. x.state[u] = "running" /\ y.next[u] = x.next[u]
      BY <1>4, <2>2, <1>10
    <3>2. /\ x.next[u] \in Members(x, Spoke(x, u))
          /\ x.next[u] # x.first[Spoke(x, u)]
      BY <3>1, <1>10, InSpoke
    <3>3. x.next[u] # t /\ x.next[u] \in Tmr /\ Spoke(x, x.next[u]) = Spoke(x, u)
      BY <3>2 DEF Members
    <3>4. x.next[u] # x.first[s]
      BY <1>3, <1>10, <3>1, <3>2, <3>3, FirstIn
    <3> QED BY <1>7, <1>10, <3>1, <3>3, <3>4 DEF Sound
  <2> QED BY <2>1, <2>2
<1>11. ListOf(y.next, y.free, Unused(y))
  <2>1. Unused(y) = Unused(x) /\ t \notin Unused(x)
    BY <1>4, <1>5 DEF Unused
  <2>2. \A u \in Unused(x) : y.next[u] = x.next[u]
    BY <1>4, <2>1 DEF Unused
  <2>3. ListOf(x.next, x.free, Unused(x))
    BY DEF Sound
  <2>4. ListOf(y.next, x.free, Unused(x))
    BY <2>2, <2>3, ListFrame
  <2> QED BY <2>1, <2>4, <1>8
<1>12. \A u \in Tmr : y.state[u] # "unused" => y.period[u] \in 1 .. MaxWait
  BY <1>4, <1>8 DEF Sound
<1> QED BY <1>8, <1>9, <1>10, <1>11, <1>12 DEF Sound

\* The timer before one that is not the first of its spoke.
LEMMA BeforeInSpoke ==
    ASSUME NEW x, Sound(x), NEW t \in Tmr, x.state[t] = "running",
           NEW s, s = Spoke(x, t), x.first[s] # t
    PROVE  /\ x.prev[t] \in Members(x, s) \ {t}
           /\ x.next[x.prev[t]] = t
<1>1. s \in 0 .. Spokes - 1 /\ t \in Members(x, s)
  BY InSpoke
<1>2. ListOf(x.next, x.first[s], Members(x, s))
  BY <1>1 DEF Sound
<1>3. PICK b \in Members(x, s) \ {t} : x.next[b] = t
  BY <1>1, <1>2, ListBefore
<1>4. x.prev[t] = b
  BY <1>3, NullIsNoTmr DEF Sound, Members
<1> QED BY <1>3, <1>4

LEMMA UnlinkSound ==
    ASSUME NEW x, Sound(x), NEW t \in Tmr, x.state[t] = "running",
           NEW y, y = OSTmr_Unlink(x, t)
    PROVE  Sound(y)
<1>1. x \in TmrTable
  BY DEF Sound
<1>2. PICK s, before :
        s = Spoke(x, t) /\ before = IF x.first[s] = t THEN Null ELSE x.prev[t]
  OBVIOUS
<1>3. /\ y \in TmrTable
      /\ s \in 0 .. Spokes - 1
      /\ y.state[t] = "stopped" /\ y.next[t] = Null /\ y.prev[t] = Null
      /\ \A u \in Tmr \ {t} :
            /\ y.state[u] = x.state[u]
            /\ y.next[u] = IF u = before THEN x.next[t] ELSE x.next[u]
            /\ y.prev[u] = IF u = x.next[t] THEN before ELSE x.prev[u]
      /\ y.match = x.match /\ y.period = x.period /\ y.free = x.free
      /\ \A r \in 0 .. Spokes - 1 : y.first[r] =
            IF r = s /\ x.first[s] = t THEN x.next[t] ELSE x.first[r]
  BY <1>1, <1>2, UnlinkFields
<1>4. /\ t \in Members(x, s)
      /\ x.next[t] # Null => x.next[t] \in Members(x, s) /\ x.next[t] # x.first[s]
      /\ ListOf(x.next, x.first[s], Members(x, s))
  BY <1>2, <1>3, InSpoke DEF Sound
<1>5. \A u \in Tmr : Spoke(y, u) = Spoke(x, u)
  BY <1>3 DEF Spoke
<1>6. x.first[s] # t => /\ before \in Members(x, s) \ {t}
                        /\ x.next[before] = t
  BY <1>2, BeforeInSpoke
<1>7. x.first[s] = t => before = Null
  BY <1>2
<1>8. x.next[t] # t
  <2>1. t # Null
    BY NullIsNoTmr
  <2> QED BY <2>1, <1>4, <1>6 DEF ListOf
<1>9. ASSUME NEW r \in 0 .. Spokes - 1
      PROVE  /\ ListOf(y.next, y.first[r], Members(y, r))
             /\ y.first[r] # Null => y.prev[y.first[r]] = Null
  <2>1. ListOf(x.next, x.first[r], Members(x, r))
    BY DEF Sound
  <2>2. x.first[r] # Null => /\ x.first[r] \in Tmr /\ x.state[x.first[r]] = "running"
                             /\ Spoke(x, x.first[r]) = r
                             /\ x.prev[x.first[r]] = Null
    BY FirstIn DEF Sound
  <2>3. CASE r = s /\ x.first[s] = t
    <3>1. Members(y, r) = Members(x, r) \ {t}
      BY <1>3, <1>5 DEF Members
    <3>2. \A u \in Members(x, r) \ {t} : y.next[u] = x.next[u]
      BY <1>3, <1>7, <2>3, NullIsNoTmr DEF Members
    <3>3. t # Null
      BY NullIsNoTmr
    <3>4. ListOf(y.next, x.next[t], Members(x, r) \ {t})
      BY <2>1, <2>3, <3>2, <3>3, ListPop
    <3>5. y.first[r] = x.next[t]
      BY <1>3, <2>3
    <3>6. x.next[t] # Null => y.prev[x.next[t]] = Null
      BY <1>3, <1>4, <1>7, <1>8, <2>3 DEF Members
    <3> QED BY <3>1, <3>4, <3>5, <3>6
  <2>4. CASE r = s /\ x.first[s] # t
    <3>1. Members(y, r) = Members(x, r) \ {t}
      BY <1>3, <1>5 DEF Members
    <3>2. /\ y.next[before] = x.next[t]
          /\ \A u \in Members(x, r) \ {before, t} : y.next[u] = x.next[u]
      BY <1>3, <1>6, <2>4 DEF Members
    <3>3. ListOf(y.next, x.first[r], Members(x, r) \ {t})
      BY <1>4, <1>6, <2>1, <2>4, <3>2, ListCut
    <3>4. y.first[r] = x.first[r]
      BY <1>3, <2>4
    <3>5. x.first[r] # Null => y.prev[x.first[r]] = Null
      BY <1>3, <1>4, <2>2, <2>4
    <3> QED BY <3>1, <3>3, <3>4, <3>5
  <2>5. CASE r # s
    <3>1. Members(y, r) = Members(x, r) /\ t \notin Members(x, r)
      BY <1>2, <1>3, <1>5, <2>5 DEF Members
    <3>2. \A u \in Members(x, r) : u # before
      BY <1>2, <1>6, <1>7, <2>5, NullIsNoTmr DEF Members
    <3>3. \A u \in Members(x, r) : y.next[u] = x.next[u]
      BY <1>3, <3>1, <3>2 DEF Members
    <3>4. ListOf(y.next, x.first[r], Members(x, r))
      BY <2>1, <3>3, ListFrame
    <3>5. y.first[r] = x.first[r]
      BY <1>3, <2>5
    <3>6. x.first[r] # Null => x.first[r] # x.next[t] /\ x.first[r] # t
      BY <1>2, <1>4, <2>2, <2>5 DEF Members
    <3>7. x.first[r] # Null => y.prev[x.first[r]] = Null
      BY <1>3, <2>2, <3>6
    <3> QED BY <3>1, <3>4, <3>5, <3>7
  <2> QED BY <2>3, <2>4, <2>5
<1>10. ASSUME NEW u \in Tmr, y.state[u] = "running", y.next[u] # Null
       PROVE  y.prev[y.next[u]] = u
  <2>1. u # t /\ x.state[u] = "running"
    BY <1>3, <1>10
  <2>2. CASE u = before
    <3>1. y.next[u] = x.next[t]
      BY <1>3, <2>1, <2>2
    <3>2. x.next[t] \in Tmr \ {t}
      BY <1>4, <1>8, <1>10, <3>1 DEF Members
    <3> QED BY <1>3, <2>2, <3>1, <3>2
  <2>3. CASE u # before
    <3>1. y.next[u] = x.next[u]
      BY <1>3, <2>1, <2>3
    <3>2. x.next[u] \in Members(x, Spoke(x, u)) /\ x.prev[x.next[u]] = u
      BY <1>10, <2>1, <3>1, InSpoke DEF Sound
    <3>3. x.next[u] # t
      <4>1. CASE x.next[u] = t
        <5>1. Spoke(x, u) = s
          BY <1>2, <3>2, <4>1 DEF Members
        <5>2. x.first[s] # t
          BY <1>10, <2>1, <3>1, <4>1, <5>1, InSpoke
        <5>3. x.prev[t] = before
          BY <1>2, <5>2
        <5> QED BY <2>3, <3>2, <4>1, <5>3
      <4> QED BY <4>1
    <3>4. x.next[u] # x.next[t]
      <4>1. CASE x.next[u] = x.next[t]
        <5>1. x.prev[x.next[t]] = t
          BY <1>10, <3>1, <4>1 DEF Sound
        <5> QED BY <2>1, <3>2, <4>1, <5>1
      <4> QED BY <4>1
    <3> QED BY <1>3, <3>1, <3>2, <3>3, <3>4 DEF Members
  <2> QED BY <2>2, <2>3
<1>11. ListOf(y.next, y.free, Unused(y))
  <2>1. Unused(y) = Unused(x) /\ t \notin Unused(x)
    BY <1>3 DEF Unused
  <2>2. before \notin Unused(x)
    BY <1>6, <1>7, NullIsNoTmr DEF Unused, Members
  <2>3. \A u \in Unused(x) : y.next[u] = x.next[u]
    BY <1>3, <2>1, <2>2 DEF Unused
  <2>4. ListOf(x.next, x.free, Unused(x))
    BY DEF Sound
  <2>5. ListOf(y.next, x.free, Unused(x))
    BY <2>3, <2>4, ListFrame
  <2> QED BY <2>1, <2>5, <1>3
<1>12. \A u \in Tmr : y.state[u] # "unused" => y.period[u] \in 1 .. MaxWait
  BY <1>3 DEF Sound
<1> QED BY <1>3, <1>9, <1>10, <1>11, <1>12 DEF Sound

LEMMA FreeSound ==
    ASSUME NEW x, Sound(x), NEW t \in Tmr, x.state[t] # "running",
           x.state[t] # "unused", NEW y, y = OSTmr_Free(x, t)
    PROVE  Sound(y)
<1>1. x \in TmrTable
  BY DEF Sound
<1>2. /\ y \in TmrTable
      /\ y.state[t] = "unused" /\ y.next[t] = x.free
      /\ \A u \in Tmr \ {t} : /\ y.state[u] = x.state[u]
                              /\ y.period[u] = x.period[u]
                              /\ y.match[u] = x.match[u]
                              /\ y.next[u] = x.next[u]
                              /\ y.prev[u] = x.prev[u]
      /\ y.first = x.first /\ y.free = t
  BY <1>1, FreeFields
<1>3. ASSUME NEW r \in 0 .. Spokes - 1
      PROVE  /\ ListOf(y.next, y.first[r], Members(y, r))
             /\ y.first[r] # Null => y.prev[y.first[r]] = Null
  <2>1. Members(y, r) = Members(x, r) /\ t \notin Members(x, r)
    BY <1>2 DEF Members, Spoke
  <2>2. \A u \in Members(x, r) : y.next[u] = x.next[u]
    BY <1>2, <2>1 DEF Members
  <2>3. ListOf(x.next, x.first[r], Members(x, r))
    BY DEF Sound
  <2>4. ListOf(y.next, x.first[r], Members(x, r))
    BY <2>2, <2>3, ListFrame
  <2>5. x.first[r] # Null => y.prev[x.first[r]] = Null
    BY <1>2, FirstIn DEF Sound
  <2> QED BY <1>2, <2>1, <2>4, <2>5
<1>4. ASSUME NEW u \in Tmr, y.state[u] = "running", y.next[u] # Null
      PROVE  y.prev[y.next[u]] = u
  <2>1. u # t /\ x.state[u] = "running" /\ y.next[u] = x.next[u]
    BY <1>2, <1>4
  <2>2. x.next[u] \in Members(x, Spoke(x, u)) /\ x.prev[x.next[u]] = u
    BY <1>4, <2>1, InSpoke DEF Sound
  <2> QED BY <1>2, <2>1, <2>2 DEF Members
<1>5. ListOf(y.next, y.free, Unused(y))
  <2>1. Unused(y) = Unused(x) \cup {t} /\ t \notin Unused(x)
    BY <1>2 DEF Unused
  <2>2. \A u \in Unused(x) : y.next[u] = x.next[u]
    BY <1>2, <2>1 DEF Unused
  <2>3. ListOf(x.next, x.free, Unused(x)) /\ y.next[t] = x.free
    BY <1>2 DEF Sound
  <2>4. ListOf(y.next, t, Unused(x) \cup {t})
    BY <2>1, <2>2, <2>3, ListPush
  <2> QED BY <1>2, <2>1, <2>4
<1>6. \A u \in Tmr : y.state[u] # "unused" => y.period[u] \in 1 .. MaxWait
  BY <1>2 DEF Sound
<1> QED BY <1>2, <1>3, <1>4, <1>5, <1>6 DEF Sound

LEMMA CreatedSound ==
    ASSUME NEW x, Sound(x), NEW t, t = x.free, t # Null, NEW k \in Kinds,
           NEW y, y = Created(x, k)
    PROVE  /\ Sound(y)
           /\ t \in Tmr /\ x.state[t] = "unused" /\ y.state[t] = "stopped"
           /\ y.match = x.match
           /\ \A u \in Tmr \ {t} : y.state[u] = x.state[u] /\ y.next[u] = x.next[u]
<1>1. x \in TmrTable
  BY DEF Sound
<1>2. /\ t \in Tmr
      /\ y \in TmrTable
      /\ y.state[t] = "stopped" /\ y.period[t] \in 1 .. MaxWait
      /\ \A u \in Tmr \ {t} : /\ y.state[u] = x.state[u]
                              /\ y.period[u] = x.period[u]
                              /\ y.next[u] = x.next[u]
                              /\ y.prev[u] = x.prev[u]
      /\ y.match = x.match
      /\ y.first = x.first /\ y.free = x.next[t]
  BY <1>1, CreatedFields
<1>3. t \in Unused(x) /\ ListOf(x.next, t, Unused(x))
  BY DEF Sound, ListOf
<1>4. ASSUME NEW r \in 0 .. Spokes - 1
      PROVE  /\ ListOf(y.next, y.first[r], Members(y, r))
             /\ y.first[r] # Null => y.prev[y.first[r]] = Null
  <2>1. Members(y, r) = Members(x, r) /\ t \notin Members(x, r)
    BY <1>2, <1>3 DEF Members, Spoke, Unused
  <2>2. \A u \in Members(x, r) : y.next[u] = x.next[u]
    BY <1>2, <2>1 DEF Members
  <2>3. ListOf(x.next, x.first[r], Members(x, r))
    BY DEF Sound
  <2>4. ListOf(y.next, x.first[r], Members(x, r))
    BY <2>2, <2>3, ListFrame
  <2>5. ASSUME x.first[r] # Null PROVE y.prev[x.first[r]] = Null
    <3>1. /\ x.first[r] \in Tmr /\ x.state[x.first[r]] = "running"
          /\ x.prev[x.first[r]] = Null
      BY <2>5, FirstIn DEF Sound
    <3>2. x.first[r] # t
      BY <1>3, <3>1 DEF Unused
    <3> QED BY <1>2, <3>1, <3>2
  <2> QED BY <1>2, <2>1, <2>4, <2>5
<1>5. ASSUME NEW u \in Tmr, y.state[u] = "running", y.next[u] # Null
      PROVE  y.prev[y.next[u]] = u
  <2>1. u # t /\ x.state[u] = "running" /\ y.next[u] = x.next[u]
    BY <1>2, <1>5
  <2>2. x.next[u] \in Members(x, Spoke(x, u)) /\ x.prev[x.next[u]] = u
    BY <1>5, <2>1, InSpoke DEF Sound
  <2> QED BY <1>2, <1>3, <2>1, <2>2 DEF Members, Unused
<1>6. ListOf(y.next, y.free, Unused(y))
  <2>1. Unused(y) = Unused(x) \ {t}
    BY <1>2 DEF Unused
  <2>2. \A u \in Unused(x) \ {t} : y.next[u] = x.next[u]
    BY <1>2 DEF Unused
  <2>3. ListOf(y.next, x.next[t], Unused(x) \ {t})
    BY <1>3, <2>2, ListPop
  <2> QED BY <1>2, <2>1, <2>3
<1>7. \A u \in Tmr : y.state[u] # "unused" => y.period[u] \in 1 .. MaxWait
  BY <1>2 DEF Sound
<1> QED BY <1>2, <1>3, <1>4, <1>5, <1>6, <1>7 DEF Sound, Unused

IsCompleted(y, x, t) == y = [x EXCEPT !.state[t] = "completed"]

\* A stopped timer becomes a completed one.
LEMMA CompletedSound ==
    ASSUME NEW x, Sound(x), NEW t \in Tmr, x.state[t] = "stopped",
           NEW y, IsCompleted(y, x, t)
    PROVE  /\ Sound(y)
           /\ y.state[t] = "completed" /\ y.match = x.match /\ y.next = x.next
           /\ \A u \in Tmr \ {t} : y.state[u] = x.state[u]
<1>1. x \in TmrTable
  BY DEF Sound
<1>2. PICK state : state = [x.state EXCEPT ![t] = "completed"]
  OBVIOUS
<1>3. IsTable(y, state, x.opt, x.dly, x.period, x.match, x.next, x.prev, x.first, x.free)
  BY <1>1, <1>2 DEF TmrTable, IsTable, IsCompleted
<1>4. /\ state \in [Tmr -> {"unused", "stopped", "completed", "running"}]
      /\ x.opt \in [Tmr -> {"none", "periodic"}] /\ x.dly \in [Tmr -> 0 .. MaxWait]
      /\ x.period \in [Tmr -> 0 .. MaxWait] /\ x.match \in [Tmr -> 0 .. M - 1]
      /\ x.next \in [Tmr -> Ptr] /\ x.prev \in [Tmr -> Ptr]
      /\ x.first \in [0 .. Spokes - 1 -> Ptr] /\ x.free \in Ptr
  BY <1>1, <1>2 DEF TmrTable, Ptr
<1>5. /\ y \in TmrTable
      /\ y.state = state /\ y.period = x.period
      /\ y.match = x.match /\ y.next = x.next /\ y.prev = x.prev
      /\ y.first = x.first /\ y.free = x.free
  BY ONLY <1>3, <1>4 DEF TmrTable, IsTable, Ptr
<1>6. state[t] = "completed" /\ \A u \in Tmr \ {t} : state[u] = x.state[u]
  BY <1>1, <1>2 DEF TmrTable
<1>7. Unused(y) = Unused(x) /\ \A r \in 0 .. Spokes - 1 : Members(y, r) = Members(x, r)
  BY <1>5, <1>6 DEF Unused, Members, Spoke
<1>8. \A u \in Tmr : /\ y.state[u] = "running" <=> x.state[u] = "running"
                     /\ y.state[u] = "unused" <=> x.state[u] = "unused"
  BY <1>5, <1>6
<1>9. Sound(y)
  BY <1>5, <1>7, <1>8 DEF Sound
<1> QED BY <1>5, <1>6, <1>9

-----------------------------------------------------------------------------
\* The timers of uC/OS-II: what an operation on one timer does to the others.

\* The timer t runs and is due after at least one tick.
Ahead(x, t) ==
    /\ x.state[t] = "running"
    /\ \E w \in 1 .. MaxWait : x.match[t] = (time + w) % M

\* An operation on t that makes y of x: another timer that runs keeps running
\* to the same time and keeps its successor, unless that was t; one that does
\* not run stays so or is started.
Touches(x, y, t) ==
    \A u \in Tmr \ {t} :
        /\ x.state[u] = "running" =>
            /\ y.state[u] = "running" /\ y.match[u] = x.match[u]
            /\ x.next[u] # t => y.next[u] = x.next[u]
        /\ x.state[u] # "running" => y.state[u] # "running" \/ Ahead(y, u)

\* The timer t is not due.
Settled(x, t) == x.state[t] = "running" => Ahead(x, t)

LEMMA TouchesReflexive ==
    ASSUME NEW x, NEW t
    PROVE  Touches(x, x, t)
BY DEF Touches

LEMMA TouchesTransitive ==
    ASSUME NEW x, NEW y, NEW z, NEW t, Touches(x, y, t), Touches(y, z, t)
    PROVE  Touches(x, z, t)
BY DEF Touches, Ahead

LEMMA LinkEffect ==
    ASSUME NEW x, Sound(x), NEW t \in Tmr, x.state[t] # "running",
           x.state[t] # "unused", NEW type, time \in 0 .. M - 1,
           NEW y, y = OSTmr_Link(x, t, type)
    PROVE  /\ Sound(y) /\ Ahead(y, t)
           /\ \A u \in Tmr \ {t} : /\ y.state[u] = x.state[u]
                                   /\ y.match[u] = x.match[u]
                                   /\ y.next[u] = x.next[u]
<1>1. Sound(y)
  BY LinkSound
<1>2. x \in TmrTable /\ x.period[t] \in 1 .. MaxWait
  BY DEF Sound
<1>3. Wait(x, t, type) \in 1 .. MaxWait
  BY <1>2 DEF Wait, TmrTable
<1>4. /\ y.state[t] = "running"
      /\ y.match[t] = (time + Wait(x, t, type)) % M
      /\ \A u \in Tmr \ {t} : /\ y.state[u] = x.state[u]
                              /\ y.match[u] = x.match[u]
                              /\ y.next[u] = x.next[u]
  BY <1>2, LinkFields
<1> QED BY <1>1, <1>3, <1>4 DEF Ahead

LEMMA UnlinkEffect ==
    ASSUME NEW x, Sound(x), NEW t \in Tmr, x.state[t] = "running",
           NEW y, y = OSTmr_Unlink(x, t)
    PROVE  /\ Sound(y) /\ y.state[t] = "stopped"
           /\ \A u \in Tmr \ {t} : y.state[u] = x.state[u]
           /\ Touches(x, y, t)
<1>1. Sound(y)
  BY UnlinkSound
<1>2. x \in TmrTable
  BY DEF Sound
<1>3. PICK s, before :
        s = Spoke(x, t) /\ before = IF x.first[s] = t THEN Null ELSE x.prev[t]
  OBVIOUS
<1>4. /\ y.state[t] = "stopped" /\ y.match = x.match
      /\ \A u \in Tmr \ {t} :
            /\ y.state[u] = x.state[u]
            /\ y.next[u] = IF u = before THEN x.next[t] ELSE x.next[u]
  BY <1>2, <1>3, UnlinkFields
<1>5. before # Null => x.next[before] = t
  BY <1>3, BeforeInSpoke
<1>6. Touches(x, y, t)
  BY <1>4, <1>5, NullIsNoTmr DEF Touches
<1> QED BY <1>1, <1>4, <1>6

LEMMA StartedEffect ==
    ASSUME NEW x, Sound(x), NEW t \in Tmr, x.state[t] # "unused",
           time \in 0 .. M - 1, NEW y, y = Started(x, t)
    PROVE  /\ Sound(y) /\ Ahead(y, t)
           /\ \A u \in Tmr \ {t} : y.state[u] = x.state[u]
           /\ Touches(x, y, t)
<1>1. PICK z : z = IF x.state[t] = "running" THEN OSTmr_Unlink(x, t) ELSE x
  OBVIOUS
<1>2. /\ Sound(z) /\ z.state[t] # "running" /\ z.state[t] # "unused"
      /\ \A u \in Tmr \ {t} : z.state[u] = x.state[u]
      /\ Touches(x, z, t)
  <2>1. CASE x.state[t] = "running"
    BY <1>1, <2>1, UnlinkEffect
  <2>2. CASE x.state[t] # "running"
    BY <1>1, <2>2, TouchesReflexive
  <2> QED BY <2>1, <2>2
<1>3. y = OSTmr_Link(z, t, "dly")
  BY <1>1 DEF Started
<1>4. /\ Sound(y) /\ Ahead(y, t)
      /\ \A u \in Tmr \ {t} : /\ y.state[u] = z.state[u]
                              /\ y.match[u] = z.match[u]
                              /\ y.next[u] = z.next[u]
  BY <1>2, <1>3, LinkEffect
<1>5. Touches(z, y, t)
  BY <1>4 DEF Touches
<1> QED BY <1>2, <1>4, <1>5, TouchesTransitive

LEMMA DeletedEffect ==
    ASSUME NEW x, Sound(x), NEW t \in Tmr, x.state[t] # "unused",
           NEW y, y = Deleted(x, t)
    PROVE  /\ Sound(y) /\ y.state[t] = "unused"
           /\ Touches(x, y, t)
<1>1. PICK z : z = IF x.state[t] = "running" THEN OSTmr_Unlink(x, t) ELSE x
  OBVIOUS
<1>2. /\ Sound(z) /\ z.state[t] # "running" /\ z.state[t] # "unused"
      /\ Touches(x, z, t)
  <2>1. CASE x.state[t] = "running"
    BY <1>1, <2>1, UnlinkEffect
  <2>2. CASE x.state[t] # "running"
    BY <1>1, <2>2, TouchesReflexive
  <2> QED BY <2>1, <2>2
<1>3. y = OSTmr_Free(z, t)
  BY <1>1 DEF Deleted
<1>4. Sound(y)
  BY <1>2, <1>3, FreeSound
<1>5. /\ y.state[t] = "unused"
      /\ \A u \in Tmr \ {t} : /\ y.state[u] = z.state[u]
                              /\ y.match[u] = z.match[u]
                              /\ y.next[u] = z.next[u]
  BY <1>2, <1>3, FreeFields DEF Sound
<1>6. Touches(z, y, t)
  BY <1>5 DEF Touches
<1> QED BY <1>2, <1>4, <1>5, <1>6, TouchesTransitive

\* A callback that sets another timer leaves all those in use alone.
LEMMA AnotherEffect ==
    ASSUME NEW x, Sound(x), NEW t \in Tmr, x.state[t] # "unused",
           time \in 0 .. M - 1, NEW y \in SetAnother(x)
    PROVE  Sound(y) /\ y.state[t] = x.state[t] /\ Touches(x, y, t)
<1>1. PICK k \in Kinds : x.free # Null /\ y = Started(Created(x, k), x.free)
  BY DEF SetAnother
<1>2. PICK f, z : f = x.free /\ z = Created(x, k)
  OBVIOUS
<1>3. /\ Sound(z)
      /\ f \in Tmr /\ x.state[f] = "unused" /\ z.state[f] = "stopped"
      /\ z.match = x.match
      /\ \A u \in Tmr \ {f} : z.state[u] = x.state[u] /\ z.next[u] = x.next[u]
  BY <1>1, <1>2, CreatedSound
<1>4. y = OSTmr_Link(z, f, "dly")
  BY <1>1, <1>2, <1>3 DEF Started
<1>5. /\ Sound(y) /\ Ahead(y, f)
      /\ \A u \in Tmr \ {f} : /\ y.state[u] = z.state[u]
                              /\ y.match[u] = z.match[u]
                              /\ y.next[u] = z.next[u]
  BY <1>3, <1>4, LinkEffect
<1>6. Touches(x, y, t)
  BY <1>3, <1>5 DEF Touches
<1>7. f # t
  BY <1>3
<1> QED BY <1>3, <1>5, <1>6, <1>7

LEMMA CallbackEffect ==
    ASSUME NEW x, Sound(x), NEW t \in Tmr, x.state[t] # "unused", Settled(x, t),
           time \in 0 .. M - 1, NEW y \in Callback(x, t)
    PROVE  Sound(y) /\ Settled(y, t) /\ Touches(x, y, t)
<1>1. CASE y = x
  BY <1>1, TouchesReflexive
<1>2. CASE y = Started(x, t)
  BY <1>2, StartedEffect DEF Settled
<1>3. CASE y = Deleted(x, t)
  BY <1>3, DeletedEffect DEF Settled
<1>4. CASE y \in {Deleted(z, t) : z \in SetAnother(x)}
  <2>1. PICK z \in SetAnother(x) : y = Deleted(z, t)
    BY <1>4
  <2>2. Sound(z) /\ z.state[t] # "unused" /\ Touches(x, z, t)
    BY AnotherEffect
  <2>3. Sound(y) /\ y.state[t] = "unused" /\ Touches(z, y, t)
    BY <2>1, <2>2, DeletedEffect
  <2> QED BY <2>2, <2>3, TouchesTransitive DEF Settled
<1> QED BY <1>1, <1>2, <1>3, <1>4 DEF Callback

LEMMA ExpiredEffect ==
    ASSUME NEW x, Sound(x), NEW t \in Tmr, x.state[t] = "running",
           time \in 0 .. M - 1, NEW y, y = Expired(x, t)
    PROVE  Sound(y) /\ y.state[t] # "unused" /\ Settled(y, t) /\ Touches(x, y, t)
<1>1. PICK z : z = OSTmr_Unlink(x, t)
  OBVIOUS
<1>2. Sound(z) /\ z.state[t] = "stopped" /\ Touches(x, z, t)
  BY <1>1, UnlinkEffect
<1>3. CASE x.opt[t] = "periodic"
  <2>1. y = OSTmr_Link(z, t, "periodic")
    BY <1>1, <1>3 DEF Expired
  <2>2. /\ Sound(y) /\ Ahead(y, t)
        /\ \A u \in Tmr \ {t} : /\ y.state[u] = z.state[u]
                                /\ y.match[u] = z.match[u]
                                /\ y.next[u] = z.next[u]
    BY <1>2, <2>1, LinkEffect
  <2>3. Touches(z, y, t)
    BY <2>2 DEF Touches
  <2> QED BY <1>2, <2>2, <2>3, TouchesTransitive DEF Settled, Ahead
<1>4. CASE x.opt[t] # "periodic"
  <2>1. IsCompleted(y, z, t)
    BY <1>1, <1>4 DEF Expired, IsCompleted
  <2>2. /\ Sound(y) /\ y.state[t] = "completed" /\ y.match = z.match /\ y.next = z.next
        /\ \A u \in Tmr \ {t} : y.state[u] = z.state[u]
    BY <1>2, <2>1, CompletedSound
  <2>3. Touches(z, y, t)
    BY <2>2 DEF Touches
  <2> QED BY <1>2, <2>2, <2>3, TouchesTransitive DEF Settled
<1> QED BY <1>3, <1>4

-----------------------------------------------------------------------------
\* The timers of uC/OS-II: the clock that wraps.

LEMMA ModOnce ==
    ASSUME NEW a \in Int
    PROVE  /\ a \in 0 .. M - 1 => a % M = a
           /\ a \in M .. 2 * M - 1 => a % M = a - M
           /\ a \in -M .. -1 => a % M = a + M
BY WheelAssumption

\* A timer set w ticks ahead is not due now, and w ticks are left.
LEMMA WrapAhead ==
    ASSUME NEW a \in 0 .. M - 1, NEW w \in 1 .. MaxWait,
           NEW m, m = (a + w) % M
    PROVE  m # a /\ (m - a) % M = w
<1>1. CASE a + w < M
  <2>1. m = a + w
    BY <1>1, ModOnce, WheelAssumption
  <2> QED BY <2>1, ModOnce, WheelAssumption
<1>2. CASE a + w >= M
  <2>1. m = a + w - M
    BY <1>2, ModOnce, WheelAssumption
  <2>2. m - a \in -M .. -1 /\ m - a + M = w
    BY <2>1, WheelAssumption
  <2> QED BY <2>2, ModOnce, WheelAssumption
<1> QED BY <1>1, <1>2, WheelAssumption

\* What is left of the time to m at the time a: nothing when it has come, and
\* one less with each tick.
LEMMA WrapTick ==
    ASSUME NEW a \in 0 .. M - 1, NEW m \in 0 .. M - 1,
           NEW b, b = (a + 1) % M
    PROVE  /\ (m - a) % M \in 0 .. M - 1
           /\ (m - a) % M = 0 <=> m = a
           /\ m # a => (m - b) % M = ((m - a) % M) - 1
<1>1. b = IF a = M - 1 THEN 0 ELSE a + 1
  BY ModOnce, WheelAssumption
<1>2. (m - a) % M = IF m >= a THEN m - a ELSE m - a + M
  BY ModOnce, WheelAssumption
<1>3. b \in 0 .. M - 1
  BY <1>1, WheelAssumption
<1>4. (m - b) % M = IF m >= b THEN m - b ELSE m - b + M
  BY <1>3, ModOnce, WheelAssumption
<1> QED BY <1>1, <1>2, <1>4, WheelAssumption

-----------------------------------------------------------------------------
\* The timers of uC/OS-II: the inductive invariant.

\* The part of the spoke that the walk has still to visit: a list from ptmr on,
\* with every timer that is due.
Rest(D) ==
    /\ ListOf(tmr.next, ptmr, D)
    /\ D \subseteq Members(tmr, time % Spokes)
    /\ \A t \in Tmr : tmr.state[t] = "running" /\ tmr.match[t] = time => t \in D

NoneDue == \A t \in Tmr : tmr.state[t] = "running" => tmr.match[t] # time

TmrInv ==
    /\ TmrTypeOK
    /\ Sound(tmr)
    /\ tmrTask = "walk" => \E D \in SUBSET Tmr : Rest(D)
    /\ tmrTask # "walk" => NoneDue

\* OSTmr_Init makes a list of all the timers.
LEMMA FreshList ==
    ASSUME NEW next, \A t \in Tmr : next[t] = IF t = TmrMax THEN Null ELSE t + 1
    PROVE  ListOf(next, 1, Tmr)
<1>1. TmrMax \in Nat \ {0} /\ Null = 0 /\ Tmr = 1 .. TmrMax
  BY WheelAssumption DEF Null, Tmr
<1>2. ASSUME NEW S \in SUBSET Tmr, 1 \in S \cup {Null}, Closed(next, S)
      PROVE  S = Tmr
  <2>1. CASE Tmr \ S # {}
    <3> DEFINE R == Tmr \ S
    <3>1. R \subseteq Nat /\ R # {}
      BY <1>1, <2>1
    <3>2. PICK m \in R : \A y \in R : m <= y
      <4> HIDE DEF R
      <4> QED BY <3>1, MinOf
    <3>3. m # 1
      BY <1>1, <1>2
    <3>4. m - 1 \in Tmr /\ m - 1 \in S
      BY <1>1, <3>2, <3>3
    <3>5. next[m - 1] = m /\ m # Null
      BY <1>1, <3>4
    <3> QED BY <1>2, <3>4, <3>5 DEF Closed
  <2> QED BY <2>1
<1>3. /\ Tmr \subseteq Tmr /\ 1 \in Tmr \cup {Null}
      /\ Closed(next, Tmr)
      /\ \A t \in Tmr : next[t] # Null => next[t] # 1
      /\ \A t, u \in Tmr : next[t] = next[u] /\ next[t] # Null => t = u
  BY <1>1 DEF Closed
<1> QED BY <1>2, <1>3 DEF ListOf

LEMMA EmptyList ==
    ASSUME NEW next
    PROVE  ListOf(next, Null, {})
BY DEF ListOf, Closed

LEMMA InitTmrInv == TmrInit => TmrInv
<1> SUFFICES ASSUME TmrInit PROVE TmrInv
  OBVIOUS
<1>1. tmr = Fresh /\ time = 0 /\ sig = 0 /\ tmrTask = "pend" /\ ptmr = Null
  BY DEF TmrInit
<1>2. PICK state, opt, zero, next, prev, first :
        /\ state = [t \in Tmr |-> "unused"]
        /\ opt = [t \in Tmr |-> "none"]
        /\ zero = [t \in Tmr |-> 0]
        /\ next = [t \in Tmr |-> IF t = TmrMax THEN Null ELSE t + 1]
        /\ prev = [t \in Tmr |-> Null]
        /\ first = [s \in 0 .. Spokes - 1 |-> Null]
  OBVIOUS
<1>3. IsTable(tmr, state, opt, zero, zero, zero, next, prev, first, 1)
  BY <1>1, <1>2 DEF Fresh, IsTable
<1>4. /\ state \in [Tmr -> {"unused", "stopped", "completed", "running"}]
      /\ opt \in [Tmr -> {"none", "periodic"}]
      /\ zero \in [Tmr -> 0 .. MaxWait] /\ zero \in [Tmr -> 0 .. M - 1]
      /\ prev \in [Tmr -> Ptr] /\ first \in [0 .. Spokes - 1 -> Ptr]
  BY <1>2, WheelAssumption DEF Ptr
<1>5. next \in [Tmr -> Ptr] /\ 1 \in Ptr
  BY <1>2, WheelAssumption DEF Ptr, Tmr, Null
<1>6. /\ tmr \in TmrTable
      /\ tmr.state = state /\ tmr.next = next /\ tmr.first = first /\ tmr.free = 1
  BY ONLY <1>3, <1>4, <1>5 DEF TmrTable, IsTable, Ptr
<1>7. TmrTypeOK
  BY <1>1, <1>6, WheelAssumption DEF TmrTypeOK, Null
<1>8. \A t \in Tmr : tmr.state[t] = "unused"
  BY <1>2, <1>6
<1>9. ListOf(tmr.next, tmr.free, Unused(tmr))
  <2>1. Unused(tmr) = Tmr
    BY <1>8 DEF Unused
  <2>2. \A t \in Tmr : tmr.next[t] = IF t = TmrMax THEN Null ELSE t + 1
    BY <1>2, <1>6
  <2> QED BY <1>6, <2>1, <2>2, FreshList
<1>10. ASSUME NEW s \in 0 .. Spokes - 1
       PROVE  tmr.first[s] = Null /\ ListOf(tmr.next, tmr.first[s], Members(tmr, s))
  <2>1. Members(tmr, s) = {}
    BY <1>8 DEF Members
  <2>2. tmr.first[s] = Null
    BY <1>2, <1>6
  <2> QED BY <2>1, <2>2, EmptyList
<1>11. Sound(tmr)
  BY <1>6, <1>8, <1>9, <1>10 DEF Sound
<1> QED BY <1>1, <1>7, <1>8, <1>11 DEF TmrInv, NoneDue

\* Every service changes one timer, which is not due after it.
LEMMA ServiceEffect ==
    ASSUME Sound(tmr), time \in 0 .. M - 1,
           \/ \E t \in Tmr : OSTmrStart(t) \/ OSTmrStop(t) \/ OSTmrDel(t)
           \/ \E k \in Kinds : OSTmrCreate(k)
    PROVE  /\ tmrTask # "walk"
           /\ UNCHANGED <<time, sig, tmrTask, ptmr>>
           /\ Sound(tmr')
           /\ \E t \in Tmr : Settled(tmr', t) /\ Touches(tmr, tmr', t)
<1>1. ASSUME NEW t \in Tmr, OSTmrStart(t)
      PROVE  Sound(tmr') /\ Settled(tmr', t) /\ Touches(tmr, tmr', t)
  BY <1>1, StartedEffect DEF OSTmrStart, Settled
<1>2. ASSUME NEW t \in Tmr, OSTmrDel(t)
      PROVE  Sound(tmr') /\ Settled(tmr', t) /\ Touches(tmr, tmr', t)
  BY <1>2, DeletedEffect DEF OSTmrDel, Settled
<1>3. ASSUME NEW t \in Tmr, OSTmrStop(t)
      PROVE  Sound(tmr') /\ Settled(tmr', t) /\ Touches(tmr, tmr', t)
  <2>1. PICK x : x = OSTmr_Unlink(tmr, t) /\ (tmr' = x \/ tmr' \in Callback(x, t))
    BY <1>3 DEF OSTmrStop
  <2>2. Sound(x) /\ x.state[t] = "stopped" /\ Touches(tmr, x, t)
    BY <1>3, <2>1, UnlinkEffect DEF OSTmrStop
  <2>3. Settled(x, t)
    BY <2>2 DEF Settled
  <2>4. CASE tmr' = x
    BY <2>2, <2>3, <2>4
  <2>5. CASE tmr' \in Callback(x, t)
    <3>1. Sound(tmr') /\ Settled(tmr', t) /\ Touches(x, tmr', t)
      BY <2>2, <2>3, <2>5, CallbackEffect
    <3> QED BY <2>2, <3>1, TouchesTransitive
  <2> QED BY <2>1, <2>4, <2>5
<1>4. ASSUME NEW k \in Kinds, OSTmrCreate(k)
      PROVE  /\ Sound(tmr')
             /\ \E t \in Tmr : Settled(tmr', t) /\ Touches(tmr, tmr', t)
  <2>1. PICK f, y : f = tmr.free /\ f # Null /\ y = Created(tmr, k) /\ tmr' = y
    BY <1>4 DEF OSTmrCreate
  <2>2. /\ Sound(y) /\ f \in Tmr
        /\ y.state[f] = "stopped" /\ y.match = tmr.match
        /\ \A u \in Tmr \ {f} : y.state[u] = tmr.state[u] /\ y.next[u] = tmr.next[u]
    BY <2>1, CreatedSound
  <2>3. Settled(y, f) /\ Touches(tmr, y, f)
    BY <2>2 DEF Settled, Touches
  <2> QED BY <2>1, <2>2, <2>3
<1>5. tmrTask # "walk" /\ UNCHANGED <<time, sig, tmrTask, ptmr>>
  BY DEF OSTmrStart, OSTmrStop, OSTmrDel, OSTmrCreate
<1> QED BY <1>1, <1>2, <1>3, <1>4, <1>5

\* A visit to a timer that is due changes it, so that it is not due any more.
LEMMA VisitEffect ==
    ASSUME Sound(tmr), time \in 0 .. M - 1, Visit,
           ptmr \in Tmr, tmr.state[ptmr] = "running", tmr.match[ptmr] = time
    PROVE  Sound(tmr') /\ Settled(tmr', ptmr) /\ Touches(tmr, tmr', ptmr)
<1>1. PICK x : x = Expired(tmr, ptmr) /\ tmr' \in Callback(x, ptmr)
  BY DEF Visit
<1>2. /\ Sound(x) /\ x.state[ptmr] # "unused" /\ Settled(x, ptmr)
      /\ Touches(tmr, x, ptmr)
  BY <1>1, ExpiredEffect
<1>3. Sound(tmr') /\ Settled(tmr', ptmr) /\ Touches(x, tmr', ptmr)
  BY <1>1, <1>2, CallbackEffect
<1> QED BY <1>2, <1>3, TouchesTransitive

LEMMA AheadNotDue ==
    ASSUME NEW x, NEW t, Ahead(x, t), time \in 0 .. M - 1
    PROVE  x.match[t] # time
BY WrapAhead DEF Ahead

\* No operation on a timer makes another one due.
LEMMA NoneBecomesDue ==
    ASSUME NEW x, NEW y, NEW t \in Tmr, Settled(y, t), Touches(x, y, t),
           time \in 0 .. M - 1, NEW u \in Tmr,
           y.state[u] = "running", y.match[u] = time
    PROVE  u # t /\ x.state[u] = "running" /\ x.match[u] = time
BY AheadNotDue DEF Settled, Touches

\* The walk keeps the rest of the spoke whatever the callback did.
LEMMA VisitRest ==
    ASSUME TmrTypeOK, Sound(tmr), Visit, NEW D \in SUBSET Tmr, Rest(D),
           NEW E, E = D \ {ptmr}
    PROVE  /\ Sound(tmr')
           /\ Rest(E)'
<1>1. /\ ptmr # Null /\ ptmr' = tmr.next[ptmr]
      /\ UNCHANGED <<time, sig, tmrTask>> /\ time \in 0 .. M - 1
  BY DEF Visit, TmrTypeOK
<1>2. ListOf(tmr.next, ptmr, D) /\ D \subseteq Members(tmr, time % Spokes)
  BY DEF Rest
<1>3. ptmr \in D /\ ptmr \in Tmr /\ tmr.state[ptmr] = "running"
  BY <1>1, <1>2 DEF ListOf, Members
<1>4. ListOf(tmr.next, tmr.next[ptmr], E)
  BY <1>1, <1>2, ListPop
<1>5. CASE tmr.match[ptmr] = time
  <2>1. Sound(tmr') /\ Settled(tmr', ptmr) /\ Touches(tmr, tmr', ptmr)
    BY <1>1, <1>3, <1>5, VisitEffect
  <2>2. \A u \in E : /\ u \in Tmr /\ tmr.state[u] = "running"
                              /\ Spoke(tmr, u) = time % Spokes
                              /\ tmr.next[u] # ptmr
    BY <1>1, <1>2 DEF ListOf, Members
  <2>3. \A u \in E : /\ tmr'.state[u] = "running"
                              /\ tmr'.match[u] = tmr.match[u]
                              /\ tmr'.next[u] = tmr.next[u]
    BY <2>1, <2>2 DEF Touches
  <2>4. ListOf(tmr'.next, tmr.next[ptmr], E)
    BY <1>4, <2>3, ListFrame
  <2>5. E \subseteq Members(tmr', time % Spokes)
    BY <2>2, <2>3 DEF Members, Spoke
  <2>6. \A u \in Tmr : tmr'.state[u] = "running" /\ tmr'.match[u] = time
                        => u \in E
    BY <1>1, <1>3, <2>1, NoneBecomesDue DEF Rest
  <2> QED BY <1>1, <2>1, <2>4, <2>5, <2>6 DEF Rest
<1>6. CASE tmr.match[ptmr] # time
  <2>1. tmr' = tmr
    BY <1>6 DEF Visit
  <2>2. \A u \in Tmr : tmr.state[u] = "running" /\ tmr.match[u] = time
                        => u \in E
    BY <1>6 DEF Rest
  <2> QED BY <1>1, <1>2, <1>4, <2>1, <2>2 DEF Rest
<1> QED BY <1>5, <1>6

LEMMA TmrTyped ==
    ASSUME TmrTypeOK, TmrNext, tmr' \in TmrTable, ptmr' \in Tmr \cup {Null}
    PROVE  TmrTypeOK'
<1>1. CASE OSTmrSignal
  BY <1>1, WheelAssumption DEF OSTmrSignal, TmrTypeOK
<1>2. CASE Signalled
  BY <1>2, WheelAssumption DEF Signalled, TmrTypeOK
<1>3. CASE StartWalk
  <2>1. time + 1 \in Nat
    BY WheelAssumption DEF TmrTypeOK
  <2>2. time' \in 0 .. M - 1
    BY <1>3, <2>1, ModRange DEF StartWalk
  <2> QED BY <1>3, <2>2 DEF StartWalk, TmrTypeOK
<1>4. CASE Visit \/ EndWalk
  BY <1>4 DEF Visit, EndWalk, TmrTypeOK
<1>5. CASE \/ \E t \in Tmr : OSTmrStart(t) \/ OSTmrStop(t) \/ OSTmrDel(t)
           \/ \E k \in Kinds : OSTmrCreate(k)
  <2>1. UNCHANGED <<time, sig, tmrTask, ptmr>>
    BY <1>5 DEF OSTmrStart, OSTmrStop, OSTmrDel, OSTmrCreate
  <2> QED BY <2>1 DEF TmrTypeOK
<1> QED BY <1>1, <1>2, <1>3, <1>4, <1>5 DEF TmrNext, OSTmr_Task

\* A walk starts with the whole spoke before it.
LEMMA StartRest ==
    ASSUME TmrTypeOK, Sound(tmr), StartWalk,
           NEW E, E = Members(tmr, time' % Spokes)
    PROVE  Rest(E)'
<1>1. /\ time' = (time + 1) % M
      /\ ptmr' = tmr.first[time' % Spokes] /\ tmr' = tmr
  BY DEF StartWalk
<1>2. time + 1 \in Nat
  BY WheelAssumption DEF TmrTypeOK
<1>3. time' \in Nat
  BY <1>1, <1>2, ModRange, WheelAssumption
<1>4. time' % Spokes \in 0 .. Spokes - 1
  BY <1>3, ModRange
<1>5. ListOf(tmr.next, tmr.first[time' % Spokes], E)
  BY <1>4 DEF Sound
<1>6. \A t \in Tmr : tmr.state[t] = "running" /\ tmr.match[t] = time' => t \in E
  BY DEF Members, Spoke
<1> QED BY <1>1, <1>5, <1>6 DEF Rest

LEMMA NextTmrInv == TmrInv /\ [TmrNext]_tmrVars => TmrInv'
<1> SUFFICES ASSUME TmrInv, [TmrNext]_tmrVars PROVE TmrInv'
  OBVIOUS
<1>1. TmrTypeOK /\ Sound(tmr) /\ time \in 0 .. M - 1
  BY DEF TmrInv, TmrTypeOK
<1>2. CASE OSTmrSignal
  <2>1. UNCHANGED <<tmr, time, tmrTask, ptmr>>
    BY <1>2 DEF OSTmrSignal
  <2>2. TmrTypeOK'
    BY <1>1, <1>2, <2>1, TmrTyped DEF TmrNext, TmrTypeOK
  <2> QED BY <2>1, <2>2 DEF TmrInv, Rest, NoneDue
<1>3. CASE Signalled
  <2>1. UNCHANGED <<tmr, time, ptmr>> /\ tmrTask = "pend" /\ tmrTask' = "signalled"
    BY <1>3 DEF Signalled
  <2>2. TmrTypeOK'
    BY <1>1, <1>3, <2>1, TmrTyped DEF TmrNext, OSTmr_Task, TmrTypeOK
  <2> QED BY <2>1, <2>2 DEF TmrInv, NoneDue
<1>4. CASE StartWalk
  <2>1. PICK E : E = Members(tmr, time' % Spokes)
    OBVIOUS
  <2>2. Rest(E)' /\ E \in SUBSET Tmr
    BY <1>1, <1>4, <2>1, StartRest DEF Members
  <2>3. tmr' = tmr /\ tmrTask' = "walk"
    BY <1>4 DEF StartWalk
  <2>4. ptmr' \in Tmr \cup {Null}
    BY <2>2 DEF Rest, ListOf
  <2>5. TmrTypeOK'
    BY <1>1, <1>4, <2>3, <2>4, TmrTyped DEF TmrNext, OSTmr_Task, TmrTypeOK
  <2> QED BY <1>1, <2>2, <2>3, <2>5 DEF TmrInv
<1>5. CASE Visit
  <2>1. tmrTask = "walk" /\ tmrTask' = "walk" /\ ptmr # Null
    BY <1>5 DEF Visit
  <2>2. PICK D \in SUBSET Tmr : Rest(D)
    BY <2>1 DEF TmrInv
  <2>3. PICK E : E = D \ {ptmr}
    OBVIOUS
  <2>4. Sound(tmr') /\ Rest(E)' /\ E \in SUBSET Tmr
    BY <1>1, <1>5, <2>2, <2>3, VisitRest
  <2>5. tmr' \in TmrTable /\ ptmr' \in Tmr \cup {Null}
    BY <2>4 DEF Sound, Rest, ListOf
  <2>6. TmrTypeOK'
    BY <1>1, <1>5, <2>5, TmrTyped DEF TmrNext, OSTmr_Task
  <2> QED BY <2>1, <2>4, <2>6 DEF TmrInv
<1>6. CASE EndWalk
  <2>1. UNCHANGED <<tmr, time, sig, ptmr>> /\ tmrTask = "walk" /\ tmrTask' = "pend"
        /\ ptmr = Null
    BY <1>6 DEF EndWalk
  <2>2. PICK D \in SUBSET Tmr : Rest(D)
    BY <2>1 DEF TmrInv
  <2>3. D = {}
    <3> DEFINE T == {}
    <3>1. T \subseteq D /\ ptmr \in T \cup {Null} /\ Closed(tmr.next, T)
      BY <2>1 DEF Closed
    <3>2. T = D
      <4> HIDE DEF T
      <4> QED BY <2>2, <3>1, ListLeast DEF Rest
    <3> QED BY <3>2
  <2>4. NoneDue
    BY <2>2, <2>3 DEF Rest, NoneDue
  <2>5. TmrTypeOK'
    BY <1>1, <1>6, <2>1, TmrTyped DEF TmrNext, OSTmr_Task, TmrTypeOK
  <2> QED BY <1>1, <2>1, <2>4, <2>5 DEF TmrInv, NoneDue
<1>7. CASE \/ \E t \in Tmr : OSTmrStart(t) \/ OSTmrStop(t) \/ OSTmrDel(t)
           \/ \E k \in Kinds : OSTmrCreate(k)
  <2>1. /\ tmrTask # "walk"
        /\ UNCHANGED <<time, sig, tmrTask, ptmr>>
        /\ Sound(tmr')
    BY <1>1, <1>7, ServiceEffect
  <2>2. PICK t \in Tmr : Settled(tmr', t) /\ Touches(tmr, tmr', t)
    BY <1>1, <1>7, ServiceEffect
  <2>3. NoneDue
    BY <2>1 DEF TmrInv
  <2>4. \A u \in Tmr : tmr'.state[u] = "running" => tmr'.match[u] # time
    BY <1>1, <2>2, <2>3, NoneBecomesDue DEF NoneDue
  <2>5. NoneDue'
    BY <2>1, <2>4 DEF NoneDue
  <2>6. TmrTypeOK'
    BY <1>1, <1>7, <2>1, TmrTyped DEF TmrNext, Sound, TmrTypeOK
  <2> QED BY <2>1, <2>5, <2>6 DEF TmrInv
<1>8. CASE UNCHANGED tmrVars
  BY <1>8 DEF tmrVars, TmrInv, TmrTypeOK, Rest, NoneDue
<1> QED BY <1>2, <1>3, <1>4, <1>5, <1>6, <1>7, <1>8 DEF TmrNext, OSTmr_Task

LEMMA TmrInvariant == TmrSpec => []TmrInv
BY InitTmrInv, NextTmrInv, PTL DEF TmrSpec

\* OSTmr_Link, OSTmr_Unlink, OSTmr_Alloc and OSTmr_Free keep the spokes and
\* the free list sound, through every callback that starts, restarts and
\* deletes timers while OSTmr_Task walks.
THEOREM TimerListsAreSound == TmrSpec => []WheelSound
<1>1. TmrInv => WheelSound
  <2> SUFFICES ASSUME TmrInv PROVE WheelSound
    OBVIOUS
  <2>1. TmrTypeOK /\ Sound(tmr)
    BY DEF TmrInv
  <2>2. ASSUME NEW s \in 0 .. Spokes - 1
        PROVE  /\ Chain(tmr, tmr.first[s]) =
                    {t \in Tmr : tmr.state[t] = "running" /\ Spoke(tmr, t) = s}
               /\ tmr.first[s] # Null => tmr.prev[tmr.first[s]] = Null
    <3>1. /\ ListOf(tmr.next, tmr.first[s], Members(tmr, s))
          /\ tmr.first[s] # Null => tmr.prev[tmr.first[s]] = Null
      BY <2>1 DEF Sound
    <3>2. Chain(tmr, tmr.first[s]) = Members(tmr, s)
      BY <3>1, ListIsChain
    <3> QED BY <3>1, <3>2 DEF Members
  <2>3. Chain(tmr, tmr.free) = {t \in Tmr : tmr.state[t] = "unused"}
    BY <2>1, ListIsChain DEF Sound, Unused
  <2>4. \A t \in Tmr : (tmr.state[t] = "running" /\ tmr.next[t] # Null)
                        => tmr.prev[tmr.next[t]] = t
    BY <2>1 DEF Sound
  <2> QED BY <2>1, <2>2, <2>3, <2>4 DEF WheelSound
<1> QED BY <1>1, TmrInvariant, PTL

\* Whatever the callbacks do to the list that OSTmr_Task walks, ptmr still
\* leads to every timer that is due.
THEOREM WalkMissesNoTimer == TmrSpec => []WalkReachesDue
<1>1. TmrInv => WalkReachesDue
  <2> SUFFICES ASSUME TmrInv, tmrTask = "walk"
               PROVE  \A t \in Tmr :
                        (tmr.state[t] = "running" /\ tmr.match[t] = time)
                            => t \in Chain(tmr, ptmr)
    BY DEF WalkReachesDue
  <2>1. PICK D \in SUBSET Tmr : Rest(D)
    BY DEF TmrInv
  <2>2. Chain(tmr, ptmr) = D
    BY <2>1, ListIsChain DEF Rest
  <2> QED BY <2>1, <2>2 DEF Rest
<1> QED BY <1>1, TmrInvariant, PTL

-----------------------------------------------------------------------------
\* The timers of uC/OS-II: the wheel implements the countdown.

\* What is left to each timer in the table x at the time a.
LeftAt(x, a) ==
    [t \in Tmr |-> IF x.state[t] = "running" THEN (x.match[t] - a) % M ELSE -1]

\* A timer that is ahead has at least one tick left.
LEMMA AheadLeft ==
    ASSUME NEW x, NEW t \in Tmr, Ahead(x, t), time \in 0 .. M - 1
    PROVE  LeftAt(x, time)[t] \in 1 .. MaxWait
<1>1. PICK w \in 1 .. MaxWait : x.match[t] = (time + w) % M
  BY DEF Ahead
<1>2. (x.match[t] - time) % M = w
  BY <1>1, WrapAhead
<1> QED BY <1>2 DEF LeftAt, Ahead

\* A timer that is running has nothing left exactly when it is due.
LEMMA DueLeft ==
    ASSUME NEW x \in TmrTable, NEW t \in Tmr, time \in 0 .. M - 1
    PROVE  LeftAt(x, time)[t] = 0 <=> x.state[t] = "running" /\ x.match[t] = time
<1>1. x.match[t] \in 0 .. M - 1
  BY DEF TmrTable
<1>2. (x.match[t] - time) % M = 0 <=> x.match[t] = time
  BY <1>1, WrapTick
<1> QED BY <1>2 DEF LeftAt

\* An operation on t is a change of t in the countdown, and starts of others.
LEMMA TouchesLeft ==
    ASSUME NEW x, NEW y, NEW t \in Tmr, Settled(y, t), Touches(x, y, t),
           time \in 0 .. M - 1
    PROVE  /\ LeftAt(y, time)[t] \in {-1} \cup 1 .. MaxWait
           /\ \A u \in Tmr \ {t} :
                \/ LeftAt(y, time)[u] = LeftAt(x, time)[u]
                \/ LeftAt(x, time)[u] = -1 /\ LeftAt(y, time)[u] \in 1 .. MaxWait
<1>1. LeftAt(y, time)[t] \in {-1} \cup 1 .. MaxWait
  <2>1. CASE y.state[t] = "running"
    BY <2>1, AheadLeft DEF Settled
  <2>2. CASE y.state[t] # "running"
    BY <2>2 DEF LeftAt
  <2> QED BY <2>1, <2>2
<1>2. ASSUME NEW u \in Tmr \ {t}
      PROVE  \/ LeftAt(y, time)[u] = LeftAt(x, time)[u]
             \/ LeftAt(x, time)[u] = -1 /\ LeftAt(y, time)[u] \in 1 .. MaxWait
  <2>1. CASE x.state[u] = "running"
    BY <2>1 DEF Touches, LeftAt
  <2>2. CASE x.state[u] # "running" /\ y.state[u] # "running"
    BY <2>2 DEF LeftAt
  <2>3. CASE x.state[u] # "running" /\ Ahead(y, u)
    <3>1. LeftAt(x, time)[u] = -1
      BY <2>3 DEF LeftAt
    <3> QED BY <2>3, <3>1, AheadLeft
  <2> QED BY <2>1, <2>2, <2>3 DEF Touches
<1> QED BY <1>1, <1>2

\* Time goes on: every timer that runs has one tick less left.
LEMMA TickLeft ==
    ASSUME NEW x \in TmrTable, time \in 0 .. M - 1, NEW b, b = (time + 1) % M,
           \A t \in Tmr : x.state[t] = "running" => x.match[t] # time
    PROVE  \A t \in Tmr : LeftAt(x, b)[t] =
                IF LeftAt(x, time)[t] = -1 THEN -1 ELSE LeftAt(x, time)[t] - 1
<1> SUFFICES ASSUME NEW t \in Tmr
             PROVE  LeftAt(x, b)[t] =
                        IF LeftAt(x, time)[t] = -1 THEN -1 ELSE LeftAt(x, time)[t] - 1
  OBVIOUS
<1>1. CASE x.state[t] = "running"
  <2>1. x.match[t] \in 0 .. M - 1 /\ x.match[t] # time
    BY <1>1 DEF TmrTable
  <2>2. /\ (x.match[t] - time) % M \in 0 .. M - 1
        /\ (x.match[t] - b) % M = ((x.match[t] - time) % M) - 1
    <3>1. PICK m : m = x.match[t]
      OBVIOUS
    <3>2. m \in 0 .. M - 1 /\ m # time
      BY <2>1, <3>1
    <3>3. (m - time) % M \in 0 .. M - 1 /\ (m - b) % M = ((m - time) % M) - 1
      BY ONLY <3>2, time \in 0 .. M - 1, b = (time + 1) % M, WrapTick
    <3> QED BY ONLY <3>1, <3>3
  <2>3. LeftAt(x, b)[t] = (x.match[t] - b) % M
        /\ LeftAt(x, time)[t] = (x.match[t] - time) % M
    BY <1>1 DEF LeftAt
  <2> QED BY ONLY <2>2, <2>3, WheelAssumption
<1>2. CASE x.state[t] # "running"
  BY <1>2 DEF LeftAt
<1> QED BY <1>1, <1>2

LEMMA WheelStep ==
    TmrInv /\ TmrInv' /\ [TmrNext]_tmrVars
        => [Countdown!Next]_([t \in Tmr |-> Left(t)])
<1> SUFFICES ASSUME TmrInv, TmrInv', [TmrNext]_tmrVars
             PROVE  [Countdown!Next]_([t \in Tmr |-> Left(t)])
  OBVIOUS
<1> DEFINE left == [t \in Tmr |-> Left(t)]
<1>1. TmrTypeOK /\ Sound(tmr) /\ tmr \in TmrTable /\ time \in 0 .. M - 1
  BY DEF TmrInv, TmrTypeOK
<1>2. left = LeftAt(tmr, time) /\ left' = LeftAt(tmr', time')
  BY DEF Left, LeftAt
<1>3. ASSUME NEW t \in Tmr, Settled(tmr', t), Touches(tmr, tmr', t), time' = time
      PROVE  left'[t] \in {Countdown!Off} \cup 1 .. MaxWait /\ Countdown!OthersStart(t)
  <2>1. /\ LeftAt(tmr', time)[t] \in {-1} \cup 1 .. MaxWait
        /\ \A u \in Tmr \ {t} :
            \/ LeftAt(tmr', time)[u] = LeftAt(tmr, time)[u]
            \/ LeftAt(tmr, time)[u] = -1 /\ LeftAt(tmr', time)[u] \in 1 .. MaxWait
    BY <1>1, <1>3, TouchesLeft
  <2> HIDE DEF left
  <2>2. /\ left'[t] \in {-1} \cup 1 .. MaxWait
        /\ \A u \in Tmr \ {t} :
            \/ left'[u] = left[u]
            \/ left[u] = -1 /\ left'[u] \in 1 .. MaxWait
    BY <1>2, <1>3, <2>1
  <2> QED BY <2>2 DEF left, Countdown!OthersStart, Countdown!Off
<1>4. CASE UNCHANGED <<tmr, time>>
  <2>1. left' = left
    BY <1>4 DEF Left
  <2> QED BY <2>1
<1>5. CASE StartWalk
  <2>1. tmr' = tmr /\ time' = (time + 1) % M /\ NoneDue
    BY <1>5 DEF StartWalk, TmrInv
  <2>2. \A t \in Tmr : LeftAt(tmr, time)[t] # 0
    BY <1>1, <2>1, DueLeft DEF NoneDue
  <2>3. \A t \in Tmr : LeftAt(tmr', time')[t] =
            IF LeftAt(tmr, time)[t] = -1 THEN -1 ELSE LeftAt(tmr, time)[t] - 1
    BY <1>1, <2>1, TickLeft DEF NoneDue
  <2>4. Countdown!Tick
    BY <1>2, <2>2, <2>3 DEF LeftAt, Countdown!Tick, Countdown!Off
  <2> QED BY <2>4 DEF Countdown!Next
<1>6. CASE Visit
  <2>1. PICK D \in SUBSET Tmr : Rest(D)
    BY <1>6 DEF Visit, TmrInv
  <2>2. ptmr # Null /\ time' = time
    BY <1>6 DEF Visit
  <2>3. ptmr \in Tmr /\ tmr.state[ptmr] = "running"
    BY <2>1, <2>2 DEF Rest, ListOf, Members
  <2>4. CASE tmr.match[ptmr] = time
    <3>1. Settled(tmr', ptmr) /\ Touches(tmr, tmr', ptmr)
      BY <1>1, <1>6, <2>3, <2>4, VisitEffect
    <3>2. left[ptmr] = 0
      BY <1>1, <1>2, <2>3, <2>4, DueLeft
    <3>3. Countdown!Expire(ptmr)
      BY <1>3, <2>2, <2>3, <3>1, <3>2 DEF Countdown!Expire
    <3> QED BY <2>3, <3>3 DEF Countdown!Next
  <2>5. CASE tmr.match[ptmr] # time
    BY <1>4, <1>6, <2>5 DEF Visit
  <2> QED BY <2>4, <2>5
<1>7. CASE \/ \E t \in Tmr : OSTmrStart(t) \/ OSTmrStop(t) \/ OSTmrDel(t)
           \/ \E k \in Kinds : OSTmrCreate(k)
  <2>1. tmrTask # "walk" /\ time' = time
    BY <1>1, <1>7, ServiceEffect
  <2>2. PICK t \in Tmr : Settled(tmr', t) /\ Touches(tmr, tmr', t)
    BY <1>1, <1>7, ServiceEffect
  <2>3. \A u \in Tmr : left[u] # 0
    BY <1>1, <1>2, <2>1, DueLeft DEF TmrInv, NoneDue
  <2>4. Countdown!Change(t)
    BY <1>3, <2>1, <2>2, <2>3 DEF Countdown!Change
  <2> QED BY <2>4 DEF Countdown!Next
<1>8. CASE OSTmrSignal \/ Signalled \/ EndWalk \/ UNCHANGED tmrVars
  BY <1>4, <1>8 DEF OSTmrSignal, Signalled, EndWalk, tmrVars
<1> QED BY <1>5, <1>6, <1>7, <1>8 DEF TmrNext, OSTmr_Task

\* The timer wheel, with its callbacks and its clock that wraps, implements
\* timers that count down with every tick and expire at zero.
THEOREM WheelCountsDown == TmrSpec => OnTime
<1>1. TmrInit => Countdown!Init
  <2> SUFFICES ASSUME TmrInit PROVE Countdown!Init
    OBVIOUS
  <2>1. \A t \in Tmr : tmr.state[t] = "unused"
    BY DEF TmrInit, Fresh
  <2> QED BY <2>1 DEF Countdown!Init, Countdown!Off, Left
<1>2. TmrInv /\ TmrInv' /\ [TmrNext]_tmrVars
        => [Countdown!Next]_([t \in Tmr |-> Left(t)])
  BY WheelStep
<1> QED BY <1>1, <1>2, TmrInvariant, PTL DEF TmrSpec, OnTime, Countdown!Spec
=============================================================================
