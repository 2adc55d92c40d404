------------------------------- MODULE Kernel -------------------------------
(***************************************************************************)
(* uC/OS-II as it is configured for this module: tasks of distinct         *)
(* priorities, the scheduler, semaphores, mailboxes and queues with their  *)
(* waiting lists, delays and timeouts counted by the tick, suspension, the *)
(* scheduler lock, and interrupts, which post and tick at any point where  *)
(* interrupts are enabled.  (Mutexes, event flags, memory partitions, the  *)
(* deletion of tasks and the change of priorities are compiled out.)       *)
(*                                                                         *)
(* A critical section is a step.  A service that waits has three: the one  *)
(* that enters the task into the waiting lists, the call of OS_Sched, and  *)
(* the one after it, which the task performs when it runs again.  An       *)
(* interrupt, and the tasks it readies, can come between them.             *)
(*                                                                         *)
(* Semaphore, mailbox and queue differ in their limit, in the bit that     *)
(* marks a task waiting for them and in the services there are; a message  *)
(* is a token, as a count of a semaphore is.                               *)
(***************************************************************************)
EXTENDS Integers, FiniteSets, FiniteSetsExt

CONSTANTS
    N,          \* tasks, named by their priorities 1 .. N, 1 the highest
    Event,      \* event control blocks
    Kind,       \* OSEventType of each: "sem", "mbox" or "q"
    Limit,      \* 65535 of a semaphore, 1 of a mailbox, OSQSize of a queue
    Several,    \* the sets of events that each task calls OSEventPendMulti with
    MaxDly,     \* bound: ticks of a delay or a timeout
    MaxNest     \* bound: nesting of interrupts and of the scheduler lock

ASSUME NAssumption == N \in Nat
ASSUME EventAssumption ==
    /\ Kind \in [Event -> {"sem", "mbox", "q"}]
    /\ Limit \in [Event -> Nat \ {0}]
    /\ "none" \notin Event     \* a null OSTCBEventPtr points to no event
ASSUME SeveralAssumption == Several \in [1 .. N -> SUBSET ((SUBSET Event) \ {{}})]
ASSUME KernelBounds == MaxDly \in Nat /\ MaxNest \in Nat

VARIABLES
    ready,      \* OSRdyTbl
    stat,       \* OSTCBStat, the set of its bits
    pend,       \* OSTCBStatPend; "ok" outside a pend call, where nothing reads it
    dly,        \* OSTCBDly
    eptr,       \* OSTCBEventPtr; null outside a pend call, where nothing reads it
    multi,      \* OSTCBEventMultiPtr is not null
    evs,        \* the events of the pend call a task is in, {} if it is in none
    many,       \* that call is OSEventPendMulti
    pc,         \* in its own code, before OS_Sched, or after it in a pend call
    valid,      \* event control blocks in use
    cnt,        \* OSEventCnt, OSQEntries, or whether OSEventPtr holds a message
    wait,       \* OSEventTbl
    cur,        \* OSTCBCur; N + 1 is the idle task
    lockNest,   \* OSLockNesting
    intNest,    \* OSIntNesting
    tickLeft,   \* the tasks that the OSTimeTick under way has not visited
    balance     \* history: tokens posted to an event less tokens taken from it

tcb == <<ready, stat, pend, dly, eptr, multi, wait>>
call == <<evs, many, pc>>
nest == <<lockNest, intNest, tickLeft>>
vars == <<tcb, call, nest, valid, cnt, cur, balance>>

Task == 1 .. N
Idle == N + 1
None == "none"
Bit == {"sem", "mbox", "q", "suspend", "multi"}
PendAny == {"sem", "mbox", "q"}
Sets == (SUBSET Event) \ {{}}

Init ==
    /\ ready = Task
    /\ stat = [t \in Task |-> {}]
    /\ pend = [t \in Task |-> "ok"]
    /\ dly = [t \in Task |-> 0]
    /\ eptr = [t \in Task |-> None]
    /\ multi = [t \in Task |-> FALSE]
    /\ evs = [t \in Task |-> {}]
    /\ many = [t \in Task |-> FALSE]
    /\ pc = [t \in Task |-> "run"]
    /\ valid = Event
    /\ cnt = [e \in Event |-> 0]
    /\ wait = [e \in Event |-> {}]
    /\ cur = Min(Task \cup {Idle})
    /\ lockNest = 0 /\ intNest = 0 /\ tickLeft = {}
    /\ balance = [e \in Event |-> 0]

-----------------------------------------------------------------------------
(***************************************************************************)
(* Contexts.  Task code runs while no interrupt is being served; a service *)
(* that readies tasks goes on to OS_Sched when a task has called it, and   *)
(* returns from OS_Sched at once in an interrupt.                          *)
(***************************************************************************)
InTask == intNest = 0 /\ cur \in Task /\ pc[cur] = "run"
InIsr == intNest > 0
MayWait == InTask /\ lockNest = 0

Sched == IF InIsr THEN UNCHANGED call
         ELSE pc' = [pc EXCEPT ![cur] = "sched"] /\ UNCHANGED <<evs, many>>

HighestReady == Min(ready \cup {Idle})

\* OS_Sched: the switch, unless the scheduler is locked.
OS_Sched ==
    /\ intNest = 0 /\ cur \in Task /\ pc[cur] = "sched"
    /\ pc' = [pc EXCEPT ![cur] = IF evs[cur] = {} THEN "run" ELSE "wake"]
    /\ cur' = IF lockNest = 0 THEN HighestReady ELSE cur
    /\ UNCHANGED <<tcb, evs, many, nest, valid, cnt, balance>>

OSSchedLock ==
    /\ InTask /\ lockNest < MaxNest
    /\ lockNest' = lockNest + 1
    /\ UNCHANGED <<tcb, call, intNest, tickLeft, valid, cnt, cur, balance>>

MutOSSchedUnlock ==
    /\ InTask /\ lockNest > 0
    /\ lockNest' = lockNest - 1
    /\ UNCHANGED <<tcb, call, intNest, tickLeft, valid, cnt, cur, balance>>
OSSchedUnlock ==
    /\ InTask /\ lockNest > 0
    /\ lockNest' = lockNest - 1
    /\ IF lockNest = 1 THEN Sched ELSE UNCHANGED call
    /\ UNCHANGED <<tcb, intNest, tickLeft, valid, cnt, cur, balance>>

OSIntEnter ==
    /\ intNest < MaxNest
    /\ intNest' = intNest + 1
    /\ UNCHANGED <<tcb, call, lockNest, tickLeft, valid, cnt, cur, balance>>

\* The outermost one ends its tick first.
OSIntExit ==
    /\ InIsr /\ (intNest = 1 => tickLeft = {})
    /\ intNest' = intNest - 1
    /\ cur' = IF intNest = 1 /\ lockNest = 0 THEN HighestReady ELSE cur
    /\ UNCHANGED <<tcb, call, lockNest, tickLeft, valid, cnt, balance>>

-----------------------------------------------------------------------------
(***************************************************************************)
(* Waiting lists.                                                          *)
(***************************************************************************)
\* OS_EventTaskRdy for every task of W, all of them waiting for e: the bit of
\* this event goes, and no other.
MutListRdy(e, W, result) ==
    /\ dly' = [t \in Task |-> IF t \in W THEN 0 ELSE dly[t]]
    /\ stat' = [t \in Task |-> IF t \in W THEN stat[t] \ {Kind[e]} ELSE stat[t]]
    /\ pend' = [t \in Task |-> IF t \in W THEN result ELSE pend[t]]
    /\ ready' = ready \cup {t \in W : "suspend" \notin stat[t]}
    /\ wait' = [wait EXCEPT ![e] = @ \ W]
    /\ eptr' = [t \in Task |-> IF t \in W /\ multi[t] THEN e ELSE eptr[t]]
    /\ UNCHANGED multi
MutSuspendedRdy(e, W, result) ==
    /\ dly' = [t \in Task |-> IF t \in W THEN 0 ELSE dly[t]]
    /\ stat' = [t \in Task |-> IF t \in W THEN stat[t] \ {Kind[e]} ELSE stat[t]]
    /\ pend' = [t \in Task |-> IF t \in W THEN result ELSE pend[t]]
    /\ ready' = ready \cup W
    /\ wait' = [f \in Event |-> wait[f] \ {t \in W : f = e \/ multi[t]}]
    /\ eptr' = [t \in Task |-> IF t \in W /\ multi[t] THEN e ELSE eptr[t]]
    /\ UNCHANGED multi
OS_EventTaskRdy(e, W, result) ==
    /\ dly' = [t \in Task |-> IF t \in W THEN 0 ELSE dly[t]]
    /\ stat' = [t \in Task |-> IF t \in W THEN stat[t] \ {Kind[e]} ELSE stat[t]]
    /\ pend' = [t \in Task |-> IF t \in W THEN result ELSE pend[t]]
    /\ ready' = ready \cup {t \in W : "suspend" \notin stat[t]}
    /\ wait' = [f \in Event |->
                   wait[f] \ {t \in W : f = e \/ multi[t]}]
    /\ eptr' = [t \in Task |-> IF t \in W /\ multi[t] THEN e ELSE eptr[t]]
    /\ UNCHANGED multi

\* The first half of a pend call for the events E that has to wait:
\* OS_EventTaskWait, or OS_EventTaskWaitMulti for several (any).  The former
\* leaves OSTCBEventMultiPtr alone.
OS_EventTaskWait(E, any, timeout) ==
    /\ stat' = [stat EXCEPT ![cur] = @ \cup {Kind[e] : e \in E}
                                       \cup (IF any THEN {"multi"} ELSE {})]
    /\ pend' = [pend EXCEPT ![cur] = "ok"]
    /\ dly' = [dly EXCEPT ![cur] = timeout]
    /\ eptr' = [eptr EXCEPT ![cur] = IF any THEN None ELSE CHOOSE e \in E : TRUE]
    /\ multi' = [multi EXCEPT ![cur] = any \/ @]
    /\ many' = [many EXCEPT ![cur] = any]
    /\ wait' = [e \in Event |-> IF e \in E THEN wait[e] \cup {cur} ELSE wait[e]]
    /\ ready' = ready \ {cur}
    /\ evs' = [evs EXCEPT ![cur] = E]
    /\ pc' = [pc EXCEPT ![cur] = "sched"]

Take(E) ==
    /\ cnt' = [e \in Event |-> IF e \in E THEN cnt[e] - 1 ELSE cnt[e]]
    /\ balance' = [e \in Event |-> IF e \in E THEN balance[e] - 1 ELSE balance[e]]

\* OSSemPend, OSMboxPend, OSQPend.
Pend(e, timeout) ==
    /\ MayWait /\ e \in valid
    /\ \/ cnt[e] > 0 /\ Take({e}) /\ UNCHANGED <<tcb, call>>
       \/ cnt[e] = 0 /\ OS_EventTaskWait({e}, FALSE, timeout)
                     /\ UNCHANGED <<cnt, balance>>
    /\ UNCHANGED <<nest, valid, cur>>

\* OSEventPendMulti takes a token of every event that has one.
OSEventPendMulti(E, timeout) ==
    /\ MayWait /\ E \in Several[cur] /\ E \subseteq valid
    /\ LET full == {e \in E : cnt[e] > 0} IN
       \/ full # {} /\ Take(full) /\ UNCHANGED <<tcb, call>>
       \/ full = {} /\ OS_EventTaskWait(E, TRUE, timeout)
                    /\ UNCHANGED <<cnt, balance>>
    /\ UNCHANGED <<nest, valid, cur>>

\* The second half: a task whose wait ended in a timeout is still in the
\* waiting lists, unless a token has reached it since.
Leave(E) == [e \in Event |-> IF e \in E THEN wait[e] \ {cur} ELSE wait[e]]

\* OSEventPendMulti got an event that was deleted (its type is
\* OS_EVENT_TYPE_UNUSED): it returns OS_ERR_EVENT_TYPE from the middle.
EventTypeError ==
    many[cur] /\ pend[cur] = "ok" /\ eptr[cur] # None /\ eptr[cur] \notin valid

\* What the end of a pend call leaves in the TCB: it is cleared, unless the
\* call returns like that.
TaskStat == IF EventTypeError THEN UNCHANGED <<stat, multi>>
            ELSE /\ stat' = [stat EXCEPT ![cur] = {}]
                 /\ multi' = [multi EXCEPT ![cur] = FALSE]

\* The task is back in its own code, with the token it was handed.
Return ==
    /\ balance' = IF pend[cur] = "ok" /\ eptr[cur] # None
                  THEN [balance EXCEPT ![eptr[cur]] = @ - 1] ELSE balance
    /\ pend' = [pend EXCEPT ![cur] = "ok"]
    /\ eptr' = [eptr EXCEPT ![cur] = None]
    /\ evs' = [evs EXCEPT ![cur] = {}]
    /\ many' = [many EXCEPT ![cur] = FALSE]
    /\ pc' = [pc EXCEPT ![cur] = "run"]

MutWake ==
    /\ intNest = 0 /\ cur \in Task /\ pc[cur] = "wake"
    /\ TaskStat /\ Return
    /\ UNCHANGED <<wait, ready, dly, nest, valid, cnt, cur>>
Wake ==
    /\ intNest = 0 /\ cur \in Task /\ pc[cur] = "wake"
    /\ wait' = IF pend[cur] = "to" \/ eptr[cur] = None
               THEN Leave(evs[cur]) ELSE wait
    /\ TaskStat /\ Return
    /\ UNCHANGED <<ready, dly, nest, valid, cnt, cur>>

-----------------------------------------------------------------------------
(***************************************************************************)
(* Posts, from a task or an interrupt.                                     *)
(***************************************************************************)
MayPost == InTask \/ InIsr

\* OSSemPost, OSMboxPost, OSQPost: a token goes to the waiting task of the
\* highest priority, or into the event, or nowhere if the event is full.
Post(e) ==
    /\ MayPost /\ e \in valid
    /\ \/ /\ wait[e] # {}
          /\ OS_EventTaskRdy(e, {Min(wait[e])}, "ok")
          /\ balance' = [balance EXCEPT ![e] = @ + 1]
          /\ Sched
          /\ UNCHANGED cnt
       \/ /\ wait[e] = {} /\ cnt[e] < Limit[e]
          /\ cnt' = [cnt EXCEPT ![e] = @ + 1]
          /\ balance' = [balance EXCEPT ![e] = @ + 1]
          /\ UNCHANGED <<tcb, call>>
    /\ UNCHANGED <<nest, valid, cur>>

\* OSQPostOpt with OS_POST_OPT_BROADCAST, a token for each.
PostAll(e) ==
    /\ MayPost /\ e \in valid /\ Kind[e] = "q" /\ wait[e] # {}
    /\ OS_EventTaskRdy(e, wait[e], "ok")
    /\ balance' = [balance EXCEPT ![e] = @ + Cardinality(wait[e])]
    /\ Sched
    /\ UNCHANGED <<nest, valid, cnt, cur>>

\* OSQPendAbort, for the first task or all of them.
OSQPendAbort(e, W) ==
    /\ MayPost /\ e \in valid /\ Kind[e] = "q" /\ wait[e] # {}
    /\ OS_EventTaskRdy(e, W, "abort")
    /\ Sched
    /\ UNCHANGED <<nest, valid, cnt, cur, balance>>

OSQAccept(e) ==
    /\ MayPost /\ e \in valid /\ Kind[e] = "q" /\ cnt[e] > 0
    /\ Take({e})
    /\ UNCHANGED <<tcb, call, nest, valid, cur>>

\* OSQFlush and OSSemSet replace the tokens that nobody waits for.
SetCount(e, n) ==
    /\ MayPost /\ e \in valid
    /\ \/ Kind[e] = "q" /\ n = 0
       \/ Kind[e] = "sem" /\ (cnt[e] > 0 \/ wait[e] = {})
    /\ cnt' = [cnt EXCEPT ![e] = n]
    /\ balance' = [balance EXCEPT ![e] = @ - cnt[e] + n]
    /\ UNCHANGED <<tcb, call, nest, valid, cur>>

\* OSSemDel, OSQDel, with OS_DEL_ALWAYS if tasks wait: each of them returns
\* as if it had got a token.
Del(e) ==
    /\ InTask /\ e \in valid /\ Kind[e] # "mbox"
    /\ OS_EventTaskRdy(e, wait[e], "ok")
    /\ balance' = [balance EXCEPT ![e] = @ - cnt[e] + Cardinality(wait[e])]
    /\ cnt' = [cnt EXCEPT ![e] = 0]
    /\ valid' = valid \ {e}
    /\ IF wait[e] # {} THEN Sched ELSE UNCHANGED call
    /\ UNCHANGED <<nest, cur>>

\* OSSemCreate, OSQCreate, from the free list.
Create(e) ==
    /\ InTask /\ e \notin valid
    /\ valid' = valid \cup {e}
    /\ wait' = [wait EXCEPT ![e] = {}]
    /\ UNCHANGED <<ready, stat, pend, dly, eptr, multi, call, nest, cnt, cur, balance>>

-----------------------------------------------------------------------------
(***************************************************************************)
(* Time and suspension.                                                    *)
(***************************************************************************)
OSTimeDly(ticks) ==
    /\ MayWait
    /\ ready' = ready \ {cur}
    /\ dly' = [dly EXCEPT ![cur] = ticks]
    /\ Sched
    /\ UNCHANGED <<stat, pend, eptr, multi, wait, nest, valid, cnt, cur, balance>>

\* The end of a delay or of a timeout: the waiting lists stay, and so does
\* the bit of a wait for several events.
TimedOut(t) == evs[t] # {} /\ stat[t] \cap PendAny # {}
MutExpire(t) ==
    /\ dly' = [dly EXCEPT ![t] = 0]
    /\ stat' = [stat EXCEPT ![t] = @ \ PendAny]
    /\ pend' = [pend EXCEPT ![t] = IF TimedOut(t) THEN "to" ELSE "ok"]
    /\ ready' = IF TimedOut(t) THEN ready \cup {t} ELSE ready
Expire(t) ==
    /\ dly' = [dly EXCEPT ![t] = 0]
    /\ stat' = [stat EXCEPT ![t] = @ \ PendAny]
    /\ pend' = [pend EXCEPT ![t] = IF TimedOut(t) THEN "to" ELSE "ok"]
    /\ ready' = IF "suspend" \in stat[t] THEN ready ELSE ready \cup {t}

OSTimeDlyResume(t) ==
    /\ MayPost /\ dly[t] > 0
    /\ Expire(t)
    /\ IF "suspend" \in stat[t] THEN UNCHANGED call ELSE Sched
    /\ UNCHANGED <<eptr, multi, wait, nest, valid, cnt, cur, balance>>

\* OSTimeTick goes through the tasks, with a critical section for each.
TickStart ==
    /\ InIsr /\ tickLeft = {}
    /\ tickLeft' = Task
    /\ UNCHANGED <<tcb, call, lockNest, intNest, valid, cnt, cur, balance>>

MutTickTask ==
    /\ InIsr /\ tickLeft # {}
    /\ LET t == Max(tickLeft) IN
       /\ tickLeft' = tickLeft \ {t}
       /\ IF dly[t] = 1 /\ stat[t] \cap PendAny = {} THEN Expire(t)
          ELSE UNCHANGED <<dly, stat, pend, ready>>
    /\ UNCHANGED <<eptr, multi, wait, call, lockNest, intNest, valid, cnt, cur, balance>>
TickTask ==
    /\ InIsr /\ tickLeft # {}
    /\ LET t == Max(tickLeft) IN
       /\ tickLeft' = tickLeft \ {t}
       /\ \/ dly[t] = 0 /\ UNCHANGED <<dly, stat, pend, ready>>
          \/ /\ dly[t] > 1
             /\ dly' = [dly EXCEPT ![t] = @ - 1]
             /\ UNCHANGED <<stat, pend, ready>>
          \/ dly[t] = 1 /\ Expire(t)
    /\ UNCHANGED <<eptr, multi, wait, call, lockNest, intNest, valid, cnt, cur, balance>>

OSTaskSuspend(t) ==
    /\ InTask
    /\ ready' = ready \ {t}
    /\ stat' = [stat EXCEPT ![t] = @ \cup {"suspend"}]
    /\ IF t = cur THEN Sched ELSE UNCHANGED call
    /\ UNCHANGED <<pend, dly, eptr, multi, wait, nest, valid, cnt, cur, balance>>

\* Only a task with no bit left and no delay becomes ready.
OSTaskResume(t) ==
    /\ MayPost /\ "suspend" \in stat[t]
    /\ stat' = [stat EXCEPT ![t] = @ \ {"suspend"}]
    /\ IF stat[t] = {"suspend"} /\ dly[t] = 0
       THEN ready' = ready \cup {t} /\ Sched
       ELSE UNCHANGED <<ready, call>>
    /\ UNCHANGED <<pend, dly, eptr, multi, wait, nest, valid, cnt, cur, balance>>

-----------------------------------------------------------------------------
Timeout == 0 .. MaxDly

TaskStep ==
    \/ OS_Sched \/ Wake \/ OSSchedLock \/ OSSchedUnlock
    \/ \E e \in Event, n \in Timeout : Pend(e, n)
    \/ \E E \in Sets, n \in Timeout : OSEventPendMulti(E, n)
    \/ \E n \in Timeout \ {0} : OSTimeDly(n)
    \/ \E t \in Task : OSTaskSuspend(t)
    \/ \E e \in Event : Del(e) \/ Create(e)

Service ==
    \/ \E e \in Event :
          \/ Post(e) \/ PostAll(e) \/ OSQAccept(e)
          \/ \E n \in 0 .. 1 : SetCount(e, n)
          \/ \E W \in {wait[e], {Min(wait[e] \cup {Idle})}} : OSQPendAbort(e, W)
    \/ \E t \in Task : OSTimeDlyResume(t) \/ OSTaskResume(t)

Interrupt == OSIntEnter \/ OSIntExit \/ TickStart \/ TickTask

Next == TaskStep \/ Service \/ Interrupt

\* The tick interrupt comes again and again, and its service ends.
Fairness ==
    /\ WF_vars(OSIntEnter) /\ WF_vars(OSIntExit)
    /\ SF_vars(TickStart) /\ WF_vars(TickTask)

Spec == Init /\ [][Next]_vars /\ Fairness

-----------------------------------------------------------------------------
\* Every variable has its type.
TypeOK ==
    /\ ready \subseteq Task
    /\ stat \in [Task -> SUBSET Bit]
    /\ pend \in [Task -> {"ok", "to", "abort"}]
    /\ dly \in [Task -> Timeout]
    /\ eptr \in [Task -> Event \cup {None}]
    /\ multi \in [Task -> BOOLEAN]
    /\ evs \in [Task -> SUBSET Event]
    /\ many \in [Task -> BOOLEAN]
    /\ pc \in [Task -> {"run", "sched", "wake"}]
    /\ valid \subseteq Event
    /\ cnt \in [Event -> Nat] /\ \A e \in Event : cnt[e] <= Limit[e]
    /\ wait \in [Event -> SUBSET Task]
    /\ cur \in Task \cup {Idle}
    /\ lockNest \in 0 .. MaxNest /\ intNest \in 0 .. MaxNest
    /\ tickLeft \subseteq Task
    /\ balance \in [Event -> Int]

\* No token lies unused while a task waits for it.
NoTokenWaits == \A e \in Event : cnt[e] > 0 => wait[e] = {}

\* A task is in the waiting lists of the events of the pend call it is in, and
\* of no others; it is in all or none of them.
ListsMatch ==
    \A t \in Task, e \in Event :
        t \in wait[e] => /\ evs[t] = {f \in Event : t \in wait[f]}
                        /\ pend[t] # "abort" /\ evs[t] \subseteq valid

\* Events, waiting lists and task control blocks agree between any two critical
\* sections, though a task leaves a list in several steps.
EventsSound == TypeOK /\ NoTokenWaits /\ ListsMatch

\* The tokens posted to an event are those taken from it, those in it and
\* those handed to tasks that have not run since: none is lost to a timeout,
\* to a suspension or to a wait for several events, and none is doubled.
Handed(e) ==
    {t \in Task : evs[t] # {} /\ pend[t] = "ok" /\ eptr[t] = e /\ t \notin wait[e]}
TokensConserved ==
    \A e \in Event : balance[e] = cnt[e] + Cardinality(Handed(e))

\* A task that runs its own code with the scheduler unlocked is the highest
\* one that is ready.
HighestRuns ==
    intNest = 0 /\ lockNest = 0 /\ (cur \in Task => pc[cur] # "sched")
        => cur = HighestReady

\* A task that is not ready has something that can ready it: a suspension, a
\* delay or timeout, or the waiting list of an event it still waits for.
\* Excepted is a task whose OSTCBEventMultiPtr is set: in OSEventPendMulti a post
\* that finds it suspended leaves its other event in OSTCBStat, and after an
\* OS_ERR_EVENT_TYPE OSTCBStat keeps its bits until the next pend call that has
\* waited returns; OSTaskResume does not ready it then.
Waits(t) ==
    \/ "suspend" \in stat[t]
    \/ dly[t] > 0
    \/ \E e \in Event : t \in wait[e] /\ Kind[e] \in stat[t]
NoLostWakeup == \A t \in Task \ ready : multi[t] \/ Waits(t)

\* OSTaskResume "is the only call that will remove an explicit task
\* suspension", though the end of every pend call clears OSTCBStat.
SuspensionHolds ==
    [][\A t \in Task : "suspend" \in stat[t] /\ "suspend" \notin stat'[t]
                            => OSTaskResume(t)]_vars

\* A wait with a timeout ends, unless the task is suspended: the task becomes
\* ready, by a token, an abort, a deletion or the tick.
TimeoutEnds ==
    \A t \in Task : evs[t] # {} /\ dly[t] > 0
                       ~> t \in ready \/ "suspend" \in stat[t]
====
