------------------------------- MODULE OsTimer -------------------------------
(***************************************************************************)
(* The software timers of uC/OS-II (os_tmr.c), on which the adapter builds *)
(* its own: a wheel of spokes, each the head of a doubly linked list of    *)
(* the timers whose expiry time falls on it, a free list, and the timer    *)
(* task, which the tick signals through a semaphore and which walks one    *)
(* spoke per signal and calls back the timers that are due.                *)
(*                                                                         *)
(* Every service runs under OSSchedLock, and so does the walk: a service   *)
(* is a step and none comes between the steps of a walk, but the tick is   *)
(* an interrupt and comes anywhere.  A callback does what HF_timer_callback*)
(* can do to the timers: nothing, restart the timer that expired, or set   *)
(* another one perhaps and then delete the one that expired.               *)
(*                                                                         *)
(* Timers are created through tls_os_timer_create (wm_osal_ucos.h), which  *)
(* passes no delay and a period of at least one tick, and OS_TMR_OPT_NONE  *)
(* for a timer that goes off once; OS_ARG_CHK_EN is 0, so that OSTmrCreate *)
(* does not look at them.  tls_os_timer_change, which would give a timer a *)
(* delay of its own, has no caller.                                        *)
(***************************************************************************)
EXTENDS Integers, FiniteSets, Sequences

CONSTANTS
    TmrMax,     \* OS_TMR_CFG_MAX, the number of timers
    Spokes,     \* OS_TMR_CFG_WHEEL_SIZE
    M,          \* 2^32, where OSTmrTime wraps
    MaxWait,    \* bound: the longest delay or period
    Kinds,      \* bound: the options and periods timers are created with
    MaxSig      \* 65535, the largest count of OSTmrSemSignal

ASSUME WheelAssumption ==
    /\ TmrMax \in Nat \ {0} /\ Spokes \in Nat \ {0} /\ M \in Nat \ {0}
    /\ MaxWait \in 1 .. M - 1
    /\ Kinds \subseteq {"none", "periodic"} \X (1 .. MaxWait)
    /\ MaxSig \in Nat \ {0}

Tmr == 1 .. TmrMax
Null == 0

VARIABLES
    tmr,        \* the timers and the lists they are in, see Fresh
    time,       \* OSTmrTime
    sig,        \* the count of OSTmrSemSignal
    tmrTask,    \* the timer task: "pend", "signalled" or "walk"
    ptmr        \* ptmr of the walk

tmrVars == <<tmr, time, sig, tmrTask, ptmr>>

\* OSTmr_Init: all the timers in the free list, the spokes empty.
Fresh == [
    state  |-> [t \in Tmr |-> "unused"],
    opt    |-> [t \in Tmr |-> "none"],
    dly    |-> [t \in Tmr |-> 0],
    period |-> [t \in Tmr |-> 0],
    match  |-> [t \in Tmr |-> 0],
    next   |-> [t \in Tmr |-> IF t = TmrMax THEN Null ELSE t + 1],
    prev   |-> [t \in Tmr |-> Null],
    first  |-> [s \in 0 .. Spokes - 1 |-> Null],
    free   |-> 1]

Spoke(x, t) == x.match[t] % Spokes

\* f with the value at p replaced, and left alone if p is the null pointer.
Store(f, p, v) == IF p = Null THEN f ELSE [f EXCEPT ![p] = v]

-----------------------------------------------------------------------------
\* The lists

\* The spoke of the delay instead of the spoke of the expiry time.
MutOSTmr_Link(x, t, type) ==
    LET wait == IF type = "periodic" \/ x.dly[t] = 0 THEN x.period[t] ELSE x.dly[t]
        match == (time + wait) % M
        s == wait % Spokes
    IN [x EXCEPT !.state[t] = "running",
                 !.match[t] = match,
                 !.next[t] = x.first[s],
                 !.prev = [Store(x.prev, x.first[s], t) EXCEPT ![t] = Null],
                 !.first[s] = t]

OSTmr_Link(x, t, type) ==
    LET wait == IF type = "periodic" \/ x.dly[t] = 0 THEN x.period[t] ELSE x.dly[t]
        match == (time + wait) % M
        s == match % Spokes
    IN [x EXCEPT !.state[t] = "running",
                 !.match[t] = match,
                 !.next[t] = x.first[s],
                 !.prev = [Store(x.prev, x.first[s], t) EXCEPT ![t] = Null],
                 !.first[s] = t]

\* The successor keeps its link to the timer that is removed.
MutOSTmr_Unlink(x, t) ==
    LET s == Spoke(x, t)
        atHead == x.first[s] = t
        before == IF atHead THEN Null ELSE x.prev[t]
        after == x.next[t]
    IN [x EXCEPT !.state[t] = "stopped",
                 !.first[s] = IF atHead THEN after ELSE @,
                 !.next = [Store(x.next, before, after) EXCEPT ![t] = Null],
                 !.prev[t] = Null]

OSTmr_Unlink(x, t) ==
    LET s == Spoke(x, t)
        atHead == x.first[s] = t
        before == IF atHead THEN Null ELSE x.prev[t]
        after == x.next[t]
    IN [x EXCEPT !.state[t] = "stopped",
                 !.first[s] = IF atHead THEN after ELSE @,
                 !.next = [Store(x.next, before, after) EXCEPT ![t] = Null],
                 !.prev = [Store(x.prev, after, before) EXCEPT ![t] = Null]]

OSTmr_Alloc(x) ==
    LET t == x.free
    IN [x EXCEPT !.free = x.next[t], !.next[t] = Null, !.prev[t] = Null]

\* The delay survives in a freed timer; OSTmrCreate overwrites it.
OSTmr_Free(x, t) ==
    [x EXCEPT !.state[t] = "unused", !.opt[t] = "none", !.period[t] = 0,
              !.match[t] = 0, !.prev[t] = Null, !.next[t] = x.free, !.free = t]

-----------------------------------------------------------------------------
\* The services, as what they make of the timers

Created(x, k) ==
    LET t == x.free
    IN [OSTmr_Alloc(x) EXCEPT !.state[t] = "stopped", !.dly[t] = 0,
                              !.opt[t] = k[1], !.period[t] = k[2]]

Started(x, t) ==
    OSTmr_Link(IF x.state[t] = "running" THEN OSTmr_Unlink(x, t) ELSE x, t, "dly")

Deleted(x, t) ==
    OSTmr_Free(IF x.state[t] = "running" THEN OSTmr_Unlink(x, t) ELSE x, t)

\* HF_timer_callback (the timers of the adapter go off once): the first time
\* it restarts the timer; the second time the action of the timer, which may
\* set another one, and then TIMER_StopTimer, which deletes it.
SetAnother(x) ==
    IF x.free = Null THEN {}
    ELSE {Started(Created(x, k), x.free) : k \in {j \in Kinds : j[1] = "none"}}

Callback(x, t) ==
    {x, Started(x, t), Deleted(x, t)} \cup {Deleted(y, t) : y \in SetAnother(x)}

-----------------------------------------------------------------------------
\* Tasks call the services when the timer task does not hold the scheduler.

OSTmrCreate(k) ==
    /\ tmrTask # "walk"
    /\ tmr.free # Null
    /\ tmr' = Created(tmr, k)
    /\ UNCHANGED <<time, sig, tmrTask, ptmr>>

OSTmrStart(t) ==
    /\ tmrTask # "walk"
    /\ tmr.state[t] # "unused"
    /\ UNCHANGED <<time, sig, tmrTask, ptmr>>
    /\ tmr' = Started(tmr, t)

OSTmrStop(t) ==
    /\ tmrTask # "walk"
    /\ tmr.state[t] = "running"
    /\ UNCHANGED <<time, sig, tmrTask, ptmr>>
    /\ \E x \in {OSTmr_Unlink(tmr, t)} :
        \/ tmr' = x
        \/ tmr' \in Callback(x, t)    \* OS_TMR_OPT_CALLBACK

OSTmrDel(t) ==
    /\ tmrTask # "walk"
    /\ tmr.state[t] # "unused"
    /\ tmr' = Deleted(tmr, t)
    /\ UNCHANGED <<time, sig, tmrTask, ptmr>>

-----------------------------------------------------------------------------
\* The tick and the timer task

\* OSTimeTickHook calls OSTmrSignal; the post at the limit is refused and the
\* tick is lost.
OSTmrSignal ==
    /\ sig' = IF sig < MaxSig THEN sig + 1 ELSE sig
    /\ UNCHANGED <<tmr, time, tmrTask, ptmr>>

\* OSSemPend returns; other tasks may still run before OSSchedLock.
Signalled ==
    /\ tmrTask = "pend"
    /\ sig > 0
    /\ sig' = sig - 1
    /\ tmrTask' = "signalled"
    /\ UNCHANGED <<tmr, time, ptmr>>

StartWalk ==
    /\ tmrTask = "signalled"
    /\ time' = (time + 1) % M
    /\ ptmr' = tmr.first[time' % Spokes]
    /\ tmrTask' = "walk"
    /\ UNCHANGED <<tmr, sig>>

\* What becomes of a timer that is due, before its callback.
Expired(x, t) ==
    IF x.opt[t] = "periodic"
    THEN OSTmr_Link(OSTmr_Unlink(x, t), t, "periodic")
    ELSE [OSTmr_Unlink(x, t) EXCEPT !.state[t] = "completed"]

\* ptmr_next is read after the callback.
MutVisit ==
    /\ tmrTask = "walk"
    /\ ptmr # Null
    /\ UNCHANGED <<time, sig, tmrTask>>
    /\ IF tmr.match[ptmr] = time
       THEN \E x \in {Expired(tmr, ptmr)} : tmr' \in Callback(x, ptmr)
       ELSE UNCHANGED tmr
    /\ ptmr' = tmr'.next[ptmr]

\* One timer of the spoke; ptmr_next is read before the callback runs.
Visit ==
    /\ tmrTask = "walk"
    /\ ptmr # Null
    /\ UNCHANGED <<time, sig, tmrTask>>
    /\ ptmr' = tmr.next[ptmr]
    /\ IF tmr.match[ptmr] = time
       THEN \E x \in {Expired(tmr, ptmr)} : tmr' \in Callback(x, ptmr)
       ELSE UNCHANGED tmr

\* The end of the spoke: OSSchedUnlock.
EndWalk ==
    /\ tmrTask = "walk"
    /\ ptmr = Null
    /\ tmrTask' = "pend"
    /\ UNCHANGED <<tmr, time, sig, ptmr>>

TmrInit == tmr = Fresh /\ time = 0 /\ sig = 0 /\ tmrTask = "pend" /\ ptmr = Null

OSTmr_Task == Signalled \/ StartWalk \/ Visit \/ EndWalk

TmrNext ==
    \/ OSTmr_Task
    \/ OSTmrSignal
    \/ \E t \in Tmr : OSTmrStart(t) \/ OSTmrStop(t) \/ OSTmrDel(t)
    \/ \E k \in Kinds : OSTmrCreate(k)

\* The hardware timer ticks for ever and the timer task runs when signalled.
TmrSpec == TmrInit /\ [][TmrNext]_tmrVars /\ WF_tmrVars(OSTmrSignal) /\ WF_tmrVars(OSTmr_Task)

-----------------------------------------------------------------------------
\* Properties

\* The timers that next leads to from p on, p included: the least set that
\* holds p and the successor of each of its members.
Closed(next, S) == \A t \in S : next[t] \in S \cup {Null}

Chain(x, p) ==
    {t \in Tmr : \A S \in SUBSET Tmr : (Closed(x.next, S) /\ p \in S \cup {Null}) => t \in S}

\* What a timer and the heads of the lists can be.
TmrTable == [
    state  : [Tmr -> {"unused", "stopped", "completed", "running"}],
    opt    : [Tmr -> {"none", "periodic"}],
    dly    : [Tmr -> 0 .. MaxWait],
    period : [Tmr -> 0 .. MaxWait],
    match  : [Tmr -> 0 .. M - 1],
    next   : [Tmr -> Tmr \cup {Null}],
    prev   : [Tmr -> Tmr \cup {Null}],
    first  : [0 .. Spokes - 1 -> Tmr \cup {Null}],
    free   : Tmr \cup {Null}]

\* Every variable has its type: the count of the semaphore stays in its limit.
TmrTypeOK ==
    /\ tmr \in TmrTable
    /\ time \in 0 .. M - 1
    /\ sig \in 0 .. MaxSig
    /\ tmrTask \in {"pend", "signalled", "walk"}
    /\ ptmr \in Tmr \cup {Null}

\* The lists of os_tmr.c stay what they are meant to be whatever is started,
\* stopped, deleted or called back in between: a running timer is in the list
\* of the spoke of its expiry time and in no other, next and prev agree along
\* it, and the free list holds exactly the unused timers.
WheelSound ==
    /\ TmrTypeOK
    /\ \A s \in 0 .. Spokes - 1 :
        /\ Chain(tmr, tmr.first[s]) =
                {t \in Tmr : tmr.state[t] = "running" /\ Spoke(tmr, t) = s}
        /\ tmr.first[s] # Null => tmr.prev[tmr.first[s]] = Null
    /\ \A t \in Tmr : (tmr.state[t] = "running" /\ tmr.next[t] # Null)
                        => tmr.prev[tmr.next[t]] = t
    /\ Chain(tmr, tmr.free) = {t \in Tmr : tmr.state[t] = "unused"}

\* A walk of OSTmr_Task under way will still come by every timer that is due
\* now: no callback has taken it out from under the walk.
WalkReachesDue ==
    tmrTask = "walk" =>
        \A t \in Tmr : (tmr.state[t] = "running" /\ tmr.match[t] = time) => t \in Chain(tmr, ptmr)

Left(t) == IF tmr.state[t] = "running" THEN (tmr.match[t] - time) % M ELSE -1

\* The wheel implements the countdown: each timer's callback runs in the walk
\* of exactly the tick it was set for, across the wrap of OSTmrTime, and the
\* next tick waits for it.
Countdown == INSTANCE TmrCountdown
    WITH left <- [t \in Tmr |-> Left(t)], MaxDly <- MaxWait
OnTime == Countdown!Spec

\* A running timer does not run for ever: it expires, unless the application
\* stops it or starts it again and again.
RunningEnds ==
    \A t \in Tmr :
        []<>(tmr.state[t] # "running") \/ []<><<Left(t)' > Left(t)>>_tmrVars
=============================================================================
