---------------------------- MODULE TmrCountdown ----------------------------
(***************************************************************************)
(* What the software timers of uC/OS-II promise: a started timer counts    *)
(* down with every tick, all of them together, its callback runs when it   *)
(* reaches zero, and time does not go on before that.                      *)
(***************************************************************************)
EXTENDS Integers

CONSTANTS
    Tmr,    \* timers
    MaxDly  \* the longest delay or period

VARIABLE left   \* ticks until a timer expires, Off if it is not running

Off == -1

Init == left = [t \in Tmr |-> Off]

\* No timer is due: time moves on for all of them.
Tick ==
    /\ \A t \in Tmr : left[t] # 0
    /\ left' = [t \in Tmr |-> IF left[t] = Off THEN Off ELSE left[t] - 1]

\* The timers other than t stay as they are, or are started.
OthersStart(t) ==
    \A u \in Tmr \ {t} :
        left'[u] = left[u] \/ (left[u] = Off /\ left'[u] \in 1 .. MaxDly)

\* A timer that is due expires: it runs again or not, and its callback may
\* start others.
Expire(t) ==
    /\ left[t] = 0
    /\ left'[t] \in {Off} \cup 1 .. MaxDly
    /\ OthersStart(t)

\* Between the ticks the application starts, restarts and stops a timer; the
\* callback of one that is stopped may start others.
Change(t) ==
    /\ \A u \in Tmr : left[u] # 0
    /\ left'[t] \in {Off} \cup 1 .. MaxDly
    /\ OthersStart(t)

Next == Tick \/ \E t \in Tmr : Expire(t) \/ Change(t)

Spec == Init /\ [][Next]_left
=============================================================================
