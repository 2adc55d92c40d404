------------------------------ MODULE MCKernel ------------------------------
(***************************************************************************)
(* Kernel for TLC: two tasks and the idle task, a semaphore and a queue,   *)
(* each full with one token, so that a pend finds them empty or full and a *)
(* post finds them empty, full or waited for; the lower task also waits for *)
(* both at once (the higher one comes between any two of its steps);       *)
(* delays of up to two ticks, so that a timeout comes at once or is        *)
(* overtaken by a post; one level of interrupts, so none within another,   *)
(* and of the scheduler lock.                                              *)
(***************************************************************************)
EXTENDS Kernel

MCEvent == {"s", "q"}
MCKind == [e \in MCEvent |-> IF e = "s" THEN "sem" ELSE "q"]
MCSeveral == <<{}, {MCEvent}>>
MCLimit == [e \in MCEvent |-> 1]
====
