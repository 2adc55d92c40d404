----------------------------- MODULE MCSendPath -----------------------------
(***************************************************************************)
(* SendPath for TLC: two connections, so that what is left of the first    *)
(* can meet the second, and more messages than fill the buffers twice.     *)
(* Two buffers, not the three of the code: one in flight while the other   *)
(* is filled, the queue full with both (liveness with three takes TLC      *)
(* five minutes; the proofs of SendPathProofs are for any number).         *)
(***************************************************************************)
EXTENDS SendPath
====
