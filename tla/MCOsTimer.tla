------------------------------ MODULE MCOsTimer ------------------------------
(***************************************************************************)
(* OsTimer for TLC: three timers, so that one can be removed from the      *)
(* middle of a list, on two spokes; periods shorter and longer than a turn *)
(* of the wheel, so that a timer that is not due shares a list with one    *)
(* that is, and one of exactly a turn, so that a periodic timer goes back  *)
(* into the list that is walked; the time wraps after four ticks instead   *)
(* of 2^32.                                                                *)
(***************************************************************************)
EXTENDS OsTimer

MCKinds == {<<"none", 1>>, <<"none", 3>>, <<"periodic", 2>>}
=============================================================================
