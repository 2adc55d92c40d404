------------------------------ MODULE MCNetLink ------------------------------
(***************************************************************************)
(* NetLink for TLC.  Two messages fit a queue, so that a join, a loss and  *)
(* the next join overlap; a request is repeated once before the client     *)
(* gives up, and tries wraps at three, so that it wraps while it selects   *)
(* and while it renews.                                                    *)
(***************************************************************************)
EXTENDS NetLink
=============================================================================
