------------------------------- MODULE MCPct --------------------------------
(***************************************************************************)
(* Pct for TLC.  MCPct checks safety, with all message codes; MCPctLive    *)
(* checks liveness, with those codes that change the state.  One slot more *)
(* than the agent needs awake, for the access timer that a NET_UP may find *)
(* running.                                                                *)
(***************************************************************************)
EXTENDS Pct
=============================================================================
