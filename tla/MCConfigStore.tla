--------------------------- MODULE MCConfigStore ---------------------------
(***************************************************************************)
(* ConfigStore for TLC: an address that accepts and one that does not, two *)
(* tokens, so that one replaces the other, one configuration of the        *)
(* device, one power loss and one failed write, a fallback after two       *)
(* failures instead of twenty-two.                                         *)
(***************************************************************************)
EXTENDS ConfigStore
====
