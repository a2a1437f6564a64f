---------------------------- MODULE MCPolicyCache ----------------------------
(* Three processes for a map of two places; three versions of the settings     *)
(* that treat the first two processes differently, so that a stale policy       *)
(* shows; two instants, an entry of the first having expired at the second.     *)
EXTENDS PolicyCache, TLC

CONSTANTS p1, p2, p3

MCSmooths == 1 :> {p1, p2} @@ 2 :> {p2} @@ 3 :> {p1}
=============================================================================
