------------------------------ MODULE MCHotPath ------------------------------
(* Two windows of two processes and a queue of two usable places.              *)
EXTENDS HotPath, TLC

CONSTANTS w1, w2, p1, p2

MCOwner == w1 :> p1 @@ w2 :> p2

\* Swapping the windows together with their processes changes nothing.
Swap == (w1 :> w2) @@ (w2 :> w1) @@ (p1 :> p2) @@ (p2 :> p1)
Symmetry == {[x \in DOMAIN Swap |-> x], Swap}
=============================================================================
