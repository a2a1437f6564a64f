----------------------------- MODULE MCSpscQueue -----------------------------
(* A ring of four slots (three usable) carrying two kinds of events: every    *)
(* wrap-around position, full, empty and every staleness of both views.       *)
EXTENDS SpscQueue, TLC

Symmetry == Permutations(Event)
=============================================================================
