--------------------------- MODULE MCMotionEngine ---------------------------
(* Two tunings that differ in duration, curve, scale and acceleration, so that  *)
(* impulses overlap, end out of order and are re-timed on the way.              *)
EXTENDS MotionEngine

Slow == [duration |-> 2, ratio |-> [head |-> 3, tail |-> 1], easing |-> TRUE,
         scale |-> 1, scaleOf |-> 1, window |-> 3, fastest |-> 200]

Quick == [duration |-> 1, ratio |-> [head |-> 1, tail |-> 1], easing |-> FALSE,
          scale |-> 1, scaleOf |-> 4, window |-> 0, fastest |-> 100]

MCTuning == {Slow, Quick}
MCDelta == {-3, 1}

Symmetry == Permutations(Axis)
=============================================================================
