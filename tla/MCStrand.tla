------------------------------ MODULE MCStrand ------------------------------
(* Strand with two producers, two workers and three tasks; the last task  *)
(* is submitted by a producer or by the body of the first.                 *)
EXTENDS Strand

CONSTANTS p1, p2, w1, w2, t1, t2, t3

MCTasks     == {t1, t2, t3}
MCProducers == {p1, p2}
MCWorkers   == {w1, w2}
MCSpawn     == [t \in MCTasks |-> IF t = t1 THEN {t3} ELSE {}]
=============================================================================
