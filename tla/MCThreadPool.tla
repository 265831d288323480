---------------------------- MODULE MCThreadPool ----------------------------
(* ThreadPool with two workers, two clients and two tasks; the second task *)
(* is submitted by a client or by the body of the first.                   *)
EXTENDS ThreadPool, TLC

CONSTANTS w1, w2, c1, c2, t1, t2

MCTasks   == {t1, t2}
MCWorkers == {w1, w2}
MCClients == {c1, c2}
MCSpawn   == [t \in MCTasks |-> IF t = t1 THEN {t2} ELSE {}]
=============================================================================
