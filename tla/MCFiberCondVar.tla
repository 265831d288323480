--------------------------- MODULE MCFiberCondVar ---------------------------
(* FiberCondVar with four fibers on three workers *)
EXTENDS FiberCondVar, TLC

CONSTANTS f1, f2, f3, f4, w1, w2, w3

MCFiber   == {f1, f2, f3, f4}
MCWorkers == {w1, w2, w3}

Symmetry == Permutations(MCFiber) \cup Permutations(MCWorkers)
=============================================================================
