------------------------------ MODULE MCFutures ------------------------------
(* Futures: all pipelines of N combinators, over an inline executor, a      *)
(* pool, and the two in turn                                                *)
EXTENDS Futures

CONSTANTS w1, w2

MCWorkers == {w1, w2}

Kinds == [1..N -> {"then", "flat", "recover"}]
Funs  == [1..N -> {"ok", "err", "throw"}]
Vias  ==
  { [c \in Contracts |-> "inline"], [c \in Contracts |-> "pool"],
    [c \in Contracts |-> IF c % 2 = 0 THEN "pool" ELSE "inline"],
    [c \in Contracts |-> IF c % 2 = 0 THEN "inline" ELSE "pool"] }

MCPrograms ==
  [kind : Kinds, fun : Funs, source : {"ok", "err"}, inner : {"ok", "err"},
   via : Vias]
=============================================================================
