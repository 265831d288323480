-------------------------- MODULE MCStacklessSync --------------------------
(* StacklessSync with three contenders and two waiters on two workers *)
EXTENDS StacklessSync

CONSTANTS c1, c2, c3, v1, v2, w1, w2

MCContenders == {c1, c2, c3}
MCCoroutine == {c1, c2, c3, v1, v2}
MCWorkers == {w1, w2}
OneYielder == {c1}
TwoYielders == {c1, c2}
=============================================================================
