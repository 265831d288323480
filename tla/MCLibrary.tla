----------------------------- MODULE MCLibrary ------------------------------
(***************************************************************************)
(* The sequential parts of the library side by side: a behaviour is one of *)
(* the coroutines or one of the HTTP client, as its first state says.      *)
(***************************************************************************)
EXTENDS Coroutines, HttpClient, TLC

CONSTANTS c1, g1, g2, p1, p2, r1, r2, q1, q2, h1, h2, m1, m2

MCCoro == {c1}
MCGen == {g1, g2}
MCProc == {p1, p2}
MCResults == {r1, r2}
MCRequests == {q1, q2}
MCOthers == {q1, q2, Builder, Local}
MCHandle == {h1, h2}
MCToken == {m1, m2}
MCKeys == {"a", "b"}
MCValues == {<< >>, <<"v">>, <<"v", "colon", "space", "w">>}
MCLineEnds == {<<"lf">>, <<"cr", "lf">>, <<"lf", "cr">>}

Symmetry == Permutations(MCGen) \cup Permutations(MCProc)

VARIABLE part

vars == <<part, coroutineVars, resultVars, httpVars>>

Init == part \in {"coroutines", "http"} /\ CoroutinesInit /\ ResultInit /\ HttpInit

Next ==
  \/ part = "coroutines" /\ CoroutinesNext /\ UNCHANGED <<part, resultVars, httpVars>>
  \/ part = "http" /\ HttpNext /\ UNCHANGED <<part, coroutineVars>>

Spec == Init /\ [][Next]_vars
=============================================================================
