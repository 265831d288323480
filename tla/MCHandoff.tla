----------------------------- MODULE MCHandoff -----------------------------
(***************************************************************************)
(* Threads that wait for each other, and fibers that do: a behaviour is    *)
(* one of Handoff with a producer and two consumers, or one of a wait      *)
(* group with two doers and two waiters on three workers.                  *)
(***************************************************************************)
EXTENDS Handoff, FiberWaitGroup

CONSTANTS main, p, k1, k2, o1, o2, b1, b2, d1, d2, f1, f2, w1, w2, w3

MCParticipant == {main, p, k1, k2}
MCConsumer == {k1, k2}
MCObject == {o1, o2}
MCBlock == {b1, b2}
MCRefSlot == {main, p} \X {1, 2} \cup {k1, k2} \X {1}
MCSlot == {p, k1, k2} \X {1, 2}
MCDoers == {d1, d2}
MCFiber == {d1, d2, f1, f2}
MCWorkers == {w1, w2, w3}

VARIABLE part

vars == <<part, handoffVars, groupVars>>

Init == part \in {"handoff", "group"} /\ HandoffInit /\ GroupInit

Next ==
  \/ part = "handoff" /\ HandoffNext /\ UNCHANGED <<part, groupVars>>
  \/ part = "group" /\ GroupNext /\ UNCHANGED <<part, handoffVars>>

(* the fairness of HandoffFairSpec and GroupFairSpec, each for its part *)
Fairness ==
  /\ \A t \in Participant : WF_handoffVars(part = "handoff" /\ Progress(t))
  /\ \A w \in Workers : WF_groupVars(part = "group" /\ GroupWorker(w))
  /\ WF_groupVars(part = "group" /\ ParentStep)

FairSpec == Init /\ [][Next]_vars /\ Fairness

(* Every thread of Handoff comes to its end: no wake-up of the barrier,    *)
(* the queue or the event is lost.                                         *)
HandoffEnds == part = "handoff" => Terminates
=============================================================================
