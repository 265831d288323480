----------------------------- MODULE MCLockFree -----------------------------
(***************************************************************************)
(* The stack and, over atomic stacks, the queue: a behaviour is one of the *)
(* stack, with few threads and addresses that are used again, or one of    *)
(* the queue, with one consumer as in its tests.                           *)
(***************************************************************************)
EXTENDS LockFreeStack, LockFreeQueue

CONSTANTS t1, t2, t3, n1, n2, c1

MCThread == {t1, t2, t3}
MCNode == {n1, n2}
OneConsumer == {c1}

VARIABLE part

vars == <<part, stackVars, queueVars>>

Init == part \in {"stack", "queue"} /\ StackInit /\ QueueInit

Next ==
  \/ part = "stack" /\ StackNext /\ UNCHANGED <<part, queueVars>>
  \/ part = "queue" /\ QueueNext /\ UNCHANGED <<part, stackVars>>

Spec == Init /\ [][Next]_vars

StackSymmetry == Permutations(Thread) \cup Permutations(Node)
=============================================================================
