------------------------------ MODULE Executor ------------------------------
(***************************************************************************)
(* What an IExecutor promises its callers (executors/executor.h, task.h):  *)
(* a task handed to Execute is eventually given exactly one of Run and     *)
(* Discard, exactly once, and its Run returns.                             *)
(***************************************************************************)
CONSTANT Tasks

VARIABLE status

Init == status = [t \in Tasks |-> "new"]

Become(t, from, to) ==
  /\ status[t] = from
  /\ status' = [status EXCEPT ![t] = to]

Next ==
  \E t \in Tasks :
    \/ Become(t, "new", "pending")
    \/ Become(t, "pending", "running")
    \/ Become(t, "running", "done")
    \/ Become(t, "pending", "discarded")

(* Every accepted task is resolved. *)
Resolved(t) == status[t] \in {"done", "discarded"}

Spec == Init /\ [][Next]_status

LiveSpec == Spec /\ \A t \in Tasks : (status[t] = "pending") ~> Resolved(t)
=============================================================================
