------------------------------ MODULE MCFibers ------------------------------
(***************************************************************************)
(* The mutex and the condition variable with three fibers on two workers:  *)
(* a behaviour is one of fibers that lock and unlock, or one of fibers     *)
(* that use the semaphore over the condition variable, as its first state  *)
(* says.                                                                   *)
(***************************************************************************)
EXTENDS FiberMutex, FiberCondVar

CONSTANTS f1, f2, f3, w1, w2

MCFiber   == {f1, f2, f3}
MCWorkers == {w1, w2}

VARIABLE part

mutexOnly == <<mvars, lvars, bvars>>
condVarOnly == <<ownerVars, permits, futexVars, localVars, fate>>
vars == <<part, fvars, mutexOnly, condVarOnly>>

Init == part \in {"mutex", "condvar"} /\ MutexInit /\ CondVarInit

Next ==
  \/ part = "mutex" /\ MutexNext /\ UNCHANGED <<part, condVarOnly>>
  \/ part = "condvar" /\ CondVarNext /\ UNCHANGED <<part, mutexOnly>>

(* the fairness of MutexFairSpec and CondVarFairSpec, each for its part *)
Fairness ==
  /\ \A w \in Workers : /\ WF_mutexVars(part = "mutex" /\ MutexWorker(w))
                        /\ WF_condVarVars(part = "condvar" /\ CondVarWorker(w))
  /\ \A f \in Fiber : WF_condVarVars(part = "condvar" /\ ~died /\ CondVarGo(f))

FairSpec == Init /\ [][Next]_vars /\ Fairness
=============================================================================
