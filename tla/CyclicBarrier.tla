--------------------------- MODULE CyclicBarrier ---------------------------
(***************************************************************************)
(* concurrency/barrier.h: ArriveAndWait, one action per critical section.  *)
(* A thread that waits on all_arrived_ is woken by notify_all or without   *)
(* reason, and then looks at generation_ again.                            *)
(***************************************************************************)
EXTENDS Naturals, FiniteSets

CONSTANTS Participant

VARIABLES
  generation,     \* generation_
  arrivedCount,   \* arrived_count
  myGeneration,   \* this_thread_generation of the threads inside
  atBarrier,      \* the threads inside ArriveAndWait
  asleep          \* those of them that wait on all_arrived_

barrierVars == <<generation, arrivedCount, myGeneration, atBarrier, asleep>>

BarrierInit ==
  /\ generation = 0
  /\ arrivedCount = 0
  /\ myGeneration = [p \in Participant |-> 0]
  /\ atBarrier = {} /\ asleep = {}

Arrive(p) ==
  /\ myGeneration' = [myGeneration EXCEPT ![p] = generation]
  /\ atBarrier' = atBarrier \cup {p}
  /\ IF arrivedCount + 1 = Cardinality(Participant)
       THEN /\ generation' = generation + 1
            /\ arrivedCount' = 0
            /\ asleep' = {}
       ELSE /\ arrivedCount' = arrivedCount + 1
            /\ asleep' = asleep \cup {p}
            /\ UNCHANGED generation

(* a faulty Recheck, for testing the properties *)
RecheckNothing(p) ==
  /\ p \in atBarrier \ asleep
  /\ atBarrier' = atBarrier \ {p} /\ UNCHANGED asleep
  /\ UNCHANGED <<generation, arrivedCount, myGeneration>>

(* while (this_thread_generation == generation_) *)
Recheck(p) ==
  /\ p \in atBarrier \ asleep
  /\ IF myGeneration[p] = generation
       THEN asleep' = asleep \cup {p} /\ UNCHANGED atBarrier
       ELSE atBarrier' = atBarrier \ {p} /\ UNCHANGED asleep
  /\ UNCHANGED <<generation, arrivedCount, myGeneration>>

SpuriousWakeup(p) ==
  /\ p \in asleep
  /\ asleep' = asleep \ {p}
  /\ UNCHANGED <<generation, arrivedCount, myGeneration, atBarrier>>

=============================================================================
