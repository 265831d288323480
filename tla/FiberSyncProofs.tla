-------------------------- MODULE FiberSyncProofs --------------------------
(***************************************************************************)
(* Proofs about the core of the fibers, and over those about their         *)
(* synchronisation primitives: the mutex, the wait group with its event,   *)
(* and the condition variable with its futex.                              *)
(***************************************************************************)
EXTENDS SequenceFacts, FiniteSetTheorems, FiberMutex, FiberWaitGroup, FiberCondVar

----------------------------------------------------------------------------
(***************************************************************************)
(* Proofs about the core of the fibers, for every set of fibers and of     *)
(* workers: each operation of Fibers preserves CoreInv, from which         *)
(* OneWorkerPerFiber follows, if it is called as the core calls it.  The   *)
(* proofs about the synchronisation primitives cite these lemmas and show  *)
(* that the primitives do call it like that: ReturnNext with a suspended   *)
(* fiber that nobody else executes, Schedule with one that nobody executes *)
(* any more.                                                               *)
(***************************************************************************)

(* each stack is in one place *)
Distinct(s) ==
  /\ IsInjective(s.pool)
  /\ \A f, g \in Fiber : s.of[f] = s.of[g] /\ s.of[f] /= None => f = g
  /\ \A f \in Fiber : s.of[f] \notin ToSet(s.pool)

(* the stack with the name of f was not allocated yet *)
Fresh(s, f) == f \notin ToSet(s.pool) /\ \A g \in Fiber : s.of[g] /= f

StacksType == [of : [Fiber -> Fiber \cup {None}], pool : Seq(Fiber)]

StackInv ==
  /\ Distinct(stacks)
  /\ \A f \in Fiber : state[f] = "None" <=> stacks.of[f] = None
  /\ \A f \in Fiber : pc[f] = "new" => state[f] = "None" /\ Fresh(stacks, f)

QueueInv ==
  /\ IsInjective(runq)
  /\ ToSet(runq) = {f \in Fiber : state[f] = "Queued"}

Executes(w) == at[w] \in {"fiber", "awaiter"}

WorkerInv ==
  /\ \A w \in Workers : at[w] = "fiber" => state[this[w]] = "Running"
  /\ \A w \in Workers : at[w] = "awaiter" => state[this[w]] = "Suspended"
  /\ \A v, w \in Workers : Executes(v) /\ Executes(w) /\ this[v] = this[w] => v = w

(* each fiber has a label; which labels there are is up to the routines *)
PcType == pc = [f \in Fiber |-> pc[f]]

CoreInv ==
  /\ FTypeOK
  /\ PcType
  /\ StackInv
  /\ QueueInv
  /\ WorkerInv

----------------------------------------------------------------------------
(* The stack allocator *)

(* Allocating gives a fiber without a stack one that nobody else has, and  *)
(* leaves the other fibers theirs.                                         *)
LEMMA AllocateFacts ==
  ASSUME NEW s \in StacksType, NEW f \in Fiber,
         Distinct(s), Fresh(s, f), s.of[f] = None
  PROVE  LET t == AllocateStack(s, f)
         IN /\ t \in StacksType
            /\ Distinct(t)
            /\ t.of[f] /= None
            /\ \A g \in Fiber : g /= f => t.of[g] = s.of[g]
            /\ \A g \in Fiber : g /= f /\ Fresh(s, g) => Fresh(t, g)
<1> DEFINE t == AllocateStack(s, f)
<1>1. CASE s.pool = <<>>
  <2>1. /\ t \in StacksType /\ t.pool = s.pool
        /\ t.of[f] = f /\ \A g \in Fiber : g /= f => t.of[g] = s.of[g]
    BY <1>1 DEF AllocateStack, AllocateNew, StacksType
  <2> HIDE DEF t
  <2>2. f /= None
    BY FiberAssumption
  <2>3. Distinct(t)
    BY <2>1 DEF Distinct, Fresh
  <2>4. \A g \in Fiber : g /= f /\ Fresh(s, g) => Fresh(t, g)
    BY <2>1 DEF Fresh
  <2>5. QED BY <2>1, <2>2, <2>3, <2>4 DEF t
<1>2. CASE s.pool /= <<>>
  <2> DEFINE x == s.pool[Len(s.pool)]
             p == SubSeq(s.pool, 1, Len(s.pool) - 1)
  <2>1. s.pool \in Seq(Fiber) /\ IsInjective(s.pool)
    BY DEF StacksType, Distinct
  <2>2. /\ p \in Seq(Fiber) /\ x \in Fiber
        /\ ToSet(s.pool) = ToSet(p) \cup {x}
        /\ IsInjective(p) /\ x \notin ToSet(p)
    BY <1>2, <2>1, FrontFacts
  <2>3. t = [s EXCEPT !.of[f] = x, !.pool = p]
    BY <1>2 DEF AllocateStack, TakeFromPool
  <2> HIDE DEF x, p
  <2>4. /\ t \in StacksType /\ t.pool = p
        /\ t.of[f] = x /\ \A g \in Fiber : g /= f => t.of[g] = s.of[g]
    BY <2>2, <2>3 DEF StacksType
  <2> HIDE DEF t
  <2>5. x /= None
    BY <2>2, FiberAssumption
  <2>6. Distinct(t)
    BY <2>2, <2>4 DEF Distinct
  <2>7. \A g \in Fiber : g /= f /\ Fresh(s, g) => Fresh(t, g)
    BY <2>2, <2>4 DEF Fresh
  <2>8. QED BY <2>4, <2>5, <2>6, <2>7 DEF t
<1>3. QED BY <1>1, <1>2

(* Releasing puts the stack of a fiber into the pool. *)
LEMMA ReleaseFacts ==
  ASSUME NEW s \in StacksType, NEW f \in Fiber, Distinct(s), s.of[f] /= None
  PROVE  LET t == ReleaseStack(s, f)
         IN /\ t \in StacksType
            /\ Distinct(t)
            /\ t.of[f] = None
            /\ \A g \in Fiber : g /= f => t.of[g] = s.of[g]
            /\ \A g \in Fiber : Fresh(s, g) => Fresh(t, g)
<1> DEFINE t == ReleaseStack(s, f)
           x == s.of[f]
<1>1. /\ s.pool \in Seq(Fiber) /\ IsInjective(s.pool)
      /\ x \in Fiber /\ x \notin ToSet(s.pool)
  BY DEF StacksType, Distinct
<1>2. /\ t \in StacksType /\ t.pool = Append(s.pool, x)
      /\ t.of[f] = None /\ \A g \in Fiber : g /= f => t.of[g] = s.of[g]
  BY <1>1, AppendFacts DEF ReleaseStack, StacksType
<1>3. /\ ToSet(t.pool) = ToSet(s.pool) \cup {x}
      /\ IsInjective(t.pool)
  BY <1>1, <1>2, AppendFacts
<1>4. None \notin ToSet(t.pool)
  <2>1. \A i \in DOMAIN t.pool : t.pool[i] \in Fiber
    BY <1>2, LenProperties, ElementOfSeq DEF StacksType
  <2>2. QED BY <2>1, FiberAssumption DEF ToSet
<1> HIDE DEF t
<1>5. Distinct(t)
  <2>1. \A g \in Fiber : g /= f => s.of[g] /= x
    BY <1>1, FiberAssumption DEF Distinct
  <2>2. QED BY <1>2, <1>3, <1>4, <2>1 DEF Distinct
<1>6. \A g \in Fiber : Fresh(s, g) => Fresh(t, g)
  BY <1>2, <1>3, FiberAssumption DEF Fresh
<1>7. QED BY <1>2, <1>5, <1>6 DEF t

----------------------------------------------------------------------------
(* The operations *)

(* Schedule: the fiber, which no worker executes after the step, is queued *)
(* once, or is destroyed if the executor is stopped; where is what the      *)
(* calling worker does next, if that changes, and some fiber may move.     *)
LEMMA ScheduleMoveCore ==
  ASSUME CoreInv, NEW f \in Fiber, Schedule(f),
         state[f] \notin {"None", "Queued"},
         UNCHANGED stopped, PcType',
         \A g \in Fiber : pc'[g] = "new" => pc[g] = "new",
         at' \in [Workers -> {"idle", "fiber", "awaiter", "transfer"}],
         this' \in [Workers -> Fiber \cup {None}],
         \A w \in Workers : this'[w] = None <=> at'[w] = "idle",
         \A w \in Workers : at'[w] \in {"fiber", "awaiter"} =>
           at'[w] = at[w] /\ this'[w] = this[w] /\ this[w] /= f
  PROVE  CoreInv'
<1> USE DEF CoreInv
<1> DEFINE s == IF stopped THEN "None" ELSE "Queued"
<1>1. /\ state' = [state EXCEPT ![f] = s]
      /\ runq' = IF stopped THEN runq ELSE Append(runq, f)
      /\ stacks' = IF stopped THEN ReleaseStack(stacks, f) ELSE stacks
  BY DEF Schedule, ScheduleWith, Become, Destroyed
<1>2. /\ state' \in [Fiber -> {"None", "Queued", "Running", "Suspended"}]
      /\ state'[f] = s
      /\ \A g \in Fiber : g /= f => state'[g] = state[g]
  BY <1>1 DEF FTypeOK
<1>3. /\ stacks' \in StacksType /\ Distinct(stacks')
      /\ stacks'.of[f] = None <=> stopped
      /\ \A g \in Fiber : g /= f => stacks'.of[g] = stacks.of[g]
      /\ \A g \in Fiber : Fresh(stacks, g) => Fresh(stacks', g)
  <2>1. stacks \in StacksType /\ Distinct(stacks) /\ stacks.of[f] /= None
    BY DEF FTypeOK, StacksType, StackInv
  <2>2. QED BY <1>1, <2>1, ReleaseFacts
<1>4. runq' \in Seq(Fiber) /\ QueueInv'
  <2>1. runq \in Seq(Fiber) /\ f \notin ToSet(runq)
    BY DEF FTypeOK, QueueInv
  <2>2. CASE stopped
    BY <1>1, <1>2, <2>1, <2>2 DEF QueueInv
  <2>3. CASE ~stopped
    <3>1. /\ runq' \in Seq(Fiber) /\ IsInjective(runq')
          /\ ToSet(runq') = ToSet(runq) \cup {f}
      BY <1>1, <2>1, <2>3, AppendFacts DEF QueueInv
    <3>2. QED BY <1>2, <2>3, <3>1 DEF QueueInv
  <2>4. QED BY <2>2, <2>3
<1>5. FTypeOK'
  BY <1>2, <1>3, <1>4 DEF FTypeOK, StacksType
<1>6. StackInv'
  <2>1. \A g \in Fiber : pc[g] = "new" => g /= f
    BY DEF StackInv
  <2>2. stopped \in BOOLEAN
    BY DEF FTypeOK
  <2>3. \A g \in Fiber : state'[g] = "None" <=> stacks'.of[g] = None
    BY <1>2, <1>3, <2>2 DEF StackInv
  <2>4. \A g \in Fiber : pc'[g] = "new" => state'[g] = "None" /\ Fresh(stacks', g)
    BY <1>2, <1>3, <2>1 DEF StackInv
  <2>5. QED BY <1>3, <2>3, <2>4 DEF StackInv
<1>7. WorkerInv'
  <2>1. \A w \in Workers : at'[w] \in {"fiber", "awaiter"} =>
          /\ at'[w] = at[w] /\ this'[w] = this[w]
          /\ this[w] \in Fiber /\ state'[this[w]] = state[this[w]]
    BY <1>2 DEF FTypeOK
  <2>2. QED BY <2>1 DEF WorkerInv, Executes
<1>8. QED BY <1>4, <1>5, <1>6, <1>7

LEMMA ScheduleCore ==
  ASSUME CoreInv, NEW f \in Fiber, Schedule(f),
         state[f] \notin {"None", "Queued"},
         UNCHANGED <<pc, stopped>>,
         at' \in [Workers -> {"idle", "fiber", "awaiter", "transfer"}],
         this' \in [Workers -> Fiber \cup {None}],
         \A w \in Workers : this'[w] = None <=> at'[w] = "idle",
         \A w \in Workers : at'[w] \in {"fiber", "awaiter"} =>
           at'[w] = at[w] /\ this'[w] = this[w] /\ this[w] /= f
  PROVE  CoreInv'
<1>1. PcType'
  BY DEF CoreInv, PcType
<1>2. UNCHANGED stopped /\ \A g \in Fiber : pc'[g] = "new" => pc[g] = "new"
  OBVIOUS
<1>3. QED BY <1>1, <1>2, ScheduleMoveCore

(* Create: the new fiber gets a stack of its own and is queued, or is      *)
(* destroyed if the executor is stopped.                                    *)
LEMMA GoCore ==
  ASSUME CoreInv, NEW f \in Fiber, Go(f)
  PROVE  CoreInv'
<1> USE DEF CoreInv
<1> DEFINE s == IF stopped THEN "None" ELSE "Queued"
           a == AllocateStack(stacks, f)
<1>1. /\ pc[f] = "new"
      /\ pc' = [pc EXCEPT ![f] = "body"]
      /\ state' = [state EXCEPT ![f] = s]
      /\ runq' = IF stopped THEN runq ELSE Append(runq, f)
      /\ stacks' = IF stopped THEN ReleaseStack(a, f) ELSE a
      /\ UNCHANGED <<stopped, at, this>>
  BY DEF Go, ScheduleWith, Become, Destroyed, Goto
<1>2. state[f] = "None" /\ Fresh(stacks, f) /\ stacks.of[f] = None
  BY <1>1 DEF StackInv
<1>3. /\ state' \in [Fiber -> {"None", "Queued", "Running", "Suspended"}]
      /\ state'[f] = s
      /\ \A g \in Fiber : g /= f => state'[g] = state[g]
  BY <1>1 DEF FTypeOK
<1>4. /\ a \in StacksType /\ Distinct(a)
      /\ a.of[f] /= None
      /\ \A g \in Fiber : g /= f => a.of[g] = stacks.of[g]
      /\ \A g \in Fiber : g /= f /\ Fresh(stacks, g) => Fresh(a, g)
  <2>1. stacks \in StacksType /\ Distinct(stacks)
    BY DEF FTypeOK, StacksType, StackInv
  <2>2. QED BY <1>2, <2>1, AllocateFacts
<1> HIDE DEF a
<1>5. /\ stacks' \in StacksType /\ Distinct(stacks')
      /\ stacks'.of[f] = None <=> stopped
      /\ \A g \in Fiber : g /= f => stacks'.of[g] = stacks.of[g]
      /\ \A g \in Fiber : g /= f /\ Fresh(stacks, g) => Fresh(stacks', g)
  BY <1>1, <1>4, ReleaseFacts
<1>6. runq' \in Seq(Fiber) /\ QueueInv'
  <2>1. runq \in Seq(Fiber) /\ f \notin ToSet(runq)
    BY <1>2 DEF FTypeOK, QueueInv
  <2>2. CASE stopped
    BY <1>1, <1>2, <1>3, <2>1, <2>2 DEF QueueInv
  <2>3. CASE ~stopped
    <3>1. /\ runq' \in Seq(Fiber) /\ IsInjective(runq')
          /\ ToSet(runq') = ToSet(runq) \cup {f}
      BY <1>1, <2>1, <2>3, AppendFacts DEF QueueInv
    <3>2. QED BY <1>3, <2>3, <3>1 DEF QueueInv
  <2>4. QED BY <2>2, <2>3
<1>7. FTypeOK' /\ PcType'
  <2>1. FTypeOK'
    BY <1>1, <1>3, <1>5, <1>6 DEF FTypeOK, StacksType
  <2>2. PcType'
    BY <1>1 DEF PcType
  <2>3. QED BY <2>1, <2>2
<1>8. StackInv'
  <2>1. stopped \in BOOLEAN
    BY DEF FTypeOK
  <2>2. \A g \in Fiber : state'[g] = "None" <=> stacks'.of[g] = None
    BY <1>3, <1>5, <2>1 DEF StackInv
  <2>3. \A g \in Fiber : pc'[g] = "new" => g /= f /\ pc[g] = "new"
    BY <1>1 DEF PcType
  <2>4. \A g \in Fiber : pc'[g] = "new" => state'[g] = "None" /\ Fresh(stacks', g)
    BY <1>3, <1>5, <2>3 DEF StackInv
  <2>5. QED BY <1>5, <2>2, <2>4 DEF StackInv
<1>9. WorkerInv'
  <2>1. \A w \in Workers : at[w] \in {"fiber", "awaiter"} =>
          this[w] \in Fiber /\ this[w] /= f /\ state'[this[w]] = state[this[w]]
    BY <1>2, <1>3 DEF FTypeOK, WorkerInv
  <2>2. QED BY <1>1, <2>1 DEF WorkerInv, Executes
<1>10. QED BY <1>6, <1>7, <1>8, <1>9

(* Run: a worker takes the first fiber of the queue. *)
LEMMA RunCore ==
  ASSUME CoreInv, NEW w \in Workers, Run(w)
  PROVE  CoreInv'
<1> USE DEF CoreInv
<1>1. PICK f \in Fiber : f = Head(runq) /\ f \in ToSet(runq)
  BY PopFacts DEF Run, FTypeOK
<1>2. /\ at[w] = "idle" /\ state[f] = "Queued"
      /\ at' = [at EXCEPT ![w] = "fiber"]
      /\ this' = [this EXCEPT ![w] = f]
      /\ state' = [state EXCEPT ![f] = "Running"]
      /\ runq' = Tail(runq)
      /\ UNCHANGED <<pc, stopped, stacks>>
  BY <1>1 DEF Run, WorkerAt, Become, QueueInv
<1>3. /\ runq' \in Seq(Fiber) /\ IsInjective(runq')
      /\ ToSet(runq) = {f} \cup ToSet(runq') /\ f \notin ToSet(runq')
  BY <1>1, <1>2, PopFacts DEF Run, FTypeOK, QueueInv
<1>4. FTypeOK'
  BY <1>2, <1>3, FiberAssumption DEF FTypeOK
<1>5. QueueInv'
  <2>1. \A g \in Fiber : g \in ToSet(runq') <=> state'[g] = "Queued"
    BY <1>2, <1>3 DEF QueueInv, FTypeOK
  <2>2. ToSet(runq') \subseteq Fiber
    BY <1>3 DEF QueueInv
  <2>3. QED BY <1>3, <2>1, <2>2 DEF QueueInv
<1>6. StackInv' /\ PcType'
  BY <1>2 DEF StackInv, FTypeOK, PcType
<1>7. WorkerInv'
  <2>1. \A v \in Workers : Executes(v) => v /= w /\ this[v] \in Fiber \ {f}
    BY <1>2 DEF Executes, WorkerInv, FTypeOK
  <2>2. QED BY <1>2, <2>1 DEF WorkerInv, FTypeOK, Executes
<1>8. QED BY <1>2, <1>4, <1>5, <1>6, <1>7

(* The code of a fiber goes on. *)
LEMMA ContinueCore ==
  ASSUME CoreInv, NEW w, NEW f \in Fiber, NEW label,
         Continue(w, f, label), label /= "new"
  PROVE  CoreInv'
<1> USE DEF CoreInv
<1>1. /\ pc' = [pc EXCEPT ![f] = label]
      /\ UNCHANGED <<state, runq, stopped, at, this, stacks>>
  BY DEF Continue, Goto
<1>2. FTypeOK' /\ QueueInv' /\ WorkerInv'
  BY <1>1 DEF FTypeOK, QueueInv, WorkerInv, Executes
<1>3. StackInv' /\ PcType'
  BY <1>1 DEF StackInv, PcType
<1>4. QED BY <1>2, <1>3

(* Suspend: the worker goes on with the awaiter of the fiber. *)
LEMMA SuspendCore ==
  ASSUME CoreInv, NEW w \in Workers, NEW f \in Fiber, NEW label,
         at[w] = "fiber", this[w] = f,
         Suspend(w, f, label), label /= "new"
  PROVE  CoreInv'
<1> USE DEF CoreInv
<1>1. /\ state[f] = "Running"
      /\ state' = [state EXCEPT ![f] = "Suspended"]
      /\ pc' = [pc EXCEPT ![f] = label]
      /\ at' = [at EXCEPT ![w] = "awaiter"]
      /\ this' = [this EXCEPT ![w] = f]
      /\ UNCHANGED <<runq, stopped, stacks>>
  BY DEF Suspend, Become, Goto, WorkerAt, WorkerInv
<1>2. FTypeOK'
  BY <1>1, FiberAssumption DEF FTypeOK
<1>3. QueueInv'
  BY <1>1 DEF QueueInv, FTypeOK
<1>4. StackInv' /\ PcType'
  BY <1>1 DEF StackInv, FTypeOK, PcType
<1>5. WorkerInv'
  <2>1. \A v \in Workers : Executes(v) /\ v /= w => this[v] \in Fiber \ {f}
    BY DEF Executes, WorkerInv, FTypeOK
  <2>2. QED BY <1>1, <2>1 DEF WorkerInv, FTypeOK, Executes
<1>6. QED BY <1>1, <1>2, <1>3, <1>4, <1>5

(* Suspend, with the awaiter left out: the worker is free at once. *)
LEMMA LeaveCore ==
  ASSUME CoreInv, NEW w \in Workers, NEW f \in Fiber, NEW label,
         at[w] = "fiber", this[w] = f,
         Become(f, "Suspended"), Goto(f, label), WorkerAt(w, "idle", None),
         UNCHANGED <<runq, stopped, stacks>>, label /= "new"
  PROVE  CoreInv'
<1> USE DEF CoreInv
<1>1. /\ state[f] = "Running"
      /\ state' = [state EXCEPT ![f] = "Suspended"]
      /\ pc' = [pc EXCEPT ![f] = label]
      /\ at' = [at EXCEPT ![w] = "idle"]
      /\ this' = [this EXCEPT ![w] = None]
      /\ UNCHANGED <<runq, stopped, stacks>>
  BY DEF Become, Goto, WorkerAt, WorkerInv
<1>2. FTypeOK'
  BY <1>1, FiberAssumption DEF FTypeOK
<1>3. QueueInv'
  BY <1>1 DEF QueueInv, FTypeOK
<1>4. StackInv' /\ PcType'
  BY <1>1 DEF StackInv, FTypeOK, PcType
<1>5. WorkerInv'
  <2>1. \A v \in Workers : Executes(v) /\ v /= w => this[v] \in Fiber \ {f}
    BY DEF Executes, WorkerInv, FTypeOK
  <2>2. QED BY <1>1, <2>1 DEF WorkerInv, FTypeOK, Executes
<1>6. QED BY <1>1, <1>2, <1>3, <1>4, <1>5

(* An awaiter returns the invalid handle. *)
LEMMA ReturnInvalidCore ==
  ASSUME CoreInv, NEW w \in Workers, ReturnInvalid(w)
  PROVE  CoreInv'
<1> USE DEF CoreInv
<1>1. /\ at' = [at EXCEPT ![w] = "idle"]
      /\ this' = [this EXCEPT ![w] = None]
      /\ UNCHANGED <<state, pc, runq, stopped, stacks>>
  BY DEF ReturnInvalid, WorkerAt
<1>2. FTypeOK' /\ QueueInv' /\ StackInv' /\ PcType'
  BY <1>1 DEF FTypeOK, QueueInv, StackInv, PcType
<1>3. WorkerInv'
  BY <1>1 DEF WorkerInv, FTypeOK, Executes
<1>4. QED BY <1>1, <1>2, <1>3

(* An awaiter returns a suspended fiber that no other worker executes. *)
LEMMA ReturnNextCore ==
  ASSUME CoreInv, NEW w \in Workers, NEW f \in Fiber, ReturnNext(w, f),
         state[f] = "Suspended",
         \A v \in Workers : Executes(v) /\ this[v] = f => v = w
  PROVE  CoreInv'
<1> USE DEF CoreInv
<1>1. /\ at' = [at EXCEPT ![w] = "fiber"]
      /\ this' = [this EXCEPT ![w] = f]
      /\ state' = [state EXCEPT ![f] = "Running"]
      /\ UNCHANGED <<pc, runq, stopped, stacks>>
  BY DEF ReturnNext, WorkerAt, Become
<1>2. FTypeOK'
  BY <1>1, FiberAssumption DEF FTypeOK
<1>3. QueueInv'
  BY <1>1 DEF QueueInv, FTypeOK
<1>4. StackInv' /\ PcType'
  BY <1>1 DEF StackInv, FTypeOK, PcType
<1>5. WorkerInv'
  <2>1. \A v \in Workers : Executes(v) /\ v /= w => this[v] \in Fiber \ {f}
    BY DEF Executes, WorkerInv, FTypeOK
  <2>2. QED BY <1>1, <2>1 DEF WorkerInv, FTypeOK, Executes
<1>6. QED BY <1>1, <1>2, <1>3, <1>4, <1>5

(* Yield: the awaiter schedules its own fiber. *)
LEMMA YieldScheduleCore ==
  ASSUME CoreInv, NEW w \in Workers, NEW f \in Fiber, YieldSchedule(w, f),
         at[w] = "awaiter", this[w] = f
  PROVE  CoreInv'
<1>1. /\ Schedule(f) /\ UNCHANGED <<pc, stopped>>
      /\ at' = [at EXCEPT ![w] = "idle"]
      /\ this' = [this EXCEPT ![w] = None]
  BY DEF YieldSchedule, WorkerAt
<1>2. state[f] \notin {"None", "Queued"}
  BY DEF CoreInv, WorkerInv
<1>3. /\ at' \in [Workers -> {"idle", "fiber", "awaiter", "transfer"}]
      /\ this' \in [Workers -> Fiber \cup {None}]
      /\ \A v \in Workers : this'[v] = None <=> at'[v] = "idle"
  BY <1>1 DEF CoreInv, FTypeOK
<1>4. \A v \in Workers : at'[v] \in {"fiber", "awaiter"} =>
        at'[v] = at[v] /\ this'[v] = this[v] /\ this[v] /= f
  BY <1>1 DEF CoreInv, FTypeOK, WorkerInv, Executes
<1>5. Schedule(f) /\ UNCHANGED <<pc, stopped>>
  BY <1>1
<1>6. QED BY <1>2, <1>3, <1>4, <1>5, ScheduleCore

(* The routine of a fiber returns and the fiber is destroyed. *)
LEMMA CompleteCore ==
  ASSUME CoreInv, NEW w \in Workers, NEW f \in Fiber, Complete(w, f),
         at[w] = "fiber", this[w] = f
  PROVE  CoreInv'
<1> USE DEF CoreInv
<1>1. /\ state[f] = "Running"
      /\ state' = [state EXCEPT ![f] = "None"]
      /\ pc' = [pc EXCEPT ![f] = "finished"]
      /\ at' = [at EXCEPT ![w] = "idle"]
      /\ this' = [this EXCEPT ![w] = None]
      /\ stacks' = ReleaseStack(stacks, f)
      /\ UNCHANGED <<runq, stopped>>
  BY DEF Complete, Become, Goto, WorkerAt, WorkerInv, Destroyed
<1>2. /\ stacks' \in StacksType /\ Distinct(stacks')
      /\ stacks'.of[f] = None
      /\ \A g \in Fiber : g /= f => stacks'.of[g] = stacks.of[g]
      /\ \A g \in Fiber : Fresh(stacks, g) => Fresh(stacks', g)
  <2>1. stacks \in StacksType /\ Distinct(stacks) /\ stacks.of[f] /= None
    BY <1>1 DEF FTypeOK, StacksType, StackInv
  <2>2. QED BY <1>1, <2>1, ReleaseFacts
<1>3. FTypeOK'
  BY <1>1, <1>2 DEF FTypeOK, StacksType
<1>4. QueueInv'
  BY <1>1 DEF QueueInv, FTypeOK
<1>5. StackInv' /\ PcType'
  BY <1>1, <1>2 DEF StackInv, FTypeOK, PcType
<1>6. WorkerInv'
  <2>1. \A v \in Workers : Executes(v) /\ v /= w => this[v] \in Fiber \ {f}
    BY DEF Executes, WorkerInv, FTypeOK
  <2>2. QED BY <1>1, <2>1 DEF WorkerInv, FTypeOK, Executes
<1>7. QED BY <1>1, <1>3, <1>4, <1>5, <1>6

(* The executor stops: the queued fibers are destroyed and their stacks    *)
(* join the pool.                                                          *)
LEMMA StopCore ==
  ASSUME CoreInv, Stop
  PROVE  CoreInv'
<1> USE DEF CoreInv
<1> DEFINE d == [i \in 1..Len(runq) |-> stacks.of[runq[i]]]
           n == Len(runq)
           queued == ToSet(runq)
<1>1. /\ stopped' = TRUE /\ runq' = <<>>
      /\ state' = [f \in Fiber |-> IF state[f] = "Queued" THEN "None" ELSE state[f]]
      /\ stacks' = [stacks EXCEPT
             !.pool = stacks.pool \o d,
             !.of = [f \in Fiber |-> IF state[f] = "Queued" THEN None
                                     ELSE stacks.of[f]]]
      /\ UNCHANGED <<pc, at, this>>
  BY DEF Stop, Destroyed
<1>2. /\ stacks \in StacksType /\ Distinct(stacks)
      /\ stacks.pool \in Seq(Fiber)
      /\ \A f \in Fiber : stacks.of[f] \in Fiber \cup {None}
  BY DEF FTypeOK, StacksType, StackInv
<1>3. /\ n \in Nat /\ DOMAIN runq = 1..n
      /\ \A i \in 1..n : runq[i] \in Fiber /\ runq[i] \in queued
  BY LenProperties, ElementOfSeq DEF FTypeOK, ToSet
<1>4. \A f \in queued : f \in Fiber /\ state[f] = "Queued" /\ stacks.of[f] \in Fiber
  BY <1>2 DEF QueueInv, StackInv
<1>5. d \in Seq(Fiber) /\ DOMAIN d = 1..n
  <2>1. d \in [1..n -> Fiber] /\ DOMAIN d = 1..n
    BY <1>3, <1>4
  <2>2. QED BY <1>3, <2>1, IsASeq
<1>6. ToSet(d) = {stacks.of[f] : f \in queued}
  <2>1. \A i \in 1..n : d[i] \in {stacks.of[f] : f \in queued}
    BY <1>3
  <2>2. \A f \in queued : \E i \in 1..n : d[i] = stacks.of[f]
    BY <1>3 DEF ToSet
  <2> HIDE DEF d, queued
  <2>3. \A f \in queued : stacks.of[f] \in ToSet(d)
    BY <1>5, <2>2 DEF ToSet
  <2>4. \A x \in ToSet(d) : x \in {stacks.of[f] : f \in queued}
    BY <1>5, <2>1 DEF ToSet
  <2>5. QED BY <2>3, <2>4
<1>7. IsInjective(d)
  <2> SUFFICES ASSUME NEW i \in 1..n, NEW j \in 1..n, d[i] = d[j]
               PROVE  i = j
    BY <1>5 DEF IsInjective
  <2>1. stacks.of[runq[i]] = stacks.of[runq[j]]
    OBVIOUS
  <2>2. runq[i] = runq[j]
    BY <1>2, <1>3, <1>4, <2>1, FiberAssumption DEF Distinct
  <2>3. QED BY <1>3, <2>2 DEF QueueInv, IsInjective
<1> DEFINE p == stacks.pool \o d
<1>8. /\ p \in Seq(Fiber) /\ IsInjective(p)
      /\ ToSet(p) = ToSet(stacks.pool) \cup {stacks.of[f] : f \in queued}
  <2>1. ToSet(stacks.pool) \cap ToSet(d) = {}
    BY <1>2, <1>4, <1>6 DEF Distinct
  <2>2. IsInjective(stacks.pool)
    BY <1>2 DEF Distinct
  <2> HIDE DEF d
  <2>3. QED BY <1>2, <1>5, <1>6, <1>7, <2>1, <2>2, ConcatFacts
<1>9. stacks' = [stacks EXCEPT
             !.pool = p,
             !.of = [f \in Fiber |-> IF state[f] = "Queued" THEN None
                                     ELSE stacks.of[f]]]
  BY <1>1
<1> HIDE DEF d, p, n
<1>10. /\ stacks' \in StacksType
       /\ stacks'.pool = p
       /\ \A f \in Fiber :
            stacks'.of[f] = IF state[f] = "Queued" THEN None ELSE stacks.of[f]
  BY <1>2, <1>8, <1>9 DEF StacksType
<1>11. \A f \in Fiber : f \in queued <=> state[f] = "Queued"
  BY DEF QueueInv
<1> HIDE DEF queued
<1>12. None \notin ToSet(p)
  <2>1. \A i \in DOMAIN p : p[i] \in Fiber
    BY <1>8, LenProperties, ElementOfSeq
  <2>2. QED BY <2>1, FiberAssumption DEF ToSet
<1>13. Distinct(stacks')
  <2>1. \A f, g \in Fiber : stacks'.of[f] = stacks'.of[g] /\ stacks'.of[f] /= None => f = g
    BY <1>2, <1>10 DEF Distinct
  <2>2. ASSUME NEW f \in Fiber
        PROVE  stacks'.of[f] \notin ToSet(p)
    <3>1. CASE state[f] = "Queued"
      BY <1>10, <1>12, <3>1
    <3>2. CASE state[f] /= "Queued"
      <4>1. stacks'.of[f] = stacks.of[f] /\ f \notin queued
        BY <1>10, <1>11, <3>2
      <4>2. stacks.of[f] \notin ToSet(stacks.pool)
        BY <1>2 DEF Distinct
      <4>3. \A g \in queued : stacks.of[g] /= stacks.of[f]
        BY <1>2, <1>4, <4>1, FiberAssumption DEF Distinct
      <4>4. QED BY <1>8, <4>1, <4>2, <4>3
    <3>3. QED BY <3>1, <3>2
  <2>3. QED BY <1>8, <1>10, <2>1, <2>2 DEF Distinct
<1>14. \A f \in Fiber : Fresh(stacks, f) => Fresh(stacks', f)
  <2> SUFFICES ASSUME NEW f \in Fiber, Fresh(stacks, f)
               PROVE  Fresh(stacks', f)
    OBVIOUS
  <2>1. f \notin ToSet(p)
    BY <1>4, <1>8 DEF Fresh
  <2>2. \A g \in Fiber : stacks'.of[g] /= f
    BY <1>10, FiberAssumption DEF Fresh
  <2>3. QED BY <1>10, <2>1, <2>2 DEF Fresh
<1>15. /\ state' \in [Fiber -> {"None", "Queued", "Running", "Suspended"}]
       /\ \A f \in Fiber :
            state'[f] = IF state[f] = "Queued" THEN "None" ELSE state[f]
  BY <1>1 DEF FTypeOK
<1>16. FTypeOK' /\ PcType'
  <2>1. runq' \in Seq(Fiber)
    BY <1>1
  <2>2. QED BY <1>1, <1>10, <1>15, <2>1 DEF FTypeOK, StacksType, PcType
<1>17. StackInv'
  <2>1. \A f \in Fiber : state'[f] = "None" <=> stacks'.of[f] = None
    BY <1>10, <1>15 DEF StackInv
  <2>2. \A f \in Fiber : pc[f] = "new" => state'[f] = "None" /\ Fresh(stacks', f)
    BY <1>14, <1>15 DEF StackInv
  <2>3. QED BY <1>1, <1>13, <2>1, <2>2 DEF StackInv
<1>18. QueueInv'
  <2>1. \A f \in Fiber : state'[f] /= "Queued"
    BY <1>15
  <2>2. QED BY <1>1, <2>1, EmptyFacts DEF QueueInv
<1>19. WorkerInv'
  <2>1. \A w \in Workers : at[w] \in {"fiber", "awaiter"} =>
          this[w] \in Fiber /\ state'[this[w]] = state[this[w]]
    BY <1>15 DEF FTypeOK, WorkerInv
  <2>2. QED BY <1>1, <2>1 DEF WorkerInv, Executes
<1>20. QED BY <1>16, <1>17, <1>18, <1>19

(* The initial states satisfy the invariant. *)
LEMMA InitCore ==
  ASSUME FInit
  PROVE  CoreInv
<1>1. <<>> \in Seq(Fiber) /\ IsInjective(<<>>) /\ ToSet(<<>>) = {}
  BY EmptyFacts
<1>2. FTypeOK /\ PcType
  BY <1>1 DEF FInit, FTypeOK, PcType
<1>3. QueueInv
  BY <1>1 DEF FInit, QueueInv
<1>4. WorkerInv
  BY DEF FInit, WorkerInv, Executes
<1>5. StackInv
  <2>1. stacks.pool = <<>> /\ \A f \in Fiber : stacks.of[f] = None
    BY DEF FInit
  <2>2. QED BY <1>1, <2>1, FiberAssumption DEF FInit, StackInv, Distinct, Fresh
<1>6. QED BY <1>2, <1>3, <1>4, <1>5 DEF CoreInv

(* A step that leaves the core alone *)
LEMMA StutterCore ==
  ASSUME CoreInv, UNCHANGED fvars
  PROVE  CoreInv'
BY DEF CoreInv, fvars, FTypeOK, PcType, QueueInv, WorkerInv, Executes, StackInv

(* A fiber is executed by one worker at a time, is linked at most once     *)
(* into the executor's queue and has a stack of its own.                   *)
LEMMA CoreInvImplies ==
  ASSUME CoreInv
  PROVE  OneWorkerPerFiber
<1> USE DEF CoreInv
<1>1. \A f \in Fiber : IsQueued(f) <=> state[f] = "Queued"
  <2>1. DOMAIN runq = 1..Len(runq)
    BY LenProperties DEF FTypeOK
  <2>2. \A f \in Fiber : IsQueued(f) <=> f \in ToSet(runq)
    BY <2>1 DEF IsQueued, ToSet
  <2>3. QED BY <2>2 DEF QueueInv
<1>2. ASSUME NEW w \in Workers, NEW f \in Fiber, Running(w, f)
      PROVE  /\ \A v \in Workers : Running(v, f) => v = w
             /\ ~IsQueued(f)
             /\ state[f] = (IF at[w] = "fiber" THEN "Running" ELSE "Suspended")
  BY <1>1, <1>2 DEF Running, WorkerInv, Executes
<1>3. /\ \A i, j \in 1..Len(runq) : runq[i] = runq[j] => i = j
      /\ \A i \in 1..Len(runq) : state[runq[i]] = "Queued"
  <2>1. DOMAIN runq = 1..Len(runq)
    BY LenProperties DEF FTypeOK
  <2>2. QED BY <2>1 DEF QueueInv, IsInjective, ToSet
<1>4. ASSUME NEW f \in Fiber
      PROVE  /\ state[f] = "None" <=> stacks.of[f] = None
             /\ state[f] /= "None" =>
                  /\ \A g \in Fiber : stacks.of[g] = stacks.of[f] => g = f
                  /\ \A i \in 1..Len(stacks.pool) : stacks.pool[i] /= stacks.of[f]
  <2>1. DOMAIN stacks.pool = 1..Len(stacks.pool)
    BY LenProperties DEF FTypeOK
  <2>2. QED BY <2>1 DEF StackInv, Distinct, ToSet
<1>5. QED BY <1>2, <1>3, <1>4 DEF OneWorkerPerFiber

----------------------------------------------------------------------------
(***************************************************************************)
(* Proofs about FiberMutex for every set of fibers and of workers and      *)
(* every number of calls.                                                  *)
(*                                                                         *)
(* The argument.  The right to the mutex is a token.  It is held by a      *)
(* fiber between Lock and Unlock, or by the worker that carries it to the  *)
(* next owner: the one in the Unlocker of the last owner, the one between  *)
(* Unlocker and the new owner, or the one that has resumed the new owner   *)
(* inside Lock.  There is exactly one token while the mutex is locked and  *)
(* none while it is open.  The fiber to which a worker carries the token   *)
(* is parked: it is suspended inside Lock, no list has it any more and no  *)
(* worker executes it or its Locker.                                       *)
(***************************************************************************)

(* w carries the mutex to its next owner *)
Passing(w) ==
  \/ at[w] = "fiber" /\ pc[this[w]] = "lock_wait"
  \/ at[w] = "transfer"
  \/ at[w] = "awaiter" /\ pc[this[w]] = "unlock_wait"

(* there is one token while the mutex is locked and none otherwise *)
TokenInv ==
  /\ \A f, g \in Fiber : Inside(f) /\ Inside(g) => f = g
  /\ \A v, w \in Workers : Passing(v) /\ Passing(w) => v = w
  /\ \A f \in Fiber, w \in Workers : ~(Inside(f) /\ Passing(w))
  /\ (\E f \in Fiber : Inside(f)) => locked
  /\ (\E w \in Workers : Passing(w)) => locked
  /\ locked => (\E f \in Fiber : Inside(f)) \/ (\E w \in Workers : Passing(w))

(* f is suspended inside Lock and its Locker has returned *)
ParkedInLock(f) ==
  /\ f \in Fiber
  /\ pc[f] = "lock_wait"
  /\ state[f] = "Suspended"
  /\ \A w \in Workers : at[w] = "awaiter" => this[w] /= f

Listed(f) == f \in ToSet(stacked) \/ f \in ToSet(waiters)

(* the next owner is parked and in no list *)
HeirInv ==
  /\ \A w \in Workers :
       at[w] = "transfer" => ParkedInLock(nxt[w]) /\ ~Listed(nxt[w])
  /\ \A w \in Workers : at[w] = "awaiter" /\ pc[this[w]] = "unlock_wait" =>
       ParkedInLock(next_[this[w]]) /\ ~Listed(next_[this[w]])

(* f will be resumed by a worker, or its Locker still runs *)
Attended(f) ==
  \/ \E w \in Workers : Executes(w) /\ this[w] = f
  \/ \E w \in Workers : at[w] = "transfer" /\ nxt[w] = f
  \/ \E w \in Workers : /\ at[w] = "awaiter" /\ pc[this[w]] = "unlock_wait"
                        /\ next_[this[w]] = f

(* the lists hold parked fibers, each once, and only while the mutex is    *)
(* locked; and a fiber inside Lock is in a list or somebody attends to it  *)
ListInv ==
  /\ IsInjective(stacked) /\ IsInjective(waiters)
  /\ ToSet(stacked) \cap ToSet(waiters) = {}
  /\ \A f \in Fiber : Listed(f) => ParkedInLock(f) /\ locked
  /\ \A f \in Fiber : pc[f] = "lock_wait" => Listed(f) \/ Attended(f)

(* a fiber in the queue, or discarded, is not inside Lock *)
PcInv ==
  \A f \in Fiber : state[f] \in {"Queued", "None"} => pc[f] /= "lock_wait"

(* what Release has found stays true until it acts: only the owner empties *)
(* the lists                                                               *)
ReleaseInv ==
  \A f \in Fiber : pc[f] = "release" =>
    waiters = <<>> /\ (loaded[f] \in Fiber => stacked /= <<>>)

MutexInv ==
  /\ CoreInv
  /\ MutexTypeOK
  /\ TokenInv
  /\ HeirInv
  /\ ListInv
  /\ PcInv
  /\ ReleaseInv

----------------------------------------------------------------------------
(* Steps that have to do with no waiter *)

(* w neither carries the mutex nor executes a fiber inside Lock *)
Uninvolved(w) ==
  \/ at[w] = "idle"
  \/ Executes(w) /\ pc[this[w]] \notin {"lock_wait", "unlock_wait"}
  \/ at[w] = "fiber" /\ pc[this[w]] = "unlock_wait"

(* a step in which no fiber enters or leaves Lock, no list changes and no  *)
(* worker comes to carry the mutex or puts it down                         *)
WaitersAside ==
  /\ UNCHANGED <<stacked, waiters, nxt>>
  /\ \A g \in Fiber : pc[g] = "lock_wait" <=> pc'[g] = "lock_wait"
  /\ \A g \in Fiber : pc[g] = "lock_wait" => state'[g] = state[g]
  /\ \A g \in Fiber : Listed(g) => locked'
  /\ \A v \in Workers :
       \/ /\ at'[v] = at[v] /\ this'[v] = this[v]
          /\ pc'[this[v]] = pc[this[v]]
          /\ next_'[this[v]] = next_[this[v]]
       \/ at[v] = "transfer" /\ at'[v] = "transfer"
       \/ Uninvolved(v) /\ Uninvolved(v)'

(* Such a step leaves the waiters and the carriers as they were. *)
LEMMA Frame ==
  ASSUME MutexInv, MutexTypeOK', WaitersAside
  PROVE  /\ HeirInv' /\ ListInv' /\ PcInv'
         /\ \A v \in Workers : Passing(v)' <=> Passing(v)
<1> USE DEF MutexInv, WaitersAside
<1>1. /\ \A v \in Workers : at[v] /= "idle" => this[v] \in Fiber
      /\ \A v \in Workers : at'[v] /= "idle" => this'[v] \in Fiber
  BY DEF MutexTypeOK, FTypeOK
<1>2. \A v \in Workers : Passing(v)' <=> Passing(v)
  BY DEF Passing, Uninvolved, Executes
<1>3. \A g \in Fiber : ParkedInLock(g) => ParkedInLock(g)'
  BY <1>1 DEF ParkedInLock, Uninvolved, Executes
<1>4. \A g \in Fiber : Listed(g)' <=> Listed(g)
  BY DEF Listed
<1>5. HeirInv'
  <2>1. \A v \in Workers : at'[v] = "transfer" =>
          /\ at[v] = "transfer" /\ nxt'[v] = nxt[v]
          /\ nxt[v] \in Fiber /\ ParkedInLock(nxt[v]) /\ ~Listed(nxt[v])
    BY DEF HeirInv, ParkedInLock, Uninvolved, Executes
  <2>2. \A v \in Workers : at'[v] = "transfer" =>
          ParkedInLock(nxt[v])' /\ ~Listed(nxt[v])'
    BY <1>3, <1>4, <2>1 DEF ParkedInLock, Listed
  <2>3. \A v \in Workers : at'[v] = "awaiter" /\ pc'[this'[v]] = "unlock_wait" =>
          /\ at[v] = "awaiter" /\ pc[this[v]] = "unlock_wait"
          /\ next_'[this'[v]] = next_[this[v]]
    BY DEF Uninvolved, Executes
  <2>4. ASSUME NEW v \in Workers, at'[v] = "awaiter", pc'[this'[v]] = "unlock_wait"
        PROVE  ParkedInLock(next_[this[v]])' /\ ~Listed(next_[this[v]])'
    <3>1. PICK g \in Fiber : g = next_'[this'[v]] /\ ParkedInLock(g) /\ ~Listed(g)
      BY <2>3, <2>4 DEF HeirInv, ParkedInLock
    <3>2. ParkedInLock(g)' /\ ~Listed(g)'
      BY <1>3, <1>4, <3>1
    <3>3. QED BY <3>1, <3>2 DEF ParkedInLock, Listed
  <2>5. QED BY <2>1, <2>2, <2>4 DEF HeirInv, ParkedInLock, Listed
<1>6. ListInv'
  <2>1. \A g \in Fiber : Listed(g)' => ParkedInLock(g)' /\ locked'
    BY <1>3, <1>4 DEF ListInv
  <2>2. \A g \in Fiber : pc[g] = "lock_wait" /\ Attended(g) => Attended(g)'
    BY <1>1 DEF Attended, Uninvolved, Executes
  <2>3. \A g \in Fiber : pc'[g] = "lock_wait" => Listed(g)' \/ Attended(g)'
    BY <1>4, <2>2 DEF ListInv
  <2>4. QED BY <2>1, <2>3 DEF ListInv
<1>7. PcInv'
  BY DEF PcInv
<1>8. QED BY <1>2, <1>5, <1>6, <1>7

(* The step of a running fiber from one label to another, neither of them  *)
(* inside Lock, that leaves the lists alone.                               *)
LEMMA MoveFrame ==
  ASSUME MutexInv, NEW w \in Workers, NEW f \in Fiber,
         at[w] = "fiber", this[w] = f, pc[f] /= "lock_wait",
         \A g \in Fiber : g /= f => pc'[g] = pc[g],
         pc'[f] \notin {"lock_wait", "unlock_wait"},
         UNCHANGED <<state, at, this, stacked, waiters, nxt>>,
         \A g \in Fiber : Listed(g) => locked',
         \A g \in Fiber : g /= f => next_'[g] = next_[g]
  PROVE  WaitersAside
<1> USE DEF MutexInv
<1>3. Uninvolved(w) /\ Uninvolved(w)'
  BY DEF Uninvolved, Executes
<1>4. \A v \in Workers : v /= w /\ Executes(v) => this[v] \in Fiber \ {f}
  BY DEF CoreInv, WorkerInv, FTypeOK, Executes
<1>5. \A v \in Workers : at[v] = "idle" => Uninvolved(v) /\ Uninvolved(v)'
  BY DEF Uninvolved
<1>6. QED
  BY <1>3, <1>4, <1>5 DEF WaitersAside, Executes, MutexTypeOK, FTypeOK

(* ... and leaves the token where it is if both labels are between Lock    *)
(* and Unlock, or neither                                                  *)
LEMMA TokenStays ==
  ASSUME MutexInv, locked' = locked,
         \A g \in Fiber : Inside(g)' <=> Inside(g),
         \A v \in Workers : Passing(v)' <=> Passing(v)
  PROVE  TokenInv'
BY DEF MutexInv, TokenInv

----------------------------------------------------------------------------
(* The fibers *)

(* Starting a fiber *)
LEMMA MutexGoStep ==
  ASSUME MutexInv, NEW f \in Fiber, MutexGo(f)
  PROVE  MutexInv'
<1> USE DEF MutexInv
<1>1. /\ pc[f] = "new" /\ pc' = [pc EXCEPT ![f] = "body"]
      /\ \E s \in {"None", "Queued"} : state' = [state EXCEPT ![f] = s]
      /\ UNCHANGED <<stopped, at, this, mvars, lvars, bvars>>
  BY DEF MutexGo, Go, Goto, ScheduleWith, Become, Destroyed
<1>2. CoreInv'
  BY GoCore DEF MutexGo
<1>3. MutexTypeOK'
  BY <1>1, <1>2 DEF MutexTypeOK, CoreInv, mvars, lvars, bvars
<1>4. \A v \in Workers : at[v] \in {"fiber", "awaiter"} => this[v] \in Fiber \ {f}
  BY <1>1 DEF CoreInv, WorkerInv, StackInv, FTypeOK
<1>5. WaitersAside
  BY <1>1, <1>4 DEF MutexTypeOK, FTypeOK, ListInv, WaitersAside, Uninvolved, Executes,
                    mvars, lvars
<1>6. /\ HeirInv' /\ ListInv' /\ PcInv'
      /\ \A v \in Workers : Passing(v)' <=> Passing(v)
  BY <1>3, <1>5, Frame
<1>7. TokenInv'
  <2>1. \A g \in Fiber : Inside(g)' <=> Inside(g)
    BY <1>1 DEF Inside, MutexTypeOK
  <2>2. QED BY <1>1, <1>6, <2>1, TokenStays DEF mvars
<1>8. ReleaseInv'
  BY <1>1 DEF ReleaseInv, MutexTypeOK, mvars, lvars
<1>9. QED BY <1>2, <1>3, <1>6, <1>7, <1>8

(* A worker takes a fiber from the queue. *)
LEMMA MutexRunStep ==
  ASSUME MutexInv, NEW w \in Workers, MutexRun(w)
  PROVE  MutexInv'
<1> USE DEF MutexInv
<1>1. PICK f \in Fiber : f = Head(runq) /\ f \in ToSet(runq)
  BY PopFacts DEF MutexRun, Run, MutexTypeOK, FTypeOK
<1>2. /\ at[w] = "idle" /\ state[f] = "Queued"
      /\ at' = [at EXCEPT ![w] = "fiber"]
      /\ this' = [this EXCEPT ![w] = f]
      /\ state' = [state EXCEPT ![f] = "Running"]
      /\ UNCHANGED <<pc, stopped, mvars, lvars, bvars>>
  BY <1>1 DEF MutexRun, Run, WorkerAt, Become, CoreInv, QueueInv
<1>3. CoreInv'
  BY RunCore DEF MutexRun
<1>4. MutexTypeOK'
  BY <1>2, <1>3 DEF MutexTypeOK, CoreInv, mvars, lvars, bvars
<1>5. pc[f] /= "lock_wait"
  BY <1>2 DEF PcInv
<1>6. WaitersAside
  BY <1>2, <1>5 DEF MutexTypeOK, FTypeOK, ListInv, WaitersAside, Uninvolved, Executes,
                    mvars, lvars
<1>7. /\ HeirInv' /\ ListInv' /\ PcInv'
      /\ \A v \in Workers : Passing(v)' <=> Passing(v)
  BY <1>4, <1>6, Frame
<1>8. TokenInv'
  <2>1. \A g \in Fiber : Inside(g)' <=> Inside(g)
    BY <1>2 DEF Inside
  <2>2. QED BY <1>2, <1>7, <2>1, TokenStays DEF mvars
<1>9. ReleaseInv'
  BY <1>2 DEF ReleaseInv, mvars, lvars
<1>10. QED BY <1>3, <1>4, <1>7, <1>8, <1>9

(* A fiber yields. *)
LEMMA YieldBodyStep ==
  ASSUME MutexInv, NEW w \in Workers, NEW f \in Fiber, YieldBody(w, f)
  PROVE  MutexInv'
<1> USE DEF MutexInv
<1>1. PICK l \in {"yield_body", "yield_critical"} :
        /\ at[w] = "fiber" /\ this[w] = f
        /\ pc[f] = IF l = "yield_body" THEN "body" ELSE "critical"
        /\ Suspend(w, f, l)
  BY DEF YieldBody, YieldSuspend, InFiber
<1>2. /\ state' = [state EXCEPT ![f] = "Suspended"]
      /\ pc' = [pc EXCEPT ![f] = l]
      /\ at' = [at EXCEPT ![w] = "awaiter"]
      /\ this' = [this EXCEPT ![w] = f]
      /\ UNCHANGED <<mvars, lvars>>
  BY <1>1 DEF YieldBody, Suspend, Become, Goto, WorkerAt
<1>3. CoreInv'
  BY <1>1, SuspendCore
<1>4. MutexTypeOK'
  <2>1. locks' \in 0..MaxLocks /\ yields' \in 0..MaxYields
    BY MutexAssumption DEF MutexTypeOK, YieldBody
  <2>2. QED BY <1>2, <1>3, <2>1 DEF MutexTypeOK, CoreInv, mvars, lvars
<1>5. \A v \in Workers : v /= w /\ Executes(v) => this[v] \in Fiber \ {f}
  BY <1>1 DEF CoreInv, WorkerInv, FTypeOK, Executes
<1>6. WaitersAside
  <2>1. Uninvolved(w) /\ Uninvolved(w)'
    BY <1>1, <1>2 DEF Uninvolved, Executes, MutexTypeOK, FTypeOK
  <2>2. QED
    BY <1>1, <1>2, <1>5, <2>1 DEF MutexTypeOK, FTypeOK, ListInv, WaitersAside,
                                  Uninvolved, Executes, mvars, lvars
<1>7. /\ HeirInv' /\ ListInv' /\ PcInv'
      /\ \A v \in Workers : Passing(v)' <=> Passing(v)
  BY <1>4, <1>6, Frame
<1>8. TokenInv'
  <2>1. \A g \in Fiber : Inside(g)' <=> Inside(g)
    BY <1>1, <1>2 DEF Inside, MutexTypeOK
  <2>2. QED BY <1>2, <1>7, <2>1, TokenStays DEF mvars
<1>9. ReleaseInv'
  BY <1>1, <1>2 DEF ReleaseInv, MutexTypeOK, mvars, lvars
<1>10. QED BY <1>3, <1>4, <1>7, <1>8, <1>9

(* The YieldAwaiter schedules its fiber. *)
LEMMA YieldCompletedStep ==
  ASSUME MutexInv, NEW w \in Workers, NEW f \in Fiber, YieldCompleted(w, f)
  PROVE  MutexInv'
<1> USE DEF MutexInv
<1>1. /\ at[w] = "awaiter" /\ this[w] = f
      /\ pc[f] \in {"yield_body", "yield_critical"}
      /\ YieldSchedule(w, f)
  BY DEF YieldCompleted, InAwaiter
<1>2. /\ \E s \in {"None", "Queued"} : state' = [state EXCEPT ![f] = s]
      /\ at' = [at EXCEPT ![w] = "idle"]
      /\ this' = [this EXCEPT ![w] = None]
      /\ UNCHANGED <<pc, mvars, lvars, bvars>>
  BY DEF YieldCompleted, YieldSchedule, Schedule, ScheduleWith, Become, WorkerAt,
         Destroyed
<1>3. CoreInv'
  BY <1>1, YieldScheduleCore
<1>4. MutexTypeOK'
  BY <1>2, <1>3 DEF MutexTypeOK, CoreInv, mvars, lvars, bvars
<1>5. WaitersAside
  <2>1. Uninvolved(w) /\ Uninvolved(w)'
    BY <1>1, <1>2 DEF Uninvolved, Executes, MutexTypeOK, FTypeOK
  <2>2. QED
    BY <1>1, <1>2, <2>1 DEF MutexTypeOK, FTypeOK, ListInv, WaitersAside, mvars, lvars
<1>6. /\ HeirInv' /\ ListInv' /\ PcInv'
      /\ \A v \in Workers : Passing(v)' <=> Passing(v)
  BY <1>4, <1>5, Frame
<1>7. TokenInv'
  <2>1. \A g \in Fiber : Inside(g)' <=> Inside(g)
    BY <1>2 DEF Inside
  <2>2. QED BY <1>2, <1>6, <2>1, TokenStays DEF mvars
<1>8. ReleaseInv'
  BY <1>2 DEF ReleaseInv, mvars, lvars
<1>9. QED BY <1>3, <1>4, <1>6, <1>7, <1>8

(* Yield returns. *)
LEMMA YieldReturnStep ==
  ASSUME MutexInv, NEW w \in Workers, NEW f \in Fiber, YieldReturn(w, f)
  PROVE  MutexInv'
<1> USE DEF MutexInv
<1>1. PICK l \in {"body", "critical"} :
        /\ at[w] = "fiber" /\ this[w] = f
        /\ pc[f] = IF l = "body" THEN "yield_body" ELSE "yield_critical"
        /\ Continue(w, f, l)
  BY DEF YieldReturn, InFiber
<1>2. /\ pc' = [pc EXCEPT ![f] = l]
      /\ UNCHANGED <<state, at, this, mvars, lvars, bvars>>
  BY <1>1 DEF YieldReturn, Continue, Goto
<1>3. CoreInv'
  BY <1>1, ContinueCore
<1>4. MutexTypeOK'
  BY <1>2, <1>3 DEF MutexTypeOK, CoreInv, mvars, lvars, bvars
<1>5. WaitersAside
  <2>1. pc'[f] = l /\ \A g \in Fiber : g /= f => pc'[g] = pc[g]
    BY <1>2 DEF MutexTypeOK
  <2>2. \A g \in Fiber : Listed(g) => locked'
    BY <1>2 DEF ListInv, mvars
  <2>3. UNCHANGED <<state, at, this, stacked, waiters, nxt, next_>>
    BY <1>2 DEF mvars, lvars
  <2>4. QED BY <1>1, <2>1, <2>2, <2>3, MoveFrame
<1>6. /\ HeirInv' /\ ListInv' /\ PcInv'
      /\ \A v \in Workers : Passing(v)' <=> Passing(v)
  BY <1>4, <1>5, Frame
<1>7. TokenInv'
  <2>1. \A g \in Fiber : Inside(g)' <=> Inside(g)
    BY <1>1, <1>2 DEF Inside, MutexTypeOK
  <2>2. QED BY <1>2, <1>6, <2>1, TokenStays DEF mvars
<1>8. ReleaseInv'
  BY <1>1, <1>2 DEF ReleaseInv, MutexTypeOK, mvars, lvars
<1>9. QED BY <1>3, <1>4, <1>6, <1>7, <1>8

(* The routine of a fiber returns. *)
LEMMA MutexFinishStep ==
  ASSUME MutexInv, NEW w \in Workers, NEW f \in Fiber, MutexFinish(w, f)
  PROVE  MutexInv'
<1> USE DEF MutexInv
<1>1. /\ at[w] = "fiber" /\ this[w] = f /\ pc[f] = "body"
      /\ state' = [state EXCEPT ![f] = "None"]
      /\ pc' = [pc EXCEPT ![f] = "finished"]
      /\ at' = [at EXCEPT ![w] = "idle"]
      /\ this' = [this EXCEPT ![w] = None]
      /\ UNCHANGED <<mvars, lvars, bvars>>
  BY DEF MutexFinish, InFiber, Complete, Become, Goto, WorkerAt, Destroyed
<1>2. CoreInv'
  BY <1>1, CompleteCore DEF MutexFinish
<1>3. MutexTypeOK'
  BY <1>1, <1>2 DEF MutexTypeOK, CoreInv, mvars, lvars, bvars
<1>4. \A v \in Workers : v /= w /\ Executes(v) => this[v] \in Fiber \ {f}
  BY <1>1 DEF CoreInv, WorkerInv, FTypeOK, Executes
<1>5. WaitersAside
  <2>1. Uninvolved(w) /\ Uninvolved(w)'
    BY <1>1 DEF Uninvolved, Executes, MutexTypeOK, FTypeOK
  <2>2. QED
    BY <1>1, <1>4, <2>1 DEF MutexTypeOK, FTypeOK, ListInv, WaitersAside, Uninvolved,
                            Executes, mvars, lvars
<1>6. /\ HeirInv' /\ ListInv' /\ PcInv'
      /\ \A v \in Workers : Passing(v)' <=> Passing(v)
  BY <1>3, <1>5, Frame
<1>7. TokenInv'
  <2>1. \A g \in Fiber : Inside(g)' <=> Inside(g)
    BY <1>1 DEF Inside, MutexTypeOK
  <2>2. QED BY <1>1, <1>6, <2>1, TokenStays DEF mvars
<1>8. ReleaseInv'
  BY <1>1 DEF ReleaseInv, MutexTypeOK, mvars, lvars
<1>9. QED BY <1>2, <1>3, <1>6, <1>7, <1>8

(* The executor stops. *)
LEMMA StopStep ==
  ASSUME MutexInv, StopExecutor
  PROVE  MutexInv'
<1> USE DEF MutexInv
<1>1. /\ state' = [f \in Fiber |-> IF state[f] = "Queued" THEN "None" ELSE state[f]]
      /\ UNCHANGED <<pc, at, this, mvars, lvars, bvars>>
  BY DEF StopExecutor, Stop, Destroyed
<1>2. CoreInv'
  BY StopCore DEF StopExecutor
<1>3. MutexTypeOK'
  BY <1>1, <1>2 DEF MutexTypeOK, CoreInv, mvars, lvars, bvars
<1>4. WaitersAside
  BY <1>1 DEF PcInv, ListInv, WaitersAside, mvars, lvars
<1>5. /\ HeirInv' /\ ListInv' /\ PcInv'
      /\ \A v \in Workers : Passing(v)' <=> Passing(v)
  BY <1>3, <1>4, Frame
<1>6. TokenInv'
  <2>1. \A g \in Fiber : Inside(g)' <=> Inside(g)
    BY <1>1 DEF Inside
  <2>2. QED BY <1>1, <1>5, <2>1, TokenStays DEF mvars
<1>7. ReleaseInv'
  BY <1>1 DEF ReleaseInv, mvars, lvars
<1>8. QED BY <1>2, <1>3, <1>5, <1>6, <1>7

----------------------------------------------------------------------------
(* Lock *)

(* TryLock, whether it succeeds or not *)
LEMMA TryLockStep ==
  ASSUME MutexInv, NEW w \in Workers, NEW f \in Fiber, TryLock(w, f)
  PROVE  MutexInv'
<1> USE DEF MutexInv
<1>1. PICK l : /\ l = IF locked THEN "body" ELSE "critical"
               /\ Continue(w, f, l)
  BY DEF TryLock
<1>2. /\ at[w] = "fiber" /\ this[w] = f /\ pc[f] = "body"
      /\ pc' = [pc EXCEPT ![f] = l]
      /\ locked' = TRUE
      /\ UNCHANGED <<state, at, this, stacked, waiters, lvars>>
  BY <1>1 DEF TryLock, InFiber, Continue, Goto
<1>3. CoreInv'
  BY <1>1, ContinueCore
<1>4. MutexTypeOK'
  <2>1. locks' \in 0..MaxLocks /\ yields' \in 0..MaxYields
    BY MutexAssumption DEF MutexTypeOK, TryLock, CountLock
  <2>2. QED BY <1>1, <1>2, <1>3, <2>1 DEF MutexTypeOK, CoreInv, lvars
<1>5. WaitersAside
  <2>1. /\ \A g \in Fiber : g /= f => pc'[g] = pc[g]
        /\ pc'[f] \notin {"lock_wait", "unlock_wait"} /\ pc[f] /= "lock_wait"
    BY <1>1, <1>2 DEF MutexTypeOK
  <2>2. locked' /\ UNCHANGED <<state, at, this, stacked, waiters, nxt, next_>>
    BY <1>2 DEF lvars
  <2>3. QED BY <1>2, <2>1, <2>2, MoveFrame
<1>6. /\ HeirInv' /\ ListInv' /\ PcInv'
      /\ \A v \in Workers : Passing(v)' <=> Passing(v)
  BY <1>4, <1>5, Frame
<1>7. TokenInv'
  <2>1. CASE locked
    <3>1. \A g \in Fiber : Inside(g)' <=> Inside(g)
      BY <1>1, <1>2, <2>1 DEF Inside, MutexTypeOK
    <3>2. QED BY <1>2, <1>6, <2>1, <3>1 DEF TokenInv
  <2>2. CASE ~locked
    <3>1. \A g \in Fiber : Inside(g)' <=> g = f
      BY <1>1, <1>2, <2>2 DEF Inside, MutexTypeOK, TokenInv
    <3>2. QED BY <1>2, <1>6, <2>2, <3>1 DEF TokenInv
  <2>3. QED BY <2>1, <2>2
<1>8. ReleaseInv'
  BY <1>1, <1>2 DEF ReleaseInv, MutexTypeOK, lvars
<1>9. QED BY <1>3, <1>4, <1>6, <1>7, <1>8

(* The fast path of Lock *)
LEMMA LockFastStep ==
  ASSUME MutexInv, NEW w \in Workers, NEW f \in Fiber, LockFast(w, f)
  PROVE  MutexInv'
<1>1. TryLock(w, f)
  BY DEF LockFast, TryLock
<1>2. QED BY <1>1, TryLockStep

(* The slow path of Lock: the fiber suspends with a Locker. *)
LEMMA LockSlowStep ==
  ASSUME MutexInv, NEW w \in Workers, NEW f \in Fiber, LockSlow(w, f)
  PROVE  MutexInv'
<1> USE DEF MutexInv
<1>1. /\ at[w] = "fiber" /\ this[w] = f /\ pc[f] = "body"
      /\ state' = [state EXCEPT ![f] = "Suspended"]
      /\ pc' = [pc EXCEPT ![f] = "lock_wait"]
      /\ at' = [at EXCEPT ![w] = "awaiter"]
      /\ this' = [this EXCEPT ![w] = f]
      /\ UNCHANGED <<mvars, lvars>>
  BY DEF LockSlow, InFiber, Suspend, Become, Goto, WorkerAt
<1>2. CoreInv'
  BY <1>1, SuspendCore DEF LockSlow
<1>3. MutexTypeOK'
  <2>1. locks' \in 0..MaxLocks /\ yields' \in 0..MaxYields
    BY MutexAssumption DEF MutexTypeOK, LockSlow, CountLock
  <2>2. QED BY <1>1, <1>2, <2>1 DEF MutexTypeOK, CoreInv, mvars, lvars
<1>4. /\ \A v \in Workers : v /= w /\ Executes(v) => this[v] \in Fiber \ {f}
      /\ state[f] = "Running"
  BY <1>1 DEF CoreInv, WorkerInv, FTypeOK, Executes
<1>5. \A v \in Workers : Passing(v)' <=> Passing(v)
  BY <1>1, <1>4 DEF Passing, Executes, MutexTypeOK, FTypeOK
<1>6. \A g \in Fiber : ParkedInLock(g) => g /= f /\ ParkedInLock(g)'
  BY <1>1 DEF ParkedInLock, MutexTypeOK, FTypeOK
<1>7. \A g \in Fiber : Listed(g)' <=> Listed(g)
  BY <1>1 DEF Listed, mvars
<1>8. \A v \in Workers : at'[v] = "awaiter" /\ pc'[this'[v]] = "unlock_wait" =>
        /\ at[v] = "awaiter" /\ pc[this[v]] = "unlock_wait"
        /\ this'[v] = this[v] /\ this[v] \in Fiber
  BY <1>1, <1>4 DEF MutexTypeOK, FTypeOK, Executes
<1>9. HeirInv'
  <2>1. ASSUME NEW v \in Workers, at'[v] = "transfer"
        PROVE  ParkedInLock(nxt[v])' /\ ~Listed(nxt[v])'
    <3>1. PICK g \in Fiber : g = nxt[v] /\ g = nxt'[v] /\ ParkedInLock(g) /\ ~Listed(g)
      BY <1>1, <2>1 DEF HeirInv, ParkedInLock, MutexTypeOK, FTypeOK, lvars
    <3>2. ParkedInLock(g)' /\ ~Listed(g)'
      BY <1>6, <1>7, <3>1
    <3>3. QED BY <3>1, <3>2 DEF ParkedInLock, Listed
  <2>2. ASSUME NEW v \in Workers, at'[v] = "awaiter", pc'[this'[v]] = "unlock_wait"
        PROVE  ParkedInLock(next_[this[v]])' /\ ~Listed(next_[this[v]])'
    <3>1. PICK g \in Fiber : g = next_'[this'[v]] /\ ParkedInLock(g) /\ ~Listed(g)
      BY <1>1, <1>8, <2>2 DEF HeirInv, ParkedInLock, lvars
    <3>2. ParkedInLock(g)' /\ ~Listed(g)'
      BY <1>6, <1>7, <3>1
    <3>3. QED BY <3>1, <3>2 DEF ParkedInLock, Listed
  <2>3. QED BY <2>1, <2>2 DEF HeirInv
<1>10. ListInv'
  <2>1. \A g \in Fiber : Listed(g)' => ParkedInLock(g)' /\ locked'
    BY <1>1, <1>6, <1>7 DEF ListInv, mvars
  <2>2. \A g \in Fiber : g /= f /\ Attended(g) => Attended(g)'
    BY <1>1, <1>4 DEF Attended, Executes, MutexTypeOK, FTypeOK, lvars
  <2>3. Attended(f)'
    BY <1>1 DEF Attended, Executes, MutexTypeOK, FTypeOK
  <2>4. \A g \in Fiber : pc'[g] = "lock_wait" => Listed(g)' \/ Attended(g)'
    BY <1>1, <1>7, <2>2, <2>3 DEF ListInv, MutexTypeOK
  <2>5. QED BY <1>1, <2>1, <2>4 DEF ListInv, mvars
<1>11. PcInv'
  BY <1>1 DEF PcInv, MutexTypeOK, FTypeOK
<1>12. TokenInv'
  <2>1. \A g \in Fiber : Inside(g)' <=> Inside(g)
    BY <1>1 DEF Inside, MutexTypeOK
  <2>2. QED BY <1>1, <1>5, <2>1, TokenStays DEF mvars
<1>13. ReleaseInv'
  BY <1>1 DEF ReleaseInv, MutexTypeOK, mvars, lvars
<1>14. QED BY <1>2, <1>3, <1>9, <1>10, <1>11, <1>12, <1>13

(* A step that only changes what a fiber has loaded from state_ *)
LEMMA MutexSeenStep ==
  ASSUME MutexInv, NEW f \in Fiber,
         NEW x \in Fiber \cup {None, "Unlocked", "LockedNoWaiters"},
         loaded' = [loaded EXCEPT ![f] = x],
         pc[f] = "release" => x \notin Fiber,
         UNCHANGED <<fvars, mvars, next_, nxt, bvars>>
  PROVE  MutexInv'
<1> USE DEF MutexInv
<1>1. CoreInv'
  BY StutterCore
<1>2. MutexTypeOK'
  BY <1>1 DEF MutexTypeOK, CoreInv, fvars, mvars, bvars
<1>3. WaitersAside
  BY DEF WaitersAside, ListInv, fvars, mvars
<1>4. /\ HeirInv' /\ ListInv' /\ PcInv'
      /\ \A v \in Workers : Passing(v)' <=> Passing(v)
  BY <1>2, <1>3, Frame
<1>5. TokenInv'
  <2>1. \A g \in Fiber : Inside(g)' <=> Inside(g)
    BY DEF Inside, fvars
  <2>2. QED BY <1>4, <2>1, TokenStays DEF mvars
<1>6. ReleaseInv'
  BY DEF ReleaseInv, MutexTypeOK, fvars, mvars
<1>7. QED BY <1>1, <1>2, <1>4, <1>5, <1>6

(* What a load of state_ returns *)
LEMMA MutexWordFacts ==
  ASSUME MutexTypeOK
  PROVE  /\ MutexWord \in Fiber \cup {"Unlocked", "LockedNoWaiters"}
         /\ MutexWord = "Unlocked" <=> ~locked
         /\ MutexWord = "LockedNoWaiters" <=> locked /\ stacked = <<>>
<1>1. CASE stacked = <<>>
  BY <1>1 DEF MutexWord, MutexTypeOK
<1>2. CASE stacked /= <<>>
  <2>1. PICK h \in Fiber : h = Head(stacked)
    BY <1>2, PopFacts DEF MutexTypeOK
  <2>2. h \notin {"Unlocked", "LockedNoWaiters"}
    BY MutexAssumption
  <2>3. QED BY <1>2, <2>1, <2>2 DEF MutexWord, MutexTypeOK
<1>3. QED BY <1>1, <1>2

(* The Locker loads state_. *)
LEMMA LockerLoadStep ==
  ASSUME MutexInv, NEW w \in Workers, NEW f \in Fiber, LockerLoad(w, f)
  PROVE  MutexInv'
<1>1. PICK x \in Fiber \cup {None, "Unlocked", "LockedNoWaiters"} : x = MutexWord
  BY MutexWordFacts DEF MutexInv
<1>2. /\ pc[f] = "lock_wait" /\ loaded' = [loaded EXCEPT ![f] = x]
      /\ UNCHANGED <<fvars, mvars, next_, nxt, bvars>>
  BY <1>1 DEF LockerLoad, InAwaiter
<1>3. QED BY <1>2, MutexSeenStep

(* The Locker tries to lock the mutex that it found open. *)
LEMMA LockerTryLockStep ==
  ASSUME MutexInv, NEW w \in Workers, NEW f \in Fiber, LockerTryLock(w, f)
  PROVE  MutexInv'
<1>1. /\ at[w] = "awaiter" /\ this[w] = f /\ pc[f] = "lock_wait"
      /\ loaded' = [loaded EXCEPT ![f] = None]
      /\ UNCHANGED <<stacked, waiters, next_, nxt, bvars>>
  BY DEF LockerTryLock, InAwaiter
<1>2. CASE locked
  <2>1. UNCHANGED <<fvars, mvars, next_, nxt, bvars>>
    BY <1>2 DEF LockerTryLock, mvars
  <2>2. QED BY <1>1, <2>1, MutexSeenStep
<1>3. CASE ~locked
  <2> USE DEF MutexInv
  <2>1. locked' = TRUE /\ ReturnNext(w, f)
    BY <1>3 DEF LockerTryLock
  <2>2. /\ at' = [at EXCEPT ![w] = "fiber"]
        /\ this' = [this EXCEPT ![w] = f]
        /\ state' = [state EXCEPT ![f] = "Running"]
        /\ UNCHANGED pc
    BY <2>1 DEF ReturnNext, WorkerAt, Become
  <2>3. /\ state[f] = "Suspended"
        /\ \A v \in Workers : Executes(v) /\ this[v] = f => v = w
    BY <1>1 DEF CoreInv, WorkerInv, Executes
  <2>4. CoreInv'
    BY <2>1, <2>3, ReturnNextCore
  <2>5. MutexTypeOK'
    BY <1>1, <2>1, <2>2, <2>4 DEF MutexTypeOK, CoreInv, bvars
  <2>6. \A v \in Workers : ~Passing(v) /\ (Passing(v)' <=> v = w)
    BY <1>1, <1>3, <2>2, <2>3 DEF TokenInv, Passing, MutexTypeOK, FTypeOK
  <2>7. \A g \in Fiber : ~Listed(g) /\ ~Listed(g)'
    BY <1>1, <1>3 DEF ListInv, Listed
  <2>8. TokenInv'
    <3>1. \A g \in Fiber : ~Inside(g) /\ ~Inside(g)'
      BY <1>3, <2>2 DEF TokenInv, Inside
    <3>2. QED BY <2>1, <2>6, <3>1 DEF TokenInv
  <2>9. HeirInv'
    BY <2>2, <2>6 DEF HeirInv, Passing, MutexTypeOK, FTypeOK
  <2>10. ListInv'
    <3>1. \A g \in Fiber : Attended(g) => Attended(g)'
      BY <1>1, <2>2, <2>6 DEF Attended, Passing, Executes, MutexTypeOK, FTypeOK
    <3>2. \A g \in Fiber : pc'[g] = "lock_wait" => Attended(g)'
      BY <2>2, <2>7, <3>1 DEF ListInv
    <3>3. QED BY <1>1, <2>7, <3>2 DEF ListInv
  <2>11. PcInv'
    BY <2>2 DEF PcInv, MutexTypeOK, FTypeOK
  <2>12. ReleaseInv'
    BY <1>1, <2>2 DEF ReleaseInv, MutexTypeOK
  <2>13. QED BY <2>4, <2>5, <2>8, <2>9, <2>10, <2>11, <2>12
<1>4. QED BY <1>2, <1>3

(* The Locker links its node, or has to load state_ again. *)
LEMMA LockerEnqueueStep ==
  ASSUME MutexInv, NEW w \in Workers, NEW f \in Fiber, LockerEnqueue(w, f)
  PROVE  MutexInv'
<1>1. /\ at[w] = "awaiter" /\ this[w] = f /\ pc[f] = "lock_wait"
      /\ loaded[f] /= "Unlocked"
      /\ loaded' = [loaded EXCEPT ![f] = None]
      /\ UNCHANGED <<locked, waiters, next_, nxt, bvars>>
  BY DEF LockerEnqueue, InAwaiter
<1>2. CASE MutexWord /= loaded[f]
  <2>1. UNCHANGED <<fvars, mvars, next_, nxt, bvars>>
    BY <1>1, <1>2 DEF LockerEnqueue, mvars
  <2>2. QED BY <1>1, <2>1, MutexSeenStep
<1>3. CASE MutexWord = loaded[f]
  <2> USE DEF MutexInv
  <2>1. stacked' = <<f>> \o stacked /\ ReturnInvalid(w) /\ locked
    BY <1>1, <1>3, MutexWordFacts DEF LockerEnqueue
  <2>2. /\ at' = [at EXCEPT ![w] = "idle"]
        /\ this' = [this EXCEPT ![w] = None]
        /\ UNCHANGED <<state, pc>>
    BY <2>1 DEF ReturnInvalid, WorkerAt
  <2>3. /\ state[f] = "Suspended"
        /\ \A v \in Workers : Executes(v) /\ this[v] = f => v = w
    BY <1>1 DEF CoreInv, WorkerInv, Executes
  <2>4. ~ParkedInLock(f) /\ ~Listed(f)
    BY <1>1 DEF ParkedInLock, ListInv
  <2>5. /\ stacked' \in Seq(Fiber) /\ stacked' /= <<>>
        /\ ToSet(stacked') = {f} \cup ToSet(stacked)
        /\ IsInjective(stacked')
    BY <2>1, <2>4, PushFacts DEF MutexTypeOK, ListInv, Listed
  <2>6. CoreInv'
    BY <2>1, ReturnInvalidCore
  <2>7. MutexTypeOK'
    BY <1>1, <2>2, <2>5, <2>6 DEF MutexTypeOK, CoreInv, bvars
  <2>8. \A v \in Workers : Passing(v)' <=> Passing(v)
    BY <1>1, <2>2 DEF Passing, MutexTypeOK, FTypeOK
  <2>9. TokenInv'
    <3>1. \A g \in Fiber : Inside(g)' <=> Inside(g)
      BY <2>2 DEF Inside
    <3>2. QED BY <1>1, <2>8, <3>1, TokenStays
  <2>10. \A g \in Fiber : ParkedInLock(g) => g /= f /\ ParkedInLock(g)'
    BY <2>2, <2>4, FiberAssumption DEF ParkedInLock, MutexTypeOK, FTypeOK
  <2>11. ParkedInLock(f)'
    BY <1>1, <2>2, <2>3 DEF ParkedInLock, Executes, MutexTypeOK, FTypeOK
  <2>12. \A g \in Fiber : Listed(g)' <=> Listed(g) \/ g = f
    BY <1>1, <2>5 DEF Listed
  <2>13. HeirInv'
    <3>1. ASSUME NEW v \in Workers, at'[v] = "transfer"
          PROVE  ParkedInLock(nxt[v])' /\ ~Listed(nxt[v])'
      <4>1. PICK g \in Fiber : g = nxt'[v] /\ ParkedInLock(g) /\ ~Listed(g)
        BY <1>1, <2>2, <3>1 DEF HeirInv, ParkedInLock, MutexTypeOK, FTypeOK
      <4>2. ParkedInLock(g)' /\ ~Listed(g)'
        BY <2>10, <2>12, <4>1
      <4>3. QED BY <4>1, <4>2 DEF ParkedInLock, Listed
    <3>2. ASSUME NEW v \in Workers, at'[v] = "awaiter", pc'[this'[v]] = "unlock_wait"
          PROVE  ParkedInLock(next_[this[v]])' /\ ~Listed(next_[this[v]])'
      <4>1. PICK g \in Fiber : g = next_'[this'[v]] /\ ParkedInLock(g) /\ ~Listed(g)
        BY <1>1, <2>2, <3>2 DEF HeirInv, ParkedInLock, MutexTypeOK, FTypeOK
      <4>2. ParkedInLock(g)' /\ ~Listed(g)'
        BY <2>10, <2>12, <4>1
      <4>3. QED BY <4>1, <4>2 DEF ParkedInLock, Listed
    <3>3. QED BY <3>1, <3>2 DEF HeirInv
  <2>14. ListInv'
    <3>1. \A g \in Fiber : Listed(g)' => ParkedInLock(g)' /\ locked'
      BY <1>1, <2>1, <2>10, <2>11, <2>12 DEF ListInv
    <3>2. \A g \in Fiber : g /= f /\ Attended(g) => Attended(g)'
      BY <1>1, <2>2 DEF Attended, Executes, MutexTypeOK, FTypeOK
    <3>3. \A g \in Fiber : pc'[g] = "lock_wait" => Listed(g)' \/ Attended(g)'
      BY <2>2, <2>12, <3>2 DEF ListInv
    <3>4. ToSet(stacked') \cap ToSet(waiters') = {}
      BY <1>1, <2>4, <2>5 DEF ListInv, Listed
    <3>5. QED BY <1>1, <2>5, <3>1, <3>3, <3>4 DEF ListInv
  <2>15. PcInv'
    BY <2>2 DEF PcInv
  <2>16. ReleaseInv'
    BY <1>1, <2>2, <2>5 DEF ReleaseInv, MutexTypeOK
  <2>17. QED BY <2>6, <2>7, <2>9, <2>13, <2>14, <2>15, <2>16
<1>4. QED BY <1>2, <1>3

(* Lock returns in the new owner. *)
LEMMA LockReturnStep ==
  ASSUME MutexInv, NEW w \in Workers, NEW f \in Fiber, LockReturn(w, f)
  PROVE  MutexInv'
<1> USE DEF MutexInv
<1>1. /\ at[w] = "fiber" /\ this[w] = f /\ pc[f] = "lock_wait"
      /\ pc' = [pc EXCEPT ![f] = "critical"]
      /\ UNCHANGED <<state, at, this, mvars, lvars, bvars>>
  BY DEF LockReturn, InFiber, Continue, Goto
<1>2. CoreInv'
  BY ContinueCore DEF LockReturn
<1>3. MutexTypeOK'
  BY <1>1, <1>2 DEF MutexTypeOK, CoreInv, mvars, lvars, bvars
<1>4. /\ \A v \in Workers : v /= w /\ Executes(v) => this[v] \in Fiber \ {f}
      /\ state[f] = "Running"
  BY <1>1 DEF CoreInv, WorkerInv, FTypeOK, Executes
<1>5. \A v \in Workers : ~Passing(v)' /\ (Passing(v) <=> v = w)
  BY <1>1, <1>4 DEF TokenInv, Passing, Executes, MutexTypeOK, FTypeOK
<1>6. TokenInv'
  <2>1. \A g \in Fiber : Inside(g)' <=> g = f
    BY <1>1, <1>5 DEF TokenInv, Inside, MutexTypeOK
  <2>2. locked'
    BY <1>1, <1>5 DEF TokenInv, mvars
  <2>3. QED BY <1>5, <2>1, <2>2 DEF TokenInv
<1>7. HeirInv'
  BY <1>5 DEF HeirInv, Passing
<1>8. \A g \in Fiber : ParkedInLock(g) => g /= f /\ ParkedInLock(g)'
  BY <1>1, <1>4 DEF ParkedInLock, MutexTypeOK
<1>9. \A g \in Fiber : Listed(g)' <=> Listed(g)
  BY <1>1 DEF Listed, mvars
<1>10. ListInv'
  <2>1. \A g \in Fiber : Listed(g)' => ParkedInLock(g)' /\ locked'
    BY <1>1, <1>8, <1>9 DEF ListInv, mvars
  <2>2. \A g \in Fiber : g /= f /\ Attended(g) => Attended(g)'
    BY <1>1, <1>4 DEF Attended, Executes, MutexTypeOK, FTypeOK, lvars
  <2>3. \A g \in Fiber : pc'[g] = "lock_wait" => g /= f /\ pc[g] = "lock_wait"
    BY <1>1 DEF MutexTypeOK
  <2>4. \A g \in Fiber : pc'[g] = "lock_wait" => Listed(g)' \/ Attended(g)'
    BY <1>9, <2>2, <2>3 DEF ListInv
  <2>5. QED BY <1>1, <2>1, <2>4 DEF ListInv, mvars
<1>11. PcInv'
  BY <1>1 DEF PcInv, MutexTypeOK
<1>12. ReleaseInv'
  BY <1>1 DEF ReleaseInv, MutexTypeOK, mvars, lvars
<1>13. QED BY <1>2, <1>3, <1>6, <1>7, <1>10, <1>11, <1>12

----------------------------------------------------------------------------
(* Unlock *)

(* Release pops a waiter h from the lists and suspends with an Unlocker    *)
(* for it: the token goes from the fiber to its worker.                    *)
LEMMA PopStep ==
  ASSUME MutexInv, NEW w \in Workers, NEW f \in Fiber, NEW h \in Fiber,
         at[w] = "fiber", this[w] = f, Inside(f),
         Suspend(w, f, "unlock_wait"),
         next_' = [next_ EXCEPT ![f] = h],
         loaded' \in [Fiber -> Fiber \cup {None, "Unlocked", "LockedNoWaiters"}],
         UNCHANGED <<locked, nxt, bvars>>,
         Listed(h),
         stacked' \in Seq(Fiber), waiters' \in Seq(Fiber),
         IsInjective(stacked'), IsInjective(waiters'),
         ToSet(stacked') \cap ToSet(waiters') = {},
         \A g \in Fiber : Listed(g)' <=> Listed(g) /\ g /= h
  PROVE  MutexInv'
<1> USE DEF MutexInv
<1>1. /\ state' = [state EXCEPT ![f] = "Suspended"]
      /\ pc' = [pc EXCEPT ![f] = "unlock_wait"]
      /\ at' = [at EXCEPT ![w] = "awaiter"]
      /\ this' = [this EXCEPT ![w] = f]
  BY DEF Suspend, Become, Goto, WorkerAt
<1>2. CoreInv'
  BY SuspendCore
<1>3. MutexTypeOK'
  BY <1>1, <1>2 DEF MutexTypeOK, CoreInv, bvars
<1>4. /\ \A v \in Workers : v /= w /\ Executes(v) => this[v] \in Fiber \ {f}
      /\ state[f] = "Running"
  BY DEF CoreInv, WorkerInv, FTypeOK, Executes
<1>5. \A v \in Workers : ~Passing(v)
  BY DEF TokenInv
<1>6. \A v \in Workers : Passing(v)' <=> v = w
  BY <1>1, <1>4, <1>5 DEF Passing, Executes, MutexTypeOK, FTypeOK
<1>7. TokenInv'
  <2>1. \A g \in Fiber : ~Inside(g)'
    BY <1>1 DEF TokenInv, Inside, MutexTypeOK
  <2>2. locked'
    BY DEF TokenInv
  <2>3. QED BY <1>6, <2>1, <2>2 DEF TokenInv
<1>8. \A g \in Fiber : ParkedInLock(g) => g /= f /\ ParkedInLock(g)'
  BY <1>1, <1>4 DEF ParkedInLock, MutexTypeOK, FTypeOK
<1>9. ParkedInLock(h) /\ locked
  BY DEF ListInv
<1>10. HeirInv'
  <2>1. ASSUME NEW v \in Workers, at'[v] = "transfer"
        PROVE  FALSE
    BY <1>1, <1>6, <2>1 DEF Passing, MutexTypeOK, FTypeOK
  <2>2. ASSUME NEW v \in Workers, at'[v] = "awaiter", pc'[this'[v]] = "unlock_wait"
        PROVE  ParkedInLock(next_[this[v]])' /\ ~Listed(next_[this[v]])'
    <3>1. v = w
      BY <1>6, <2>2 DEF Passing
    <3>2. next_'[this'[v]] = h
      BY <1>1, <3>1 DEF MutexTypeOK, FTypeOK
    <3>3. ParkedInLock(h)' /\ ~Listed(h)'
      BY <1>8, <1>9
    <3>4. QED BY <3>2, <3>3 DEF ParkedInLock, Listed
  <2>3. QED BY <2>1, <2>2 DEF HeirInv
<1>11. ListInv'
  <2>1. \A g \in Fiber : Listed(g)' => ParkedInLock(g)' /\ locked'
    BY <1>8, <1>9 DEF ListInv
  <2>2. Attended(h)'
    BY <1>1 DEF Attended, MutexTypeOK, FTypeOK
  <2>3. \A g \in Fiber : g /= f /\ Attended(g) => Attended(g)'
    BY <1>1, <1>5 DEF Attended, Passing, Executes, MutexTypeOK, FTypeOK
  <2>4. \A g \in Fiber : pc'[g] = "lock_wait" => g /= f /\ pc[g] = "lock_wait"
    BY <1>1 DEF MutexTypeOK
  <2>5. \A g \in Fiber : pc'[g] = "lock_wait" => Listed(g)' \/ Attended(g)'
    BY <2>2, <2>3, <2>4 DEF ListInv
  <2>6. QED BY <2>1, <2>5 DEF ListInv
<1>12. PcInv'
  BY <1>1 DEF PcInv, MutexTypeOK, FTypeOK
<1>13. ReleaseInv'
  <2>1. \A g \in Fiber : pc'[g] /= "release"
    BY <1>1 DEF TokenInv, Inside, MutexTypeOK
  <2>2. QED BY <2>1 DEF ReleaseInv
<1>14. QED BY <1>2, <1>3, <1>7, <1>10, <1>11, <1>12, <1>13

(* Release with waiters left from the last batch *)
LEMMA ReleaseNextStep ==
  ASSUME MutexInv, NEW w \in Workers, NEW f \in Fiber, ReleaseNext(w, f)
  PROVE  MutexInv'
<1> USE DEF MutexInv
<1>1. PICK h \in Fiber : h = Head(waiters)
  BY PopFacts DEF ReleaseNext, MutexTypeOK
<1>2. /\ at[w] = "fiber" /\ this[w] = f /\ Inside(f)
      /\ Suspend(w, f, "unlock_wait")
      /\ next_' = [next_ EXCEPT ![f] = h]
      /\ waiters' = Tail(waiters)
      /\ UNCHANGED <<locked, stacked, loaded, nxt, bvars>>
  BY <1>1 DEF ReleaseNext, InFiber, Inside, ResumeNextWaiter
<1>3. /\ waiters' \in Seq(Fiber) /\ IsInjective(waiters')
      /\ ToSet(waiters) = {h} \cup ToSet(waiters') /\ h \notin ToSet(waiters')
  BY <1>1, <1>2, PopFacts DEF ReleaseNext, MutexTypeOK, ListInv
<1>4. /\ stacked' \in Seq(Fiber) /\ IsInjective(stacked')
      /\ ToSet(stacked') \cap ToSet(waiters') = {}
      /\ h \notin ToSet(stacked')
  BY <1>2, <1>3 DEF MutexTypeOK, ListInv
<1>5. Listed(h) /\ \A g \in Fiber : Listed(g)' <=> Listed(g) /\ g /= h
  BY <1>2, <1>3, <1>4 DEF Listed
<1>6. loaded' \in [Fiber -> Fiber \cup {None, "Unlocked", "LockedNoWaiters"}]
  BY <1>2 DEF MutexTypeOK
<1>7. UNCHANGED <<locked, nxt, bvars>>
  BY <1>2
<1>8. QED BY <1>2, <1>3, <1>4, <1>5, <1>6, <1>7, PopStep

(* Release takes the nodes linked from state_. *)
LEMMA ReleaseTakeStep ==
  ASSUME MutexInv, NEW w \in Workers, NEW f \in Fiber, ReleaseTake(w, f)
  PROVE  MutexInv'
<1> USE DEF MutexInv
<1>1. /\ at[w] = "fiber" /\ this[w] = f /\ pc[f] = "release"
      /\ loaded[f] \in Fiber /\ stacked /= <<>> /\ waiters = <<>>
  BY DEF ReleaseTake, InFiber, ReleaseInv
<1>2. PICK h \in Fiber : h = Head(stacked)
  BY <1>1, PopFacts DEF MutexTypeOK
<1>3. /\ Inside(f)
      /\ Suspend(w, f, "unlock_wait")
      /\ next_' = [next_ EXCEPT ![f] = h]
      /\ loaded' = [loaded EXCEPT ![f] = None]
      /\ waiters' = Tail(stacked) /\ stacked' = <<>>
      /\ UNCHANGED <<locked, nxt, bvars>>
  BY <1>1, <1>2 DEF ReleaseTake, Inside, ResumeNextWaiter
<1>4. /\ waiters' \in Seq(Fiber) /\ IsInjective(waiters')
      /\ ToSet(stacked) = {h} \cup ToSet(waiters') /\ h \notin ToSet(waiters')
  BY <1>1, <1>2, <1>3, PopFacts DEF MutexTypeOK, ListInv
<1>5. /\ stacked' \in Seq(Fiber) /\ IsInjective(stacked') /\ ToSet(stacked') = {}
      /\ ToSet(waiters) = {}
  BY <1>1, <1>3, EmptyFacts
<1>6. Listed(h) /\ \A g \in Fiber : Listed(g)' <=> Listed(g) /\ g /= h
  BY <1>4, <1>5 DEF Listed
<1>7. loaded' \in [Fiber -> Fiber \cup {None, "Unlocked", "LockedNoWaiters"}]
  BY <1>3 DEF MutexTypeOK
<1>8. ToSet(stacked') \cap ToSet(waiters') = {}
  BY <1>5
<1>9. QED BY <1>1, <1>3, <1>4, <1>5, <1>6, <1>7, <1>8, PopStep

(* Release, without waiters of a batch, loads state_. *)
LEMMA ReleaseLoadStep ==
  ASSUME MutexInv, NEW w \in Workers, NEW f \in Fiber, ReleaseLoad(w, f)
  PROVE  MutexInv'
<1> USE DEF MutexInv
<1>1. PICK x \in Fiber \cup {"Unlocked", "LockedNoWaiters"} :
        /\ x = MutexWord
        /\ x \in Fiber => stacked /= <<>>
  BY MutexWordFacts, MutexAssumption
<1>2. /\ at[w] = "fiber" /\ this[w] = f /\ pc[f] \in {"critical", "release"}
      /\ Continue(w, f, "release")
      /\ pc' = [pc EXCEPT ![f] = "release"]
      /\ loaded' = [loaded EXCEPT ![f] = x]
      /\ waiters = <<>>
      /\ UNCHANGED <<state, at, this, mvars, next_, nxt, bvars>>
  BY <1>1 DEF ReleaseLoad, InFiber, Continue, Goto, ReleaseInv
<1>3. CoreInv'
  BY <1>2, ContinueCore
<1>4. MutexTypeOK'
  BY <1>2, <1>3 DEF MutexTypeOK, CoreInv, mvars, bvars
<1>5. WaitersAside
  <2>1. \A g \in Fiber : Listed(g) => locked'
    BY <1>2 DEF ListInv, mvars
  <2>2. UNCHANGED <<state, at, this, stacked, waiters, nxt, next_>>
    BY <1>2 DEF mvars
  <2>3. pc'[f] = "release" /\ \A g \in Fiber : g /= f => pc'[g] = pc[g]
    BY <1>2 DEF MutexTypeOK
  <2>4. QED BY <1>2, <2>1, <2>2, <2>3, MoveFrame
<1>6. /\ HeirInv' /\ ListInv' /\ PcInv'
      /\ \A v \in Workers : Passing(v)' <=> Passing(v)
  BY <1>4, <1>5, Frame
<1>7. TokenInv'
  <2>1. \A g \in Fiber : Inside(g)' <=> Inside(g)
    BY <1>2 DEF Inside, MutexTypeOK
  <2>2. QED BY <1>2, <1>6, <2>1, TokenStays DEF mvars
<1>8. ReleaseInv'
  BY <1>1, <1>2 DEF ReleaseInv, MutexTypeOK, mvars
<1>9. QED BY <1>3, <1>4, <1>6, <1>7, <1>8

(* Release opens the mutex, or finds that a waiter has come. *)
LEMMA ReleaseUnlockStep ==
  ASSUME MutexInv, NEW w \in Workers, NEW f \in Fiber, ReleaseUnlock(w, f)
  PROVE  MutexInv'
<1>1. /\ at[w] = "fiber" /\ this[w] = f /\ pc[f] = "release"
      /\ loaded' = [loaded EXCEPT ![f] = None]
      /\ UNCHANGED <<stacked, waiters, next_, nxt, bvars>>
  BY DEF ReleaseUnlock, InFiber
<1>2. CASE MutexWord /= "LockedNoWaiters"
  <2>1. UNCHANGED <<fvars, mvars, next_, nxt, bvars>>
    BY <1>1, <1>2 DEF ReleaseUnlock, mvars
  <2>2. None \notin Fiber
    BY FiberAssumption
  <2>3. QED BY <1>1, <2>1, <2>2, MutexSeenStep
<1>3. CASE MutexWord = "LockedNoWaiters"
  <2> USE DEF MutexInv
  <2>1. /\ locked' = FALSE /\ Continue(w, f, "body")
        /\ stacked = <<>> /\ waiters = <<>>
    BY <1>1, <1>3, MutexWordFacts DEF ReleaseUnlock, ReleaseInv
  <2>2. /\ pc' = [pc EXCEPT ![f] = "body"]
        /\ UNCHANGED <<state, at, this>>
    BY <2>1 DEF Continue, Goto
  <2>3. CoreInv'
    BY <2>1, ContinueCore
  <2>4. MutexTypeOK'
    BY <1>1, <2>1, <2>2, <2>3 DEF MutexTypeOK, CoreInv, bvars
  <2>5. \A g \in Fiber : ~Listed(g)
    BY <2>1, EmptyFacts DEF Listed
  <2>6. WaitersAside
    <3>1. UNCHANGED <<state, at, this, stacked, waiters, nxt, next_>>
      BY <1>1, <2>2
    <3>2. pc'[f] = "body" /\ \A g \in Fiber : g /= f => pc'[g] = pc[g]
      BY <2>2 DEF MutexTypeOK
    <3>3. QED BY <1>1, <2>5, <3>1, <3>2, MoveFrame
  <2>7. /\ HeirInv' /\ ListInv' /\ PcInv'
        /\ \A v \in Workers : Passing(v)' <=> Passing(v)
    BY <2>4, <2>6, Frame
  <2>8. TokenInv'
    <3>1. Inside(f)
      BY <1>1 DEF Inside
    <3>2. \A g \in Fiber : ~Inside(g)'
      BY <2>2, <3>1 DEF TokenInv, Inside, MutexTypeOK
    <3>3. \A v \in Workers : ~Passing(v)'
      BY <2>7, <3>1 DEF TokenInv
    <3>4. QED BY <2>1, <3>2, <3>3 DEF TokenInv
  <2>9. ReleaseInv'
    <3>1. \A g \in Fiber : pc'[g] = "release" => g /= f /\ pc[g] = "release"
      BY <2>2 DEF MutexTypeOK
    <3>2. QED BY <1>1, <3>1 DEF ReleaseInv, MutexTypeOK
  <2>10. QED BY <2>3, <2>4, <2>7, <2>8, <2>9
<1>4. QED BY <1>2, <1>3

(* The Unlocker copies next_ and schedules the unlocking fiber. *)
LEMMA UnlockerScheduleStep ==
  ASSUME MutexInv, NEW w \in Workers, NEW f \in Fiber, UnlockerSchedule(w, f)
  PROVE  MutexInv'
<1> USE DEF MutexInv
<1>1. /\ at[w] = "awaiter" /\ this[w] = f /\ pc[f] = "unlock_wait"
      /\ nxt' = [nxt EXCEPT ![w] = next_[f]]
      /\ \E s \in {"None", "Queued"} : state' = [state EXCEPT ![f] = s]
      /\ at' = [at EXCEPT ![w] = "transfer"]
      /\ this' = [this EXCEPT ![w] = f]
      /\ Schedule(f)
      /\ UNCHANGED <<pc, stopped>>
      /\ UNCHANGED <<mvars, loaded, next_, bvars>>
  BY DEF UnlockerSchedule, InAwaiter, Schedule, ScheduleWith, Become, WorkerAt,
         Destroyed
<1>2. /\ \A v \in Workers : v /= w /\ Executes(v) => this[v] \in Fiber \ {f}
      /\ state[f] = "Suspended"
  BY <1>1 DEF CoreInv, WorkerInv, FTypeOK, Executes
<1>3. CoreInv'
  <2>1. /\ at' \in [Workers -> {"idle", "fiber", "awaiter", "transfer"}]
        /\ this' \in [Workers -> Fiber \cup {None}]
        /\ \A v \in Workers : this'[v] = None <=> at'[v] = "idle"
    BY <1>1, FiberAssumption DEF MutexTypeOK, FTypeOK
  <2>2. \A v \in Workers : at'[v] \in {"fiber", "awaiter"} =>
          at'[v] = at[v] /\ this'[v] = this[v] /\ this[v] /= f
    BY <1>1, <1>2 DEF MutexTypeOK, FTypeOK, Executes
  <2>3. Schedule(f) /\ UNCHANGED <<pc, stopped>>
    BY <1>1
  <2>4. state[f] \notin {"None", "Queued"} /\ CoreInv
    BY <1>2
  <2>5. QED BY <2>1, <2>2, <2>3, <2>4, ScheduleCore
<1>4. PICK h \in Fiber : h = next_[f] /\ ParkedInLock(h) /\ ~Listed(h)
  BY <1>1 DEF HeirInv, ParkedInLock
<1>5. MutexTypeOK'
  BY <1>1, <1>3, <1>4 DEF MutexTypeOK, CoreInv, mvars, bvars
<1>6. \A v \in Workers : Passing(v)' <=> Passing(v)
  BY <1>1 DEF Passing, MutexTypeOK, FTypeOK
<1>7. \A v \in Workers : Passing(v) => v = w
  BY <1>1 DEF TokenInv, Passing
<1>8. TokenInv'
  <2>1. \A g \in Fiber : Inside(g)' <=> Inside(g)
    BY <1>1 DEF Inside
  <2>2. QED BY <1>1, <1>6, <2>1, TokenStays DEF mvars
<1>9. \A g \in Fiber : ParkedInLock(g) => g /= f /\ ParkedInLock(g)'
  BY <1>1 DEF ParkedInLock, MutexTypeOK, FTypeOK
<1>10. \A g \in Fiber : Listed(g)' <=> Listed(g)
  BY <1>1 DEF Listed, mvars
<1>11. HeirInv'
  <2>1. ASSUME NEW v \in Workers, at'[v] = "transfer"
        PROVE  ParkedInLock(nxt[v])' /\ ~Listed(nxt[v])'
    <3>1. v = w
      BY <1>6, <1>7, <2>1 DEF Passing
    <3>2. nxt'[v] = h
      BY <1>1, <1>4, <3>1 DEF MutexTypeOK
    <3>3. ParkedInLock(h)' /\ ~Listed(h)'
      BY <1>4, <1>9, <1>10
    <3>4. QED BY <3>2, <3>3 DEF ParkedInLock, Listed
  <2>2. ASSUME NEW v \in Workers, at'[v] = "awaiter", pc'[this'[v]] = "unlock_wait"
        PROVE  FALSE
    <3>1. v = w
      BY <1>6, <1>7, <2>2 DEF Passing
    <3>2. QED BY <1>1, <2>2, <3>1 DEF MutexTypeOK, FTypeOK
  <2>3. QED BY <2>1, <2>2 DEF HeirInv
<1>12. ListInv'
  <2>1. \A g \in Fiber : Listed(g)' => ParkedInLock(g)' /\ locked'
    BY <1>1, <1>9, <1>10 DEF ListInv, mvars
  <2>2. \A g \in Fiber : g /= f /\ Attended(g) => Attended(g)'
    BY <1>1, <1>7 DEF Attended, Passing, Executes, MutexTypeOK, FTypeOK
  <2>3. \A g \in Fiber : pc'[g] = "lock_wait" => Listed(g)' \/ Attended(g)'
    BY <1>1, <1>10, <2>2 DEF ListInv
  <2>4. QED BY <1>1, <2>1, <2>3 DEF ListInv, mvars
<1>13. PcInv'
  BY <1>1 DEF PcInv, MutexTypeOK, FTypeOK
<1>14. ReleaseInv'
  BY <1>1 DEF ReleaseInv, mvars
<1>15. QED BY <1>3, <1>5, <1>8, <1>11, <1>12, <1>13, <1>14

(* The worker goes on with the new owner. *)
LEMMA UnlockerTransferStep ==
  ASSUME MutexInv, NEW w \in Workers, UnlockerTransfer(w)
  PROVE  MutexInv'
<1> USE DEF MutexInv
<1>1. PICK h \in Fiber : h = nxt[w] /\ ParkedInLock(h) /\ ~Listed(h)
  BY DEF UnlockerTransfer, HeirInv, ParkedInLock
<1>2. /\ at[w] = "transfer"
      /\ ReturnNext(w, h)
      /\ at' = [at EXCEPT ![w] = "fiber"]
      /\ this' = [this EXCEPT ![w] = h]
      /\ state' = [state EXCEPT ![h] = "Running"]
      /\ nxt' = [nxt EXCEPT ![w] = None]
      /\ UNCHANGED <<pc, mvars, loaded, next_, bvars>>
  BY <1>1 DEF UnlockerTransfer, ReturnNext, WorkerAt, Become
<1>3. /\ state[h] = "Suspended" /\ pc[h] = "lock_wait"
      /\ \A v \in Workers : Executes(v) => this[v] /= h
  BY <1>1 DEF ParkedInLock, CoreInv, WorkerInv, Executes
<1>4. CoreInv'
  BY <1>2, <1>3, ReturnNextCore
<1>5. MutexTypeOK'
  BY <1>2, <1>4 DEF MutexTypeOK, CoreInv, mvars, bvars
<1>6. \A v \in Workers : Passing(v)' <=> Passing(v)
  BY <1>2, <1>3 DEF Passing, MutexTypeOK, FTypeOK
<1>7. \A v \in Workers : Passing(v) => v = w
  BY <1>2 DEF TokenInv, Passing
<1>8. TokenInv'
  <2>1. \A g \in Fiber : Inside(g)' <=> Inside(g)
    BY <1>2 DEF Inside
  <2>2. QED BY <1>2, <1>6, <2>1, TokenStays DEF mvars
<1>9. HeirInv'
  BY <1>2, <1>6, <1>7 DEF HeirInv, Passing, MutexTypeOK, FTypeOK
<1>10. \A g \in Fiber : g /= h /\ ParkedInLock(g) => ParkedInLock(g)'
  BY <1>2 DEF ParkedInLock, MutexTypeOK, FTypeOK
<1>11. \A g \in Fiber : Listed(g)' <=> Listed(g)
  BY <1>2 DEF Listed, mvars
<1>12. ListInv'
  <2>1. \A g \in Fiber : Listed(g)' => ParkedInLock(g)' /\ locked'
    BY <1>1, <1>2, <1>10, <1>11 DEF ListInv, mvars
  <2>2. Attended(h)'
    BY <1>2 DEF Attended, Executes, MutexTypeOK, FTypeOK
  <2>3. \A g \in Fiber : g /= h /\ Attended(g) => Attended(g)'
    BY <1>1, <1>2, <1>7 DEF Attended, Passing, Executes, MutexTypeOK, FTypeOK
  <2>4. \A g \in Fiber : pc'[g] = "lock_wait" => Listed(g)' \/ Attended(g)'
    BY <1>2, <1>11, <2>2, <2>3 DEF ListInv
  <2>5. QED BY <1>2, <2>1, <2>4 DEF ListInv, mvars
<1>13. PcInv'
  BY <1>2 DEF PcInv, MutexTypeOK, FTypeOK
<1>14. ReleaseInv'
  BY <1>2 DEF ReleaseInv, mvars
<1>15. QED BY <1>4, <1>5, <1>8, <1>9, <1>12, <1>13, <1>14

(* Unlock returns in the fiber that called it. *)
LEMMA UnlockReturnStep ==
  ASSUME MutexInv, NEW w \in Workers, NEW f \in Fiber, UnlockReturn(w, f)
  PROVE  MutexInv'
<1> USE DEF MutexInv
<1>1. /\ at[w] = "fiber" /\ this[w] = f /\ pc[f] = "unlock_wait"
      /\ Continue(w, f, "body")
      /\ pc' = [pc EXCEPT ![f] = "body"]
      /\ next_' = [next_ EXCEPT ![f] = None]
      /\ UNCHANGED <<state, at, this, mvars, loaded, nxt, bvars>>
  BY DEF UnlockReturn, InFiber, Continue, Goto
<1>2. CoreInv'
  BY <1>1, ContinueCore
<1>3. MutexTypeOK'
  BY <1>1, <1>2 DEF MutexTypeOK, CoreInv, mvars, bvars
<1>4. WaitersAside
  <2>1. \A g \in Fiber : g /= f => next_'[g] = next_[g]
    BY <1>1 DEF MutexTypeOK
  <2>2. \A g \in Fiber : Listed(g) => locked'
    BY <1>1 DEF ListInv, mvars
  <2>3. UNCHANGED <<state, at, this, stacked, waiters, nxt>>
    BY <1>1 DEF mvars
  <2>4. pc'[f] = "body" /\ \A g \in Fiber : g /= f => pc'[g] = pc[g]
    BY <1>1 DEF MutexTypeOK
  <2>5. QED BY <1>1, <2>1, <2>2, <2>3, <2>4, MoveFrame
<1>5. /\ HeirInv' /\ ListInv' /\ PcInv'
      /\ \A v \in Workers : Passing(v)' <=> Passing(v)
  BY <1>3, <1>4, Frame
<1>6. TokenInv'
  <2>1. \A g \in Fiber : Inside(g)' <=> Inside(g)
    BY <1>1 DEF Inside, MutexTypeOK
  <2>2. QED BY <1>1, <1>5, <2>1, TokenStays DEF mvars
<1>7. ReleaseInv'
  BY <1>1 DEF ReleaseInv, MutexTypeOK, mvars
<1>8. QED BY <1>2, <1>3, <1>5, <1>6, <1>7

----------------------------------------------------------------------------
(* The results *)

LEMMA MutexInitInv ==
  ASSUME MutexInit
  PROVE  MutexInv
<1>1. CoreInv
  BY InitCore DEF MutexInit
<1>2. MutexTypeOK
  <2>1. 0 \in 0..MaxLocks /\ 0 \in 0..MaxYields
    BY MutexAssumption
  <2>2. <<>> \in Seq(Fiber)
    OBVIOUS
  <2>3. QED BY <1>1, <2>1, <2>2 DEF MutexInit, FInit, MutexTypeOK, CoreInv
<1>3. /\ \A f \in Fiber : pc[f] = "new" /\ ~Inside(f) /\ ~Listed(f)
      /\ \A w \in Workers : at[w] = "idle" /\ ~Passing(w)
  BY EmptyFacts DEF MutexInit, FInit, Inside, Passing, Listed
<1>4. TokenInv
  BY <1>3 DEF MutexInit, TokenInv
<1>5. HeirInv
  BY <1>3 DEF HeirInv
<1>6. ListInv
  BY <1>3, EmptyFacts DEF MutexInit, ListInv
<1>7. PcInv /\ ReleaseInv
  BY <1>3 DEF PcInv, ReleaseInv
<1>8. QED BY <1>1, <1>2, <1>4, <1>5, <1>6, <1>7 DEF MutexInv

LEMMA MutexStutterInv ==
  ASSUME MutexInv, UNCHANGED mutexVars
  PROVE  MutexInv'
<1>1. CoreInv'
  BY StutterCore DEF MutexInv, mutexVars
<1>2. QED
  BY <1>1 DEF MutexInv, CoreInv, mutexVars, fvars, mvars, lvars, bvars, MutexTypeOK, TokenInv,
              HeirInv, ListInv, PcInv, ReleaseInv, Inside, Passing, ParkedInLock, Listed,
              Attended, Executes

LEMMA MutexNextInv ==
  ASSUME MutexInv, [MutexNext]_mutexVars
  PROVE  MutexInv'
<1>1. ASSUME NEW w \in Workers, MutexWorker(w)
      PROVE  MutexInv'
  <2>1. ASSUME NEW f \in Fiber, LockStep(w, f)
        PROVE  MutexInv'
    BY <2>1, TryLockStep, LockFastStep, LockSlowStep, LockerLoadStep,
       LockerTryLockStep, LockerEnqueueStep, LockReturnStep DEF LockStep
  <2>2. ASSUME NEW f \in Fiber, UnlockStep(w, f)
        PROVE  MutexInv'
    BY <2>2, ReleaseNextStep, ReleaseLoadStep, ReleaseUnlockStep, ReleaseTakeStep,
       UnlockerScheduleStep, UnlockReturnStep DEF UnlockStep
  <2>3. ASSUME NEW f \in Fiber, BodyStep(w, f)
        PROVE  MutexInv'
    BY <2>3, YieldBodyStep, YieldCompletedStep, YieldReturnStep, MutexFinishStep
       DEF BodyStep
  <2>4. QED BY <1>1, <2>1, <2>2, <2>3, MutexRunStep, UnlockerTransferStep
            DEF MutexWorker
<1>2. CASE UNCHANGED mutexVars
  BY <1>2, MutexStutterInv
<1>3. QED BY <1>1, <1>2, MutexGoStep, StopStep, MutexStutterInv DEF MutexNext, MutexQuiescent

(* The inductive invariant holds in every behaviour. *)
THEOREM MutexInvariance == MutexSpec => []MutexInv
<1>1. MutexInit => MutexInv
  BY MutexInitInv
<1>2. MutexInv /\ [MutexNext]_mutexVars => MutexInv'
  BY MutexNextInv
<1>3. QED BY <1>1, <1>2, PTL DEF MutexSpec

(* Type correctness of the mutex and of the fibers that use it. *)
THEOREM MutexTypeCorrect == MutexSpec => []MutexTypeOK
<1>1. MutexInv => MutexTypeOK
  BY DEF MutexInv
<1>2. QED BY <1>1, MutexInvariance, PTL

(* However the fibers lock, yield, unlock and end, a fiber is executed by  *)
(* one worker at a time, is queued at most once and has a stack of its     *)
(* own: the worker that the Unlocker sends on to the next owner does not   *)
(* meet the worker that runs the rescheduled fiber.                        *)
THEOREM MutexOneWorkerPerFiberHolds == MutexSpec => []OneWorkerPerFiber
<1>1. MutexInv => OneWorkerPerFiber
  BY CoreInvImplies DEF MutexInv
<1>2. QED BY <1>1, MutexInvariance, PTL

(* Who owns the mutex: the fiber inside, or the one to which the worker    *)
(* with the token carries it                                               *)
LEMMA GrantedFacts ==
  ASSUME MutexInv, NEW f \in Fiber
  PROVE  Granted(f) <=>
           \E w \in Workers :
             /\ Passing(w)
             /\ f = IF at[w] = "fiber" THEN this[w]
                    ELSE IF at[w] = "transfer" THEN nxt[w]
                    ELSE next_[this[w]]
<1>1. ASSUME NEW w \in Workers, NEW g \in Fiber,
             InAwaiter(w, g, "unlock_wait"), next_[g] = f
      PROVE  Passing(w) /\ f = next_[this[w]] /\ at[w] = "awaiter"
  BY <1>1 DEF InAwaiter, Passing
<1>2. ASSUME NEW w \in Workers, at[w] = "awaiter", pc[this[w]] = "unlock_wait",
             f = next_[this[w]]
      PROVE  \E g \in Fiber : InAwaiter(w, g, "unlock_wait") /\ next_[g] = f
  BY <1>2 DEF InAwaiter, MutexInv, MutexTypeOK, FTypeOK
<1>3. ASSUME NEW w \in Workers
      PROVE  InFiber(w, f, "lock_wait")
               <=> at[w] = "fiber" /\ pc[this[w]] = "lock_wait" /\ f = this[w]
  BY DEF InFiber
<1>4. QED BY <1>1, <1>2, <1>3 DEF Granted, Passing

(* A locked mutex has an owner. *)
LEMMA HasOwner ==
  ASSUME MutexInv, locked
  PROVE  \E f \in Fiber : Owns(f)
<1>1. CASE \E f \in Fiber : Inside(f)
  BY <1>1 DEF Owns
<1>2. ASSUME NEW w \in Workers, Passing(w)
      PROVE  \E f \in Fiber : Owns(f)
  <2>1. PICK f \in Fiber : f = IF at[w] = "fiber" THEN this[w]
                               ELSE IF at[w] = "transfer" THEN nxt[w]
                               ELSE next_[this[w]]
    BY <1>2 DEF MutexInv, HeirInv, ParkedInLock, Passing, MutexTypeOK, FTypeOK
  <2>2. QED BY <1>2, <2>1, GrantedFacts DEF Owns
<1>3. QED BY <1>1, <1>2 DEF MutexInv, TokenInv

(* A locked mutex has exactly one owner and an open one has none, for any  *)
(* number of fibers, workers and calls and at every point of a Locker, a   *)
(* Release and a hand-over.                                                *)
THEOREM MutualExclusionHolds == MutexSpec => []MutualExclusion
<1>1. ASSUME MutexInv
      PROVE  MutualExclusion
  <2>1. \A f, g \in Fiber : Owns(f) /\ Owns(g) => f = g
    BY <1>1, GrantedFacts DEF MutexInv, TokenInv, Owns
  <2>2. (\E f \in Fiber : Owns(f)) => locked
    BY <1>1, GrantedFacts DEF MutexInv, TokenInv, Owns
  <2>3. locked => \E f \in Fiber : Owns(f)
    BY <1>1, HasOwner
  <2>4. QED BY <2>1, <2>2, <2>3 DEF MutualExclusion
<1>2. QED BY <1>1, MutexInvariance, PTL

(* No waiter is lost and none is resumed twice: a fiber inside Lock is in  *)
(* exactly one place, and the mutex it waits for has an owner.             *)
THEOREM NoLostLockerHolds == MutexSpec => []NoLostLocker
<1>1. ASSUME MutexInv
      PROVE  NoLostLocker
  <2> USE DEF MutexInv
  <2> SUFFICES ASSUME NEW f \in Fiber
               PROVE  LET places == << \E w \in Workers : InAwaiter(w, f, "lock_wait"),
                            MutexMember(f, stacked), MutexMember(f, waiters), Granted(f) >>
                      IN /\ pc[f] = "lock_wait" =>
                              \E i \in 1..4 : places[i] /\ \A j \in 1..4 : places[j] => j = i
                         /\ places[2] \/ places[3] =>
                              pc[f] = "lock_wait" /\ locked /\ \E g \in Fiber : Owns(g)
    BY DEF NoLostLocker
  <2> DEFINE A == \E w \in Workers : InAwaiter(w, f, "lock_wait")
             S == MutexMember(f, stacked)
             W == MutexMember(f, waiters)
             G == Granted(f)
             places == <<A, S, W, G>>
  <2>1. /\ S <=> f \in ToSet(stacked)
        /\ W <=> f \in ToSet(waiters)
    <3>1. /\ DOMAIN stacked = 1..Len(stacked)
          /\ DOMAIN waiters = 1..Len(waiters)
      BY <1>1, LenProperties DEF MutexTypeOK
    <3>2. QED BY <3>1 DEF MutexMember, ToSet
  <2>2. S \/ W => ParkedInLock(f) /\ locked
    BY <1>1, <2>1 DEF ListInv, Listed
  <2>3. ~(S /\ W)
    BY <1>1, <2>1 DEF ListInv
  <2>4. A => ~ParkedInLock(f)
    BY DEF ParkedInLock, InAwaiter
  <2>5. G => ~S /\ ~W /\ ~A
    <3>1. ASSUME NEW w \in Workers, InFiber(w, f, "lock_wait")
          PROVE  ~ParkedInLock(f) /\ ~A
      BY <1>1, <3>1 DEF InFiber, InAwaiter, ParkedInLock, CoreInv, WorkerInv
    <3>2. ASSUME NEW w \in Workers, at[w] = "transfer", nxt[w] = f
          PROVE  ParkedInLock(f) /\ ~Listed(f)
      BY <1>1, <3>2 DEF HeirInv
    <3>3. ASSUME NEW w \in Workers, NEW g \in Fiber,
                 InAwaiter(w, g, "unlock_wait"), next_[g] = f
          PROVE  ParkedInLock(f) /\ ~Listed(f)
      BY <1>1, <3>3 DEF HeirInv, InAwaiter
    <3>4. QED BY <2>1, <2>2, <2>4, <3>1, <3>2, <3>3 DEF Granted, Listed
  <2>6. pc[f] = "lock_wait" => A \/ S \/ W \/ G
    <3>1. ASSUME pc[f] = "lock_wait", Attended(f)
          PROVE  A \/ G
      <4>1. CASE \E w \in Workers : Executes(w) /\ this[w] = f
        BY <3>1, <4>1 DEF Executes, InAwaiter, Granted, InFiber
      <4>2. CASE \E w \in Workers : at[w] = "transfer" /\ nxt[w] = f
        BY <4>2 DEF Granted
      <4>3. CASE \E w \in Workers : /\ at[w] = "awaiter" /\ pc[this[w]] = "unlock_wait"
                                    /\ next_[this[w]] = f
        BY <1>1, <4>3 DEF Granted, InAwaiter, MutexTypeOK, FTypeOK
      <4>4. QED BY <3>1, <4>1, <4>2, <4>3 DEF Attended
    <3>2. QED BY <1>1, <2>1, <3>1 DEF ListInv, Listed
  <2>7. locked => \E g \in Fiber : Owns(g)
    BY <1>1, HasOwner
  <2>8. /\ places[1] <=> A
        /\ places[2] <=> S
        /\ places[3] <=> W
        /\ places[4] <=> G
    OBVIOUS
  <2> HIDE DEF A, S, W, G, places
  <2>9. pc[f] = "lock_wait" =>
          \E i \in 1..4 : places[i] /\ \A j \in 1..4 : places[j] => j = i
    <3>1. \A j \in 1..4 : j = 1 \/ j = 2 \/ j = 3 \/ j = 4
      OBVIOUS
    <3>2. 1 \in 1..4 /\ 2 \in 1..4 /\ 3 \in 1..4 /\ 4 \in 1..4
      OBVIOUS
    <3>3. QED BY <2>2, <2>3, <2>4, <2>5, <2>6, <2>8, <3>1, <3>2
  <2>10. places[2] \/ places[3] =>
           pc[f] = "lock_wait" /\ locked /\ \E g \in Fiber : Owns(g)
    BY <2>2, <2>7, <2>8 DEF ParkedInLock
  <2>11. QED BY <2>9, <2>10 DEF A, S, W, G, places
<1>2. QED BY <1>1, MutexInvariance, PTL

----------------------------------------------------------------------------
(***************************************************************************)
(* Proofs about FiberWaitGroup for every set of fibers, doers and workers. *)
(*                                                                         *)
(* The argument for the waiters.  A fiber suspended inside Wait is linked  *)
(* from state_ or from the local list of one Fire, once, unless its        *)
(* TryEnqueue still runs; a linked fiber is parked, that is, no worker     *)
(* executes it or its awaiter; and nothing is linked from a state_ that is *)
(* Signaled.                                                               *)
(*                                                                         *)
(* The argument for WaitCovers.  counter_ is the number of the added doers *)
(* that have not called Done.  If all calls of Add come first, it reaches  *)
(* zero once, so that one doer fires, after the last Done; and whoever     *)
(* leaves Wait has seen Signaled or was woken by that Fire.                *)
(***************************************************************************)

(* f is suspended inside Wait and its TryEnqueue has returned *)
Parked(f) ==
  /\ pc[f] = "wait"
  /\ state[f] = "Suspended"
  /\ \A w \in Workers : at[w] = "awaiter" => this[w] /= f

Linked(f) == f \in ToSet(listed) \/ \E d \in Doers : f \in ToSet(firing[d])

Enqueuing(f) == \E w \in Workers : at[w] = "awaiter" /\ this[w] = f

(* a parked fiber is linked, once *)
LinkInv ==
  /\ IsInjective(listed)
  /\ \A d \in Doers : /\ IsInjective(firing[d])
                      /\ ToSet(firing[d]) \cap ToSet(listed) = {}
  /\ \A d, e \in Doers : d /= e => ToSet(firing[d]) \cap ToSet(firing[e]) = {}
  /\ \A f \in Fiber : Linked(f) => Parked(f)
  /\ \A f \in Fiber :
       pc[f] = "wait" /\ state[f] = "Suspended" => Linked(f) \/ Enqueuing(f)
  /\ signaled => listed = <<>>
  /\ \A f \in Fiber : firing[f] /= <<>> => pc[f] = "wake" /\ signaled

LabelInv ==
  /\ \A f \in Doers : pc[f] \in {"new", "body", "fire", "take", "wake", "did",
                                 "finished"}
  /\ \A f \in Fiber \ Doers : pc[f] \in {"new", "body", "wait", "waited", "finished"}
  /\ \A f \in Fiber : pc[f] = "wait" => state[f] /= "None"

(* who leaves Wait has seen Signaled *)
SignalInv ==
  /\ \A f \in Fiber : seen[f] = "Signaled" => signaled
  /\ \A f \in Fiber \ Doers : pc[f] \in {"waited", "finished"} => signaled
  /\ \A f \in Fiber :
       pc[f] = "wait" /\ state[f] \in {"Queued", "Running"} => signaled

(* the doers that were added and have not called Done *)
Left == {d \in added : pc[d] \in {"new", "body"}}

CountInv ==
  /\ IsFiniteSet(added)
  /\ counter = Cardinality(Left)
  /\ \A d \in Doers : pc[d] /= "new" => d \in added

(* if all calls of Add come first, one doer fires, and after the last Done *)
FireInv ==
  /\ \A f \in Fiber : pc[f] /= "new" => added = Doers
  /\ \A d, e \in Doers :
       pc[d] \in {"fire", "take"} => pc[e] \notin {"new", "body"}
  /\ \A d, e \in Doers :
       pc[d] \in {"fire", "take"} /\ pc[e] \in {"fire", "take"} => d = e
  /\ signaled => \A d \in Doers : pc[d] \notin {"new", "body", "fire", "take"}

GroupInv ==
  /\ CoreInv
  /\ ~stopped
  /\ GroupTypeOK
  /\ LabelInv
  /\ LinkInv
  /\ SignalInv
  /\ CountInv
  /\ AddFirst => FireInv

----------------------------------------------------------------------------
(* Steps that leave a part of the state alone *)

(* No list changes and no fiber enters or leaves its parking place. *)
LEMMA LinkFrame ==
  ASSUME GroupInv, UNCHANGED <<listed, firing>>,
         \A g \in Fiber : Parked(g) => Parked(g)',
         \A g \in Fiber : pc'[g] = "wait" /\ state'[g] = "Suspended" =>
           \/ pc[g] = "wait" /\ state[g] = "Suspended" /\ ~Enqueuing(g)
           \/ Enqueuing(g)',
         signaled => signaled',
         signaled' => listed = <<>>,
         \A g \in Fiber : pc[g] = "wake" /\ firing[g] /= <<>> => pc'[g] = "wake"
  PROVE  LinkInv'
<1> USE DEF GroupInv
<1>1. \A g \in Fiber : Linked(g)' <=> Linked(g)
  BY DEF Linked
<1>2. \A g \in Fiber : Linked(g)' => Parked(g)'
  BY <1>1 DEF LinkInv
<1>3. \A g \in Fiber : pc'[g] = "wait" /\ state'[g] = "Suspended" =>
        Linked(g)' \/ Enqueuing(g)'
  BY <1>1 DEF LinkInv
<1>4. \A g \in Fiber : firing'[g] /= <<>> => pc'[g] = "wake" /\ signaled'
  BY DEF LinkInv
<1>5. QED BY <1>2, <1>3, <1>4 DEF LinkInv

(* No doer moves, and no fiber is started. *)
LEMMA DoersAside ==
  ASSUME GroupInv, UNCHANGED <<added, counter, signaled>>,
         \A d \in Doers : pc'[d] = pc[d],
         \A g \in Fiber : pc'[g] /= "new" => pc[g] /= "new"
  PROVE  CountInv' /\ (AddFirst => FireInv')
<1> USE DEF GroupInv
<1>1. added \subseteq Doers /\ Doers \subseteq Fiber
  BY WaitGroupAssumption DEF GroupTypeOK
<1>2. Left' = Left
  BY <1>1 DEF Left
<1>3. CountInv'
  BY <1>2 DEF CountInv
<1>4. AddFirst => FireInv'
  BY DEF FireInv
<1>5. QED BY <1>3, <1>4

(* A doer moves after its Done, and the event is not touched. *)
LEMMA DoerMoves ==
  ASSUME GroupInv, UNCHANGED <<added, counter, signaled>>, NEW f \in Fiber,
         \A g \in Fiber : g /= f => pc'[g] = pc[g],
         pc[f] \notin {"new", "body"}, pc'[f] \notin {"new", "body"},
         pc'[f] \in {"fire", "take"} => pc[f] \in {"fire", "take"}
  PROVE  CountInv' /\ (AddFirst => FireInv')
<1> USE DEF GroupInv
<1>1. added \subseteq Doers /\ Doers \subseteq Fiber
  BY WaitGroupAssumption DEF GroupTypeOK
<1>2. Left' = Left
  BY <1>1 DEF Left
<1>3. CountInv'
  BY <1>1, <1>2 DEF CountInv
<1>4. AddFirst => FireInv'
  BY <1>1 DEF FireInv
<1>5. QED BY <1>3, <1>4

(* What a load of state_ returns *)
LEMMA GroupWordFacts ==
  ASSUME GroupTypeOK
  PROVE  /\ EventWord \in Fiber \cup {"NoWaiters", "Signaled"}
         /\ EventWord = "Signaled" <=> signaled
         /\ EventWord = "NoWaiters" <=> ~signaled /\ listed = <<>>
<1>1. CASE listed = <<>>
  BY <1>1 DEF EventWord, GroupTypeOK
<1>2. CASE listed /= <<>>
  <2>1. PICK h \in Fiber : h = Head(listed)
    BY <1>2, PopFacts DEF GroupTypeOK
  <2>2. h \notin {"NoWaiters", "Signaled"}
    BY WaitGroupAssumption
  <2>3. QED BY <1>2, <2>1, <2>2 DEF EventWord, GroupTypeOK
<1>3. QED BY <1>1, <1>2

----------------------------------------------------------------------------
(* The parent *)

(* Add, before the doer is started *)
LEMMA AddStep ==
  ASSUME GroupInv, NEW d \in Doers, Add(d)
  PROVE  GroupInv'
<1> USE DEF GroupInv
<1>1. /\ d \notin added /\ added' = added \cup {d} /\ counter' = counter + 1
      /\ UNCHANGED <<fvars, evars, seen, firing>>
  BY DEF Add
<1>2. CoreInv'
  BY <1>1, StutterCore
<1>3. UNCHANGED <<state, pc, stopped, at, this, signaled, listed, seen, firing>>
  BY <1>1 DEF fvars, evars
<1>4. pc[d] = "new" /\ d \in Fiber
  BY <1>1, WaitGroupAssumption DEF CountInv
<1>5. Left' = Left \cup {d} /\ d \notin Left
  BY <1>1, <1>3, <1>4 DEF Left
<1>6. IsFiniteSet(added') /\ IsFiniteSet(Left)
  <2>1. IsFiniteSet(added)
    BY DEF CountInv
  <2>2. IsFiniteSet(added \cup {d})
    BY <2>1, FS_AddElement
  <2>3. Left \subseteq added
    BY DEF Left
  <2>4. QED BY <1>1, <2>1, <2>2, <2>3, FS_Subset
<1>7. CountInv'
  <2>1. Cardinality(Left \cup {d}) = Cardinality(Left) + 1
    BY <1>5, <1>6, FS_AddElement
  <2>2. QED BY <1>1, <1>3, <1>5, <1>6, <2>1 DEF CountInv
<1>8. GroupTypeOK'
  BY <1>1, <1>2, <1>3 DEF GroupTypeOK, CoreInv
<1>9. LabelInv' /\ SignalInv'
  BY <1>3 DEF LabelInv, SignalInv
<1>10. LinkInv'
  <2>1. \A g \in Fiber : Linked(g)' <=> Linked(g)
    BY <1>3 DEF Linked
  <2>2. \A g \in Fiber : (Parked(g)' <=> Parked(g)) /\ (Enqueuing(g)' <=> Enqueuing(g))
    BY <1>3 DEF Parked, Enqueuing
  <2>3. LinkInv
    OBVIOUS
  <2>4. QED BY <1>3, <2>1, <2>2, <2>3 DEF LinkInv
<1>11. AddFirst => FireInv'
  <2>1. ASSUME AddFirst
        PROVE  \A f \in Fiber : pc[f] = "new"
    BY <1>1, <2>1 DEF FireInv
  <2>2. QED BY <1>3, <2>1, WaitGroupAssumption DEF FireInv
<1>12. QED BY <1>2, <1>3, <1>7, <1>8, <1>9, <1>10, <1>11

(* A fiber is started. *)
LEMMA GroupGoStep ==
  ASSUME GroupInv, NEW f \in Fiber, GroupGo(f)
  PROVE  GroupInv'
<1> USE DEF GroupInv
<1>1. /\ f \in Doers => f \in added
      /\ AddFirst => added = Doers
      /\ pc[f] = "new" /\ pc' = [pc EXCEPT ![f] = "body"]
      /\ state' = [state EXCEPT ![f] = "Queued"]
      /\ UNCHANGED <<stopped, at, this, counter, signaled, listed, seen, firing, added>>
  BY DEF GroupGo, Go, Goto, ScheduleWith, Become, Destroyed, evars
<1>2. CoreInv'
  BY GoCore DEF GroupGo
<1>3. GroupTypeOK'
  BY <1>1, <1>2 DEF GroupTypeOK, CoreInv
<1>4. /\ pc'[f] = "body" /\ state'[f] = "Queued"
      /\ \A g \in Fiber : g /= f => pc'[g] = pc[g] /\ state'[g] = state[g]
  BY <1>1 DEF GroupTypeOK, FTypeOK
<1>5. added \subseteq Doers /\ Doers \subseteq Fiber
  BY WaitGroupAssumption DEF GroupTypeOK
<1>6. LabelInv'
  BY <1>4, <1>5 DEF LabelInv
<1>7. LinkInv'
  <2>1. \A g \in Fiber : Parked(g) => Parked(g)'
    BY <1>1, <1>4 DEF Parked
  <2>2. \A g \in Fiber : pc'[g] = "wait" /\ state'[g] = "Suspended" =>
          \/ pc[g] = "wait" /\ state[g] = "Suspended" /\ ~Enqueuing(g)
          \/ Enqueuing(g)'
    BY <1>1, <1>4 DEF Enqueuing
  <2>3. signaled => listed = <<>>
    BY DEF LinkInv
  <2>4. QED BY <1>1, <1>4, <2>1, <2>2, <2>3, LinkFrame
<1>8. SignalInv'
  BY <1>1, <1>4, <1>5 DEF SignalInv
<1>9. CountInv'
  <2>1. Left' = Left
    BY <1>1, <1>4, <1>5 DEF Left
  <2>2. QED BY <1>1, <1>4, <1>5, <2>1 DEF CountInv
<1>10. AddFirst => FireInv'
  <2>1. \A d \in Doers : pc'[d] \in {"new", "body"} <=> pc[d] \in {"new", "body"}
    BY <1>1, <1>4, <1>5
  <2>2. \A d \in Doers : pc'[d] \in {"fire", "take"} <=> pc[d] \in {"fire", "take"}
    BY <1>1, <1>4, <1>5
  <2>3. QED BY <1>1, <2>1, <2>2 DEF FireInv
<1>11. QED BY <1>1, <1>2, <1>3, <1>6, <1>7, <1>8, <1>9, <1>10

(* A worker takes a fiber from the queue. *)
LEMMA GroupRunStep ==
  ASSUME GroupInv, NEW w \in Workers, GroupRun(w)
  PROVE  GroupInv'
<1> USE DEF GroupInv
<1>1. PICK f \in Fiber : f = Head(runq) /\ f \in ToSet(runq)
  BY PopFacts DEF GroupRun, Run, GroupTypeOK, FTypeOK
<1>2. /\ at[w] = "idle" /\ state[f] = "Queued"
      /\ at' = [at EXCEPT ![w] = "fiber"]
      /\ this' = [this EXCEPT ![w] = f]
      /\ state' = [state EXCEPT ![f] = "Running"]
      /\ UNCHANGED <<pc, stopped, counter, signaled, listed, seen, firing, added>>
  BY <1>1 DEF GroupRun, Run, WorkerAt, Become, CoreInv, QueueInv, evars
<1>3. CoreInv'
  BY RunCore DEF GroupRun
<1>4. GroupTypeOK'
  BY <1>2, <1>3 DEF GroupTypeOK, CoreInv
<1>5. LabelInv' /\ SignalInv'
  BY <1>2 DEF LabelInv, SignalInv, GroupTypeOK, FTypeOK
<1>6. LinkInv'
  <2>1. \A g \in Fiber : Parked(g) => Parked(g)'
    BY <1>2 DEF Parked, GroupTypeOK, FTypeOK
  <2>2. \A g \in Fiber : pc'[g] = "wait" /\ state'[g] = "Suspended" =>
          \/ pc[g] = "wait" /\ state[g] = "Suspended" /\ ~Enqueuing(g)
          \/ Enqueuing(g)'
    BY <1>2 DEF Enqueuing, GroupTypeOK, FTypeOK
  <2>3. signaled => listed = <<>>
    BY DEF LinkInv
  <2>4. QED BY <1>2, <2>1, <2>2, <2>3, LinkFrame
<1>7. CountInv' /\ (AddFirst => FireInv')
  BY <1>2, DoersAside
<1>8. QED BY <1>2, <1>3, <1>4, <1>5, <1>6, <1>7

(* The routine of a fiber returns. *)
LEMMA GroupFinishStep ==
  ASSUME GroupInv, NEW w \in Workers, NEW f \in Fiber, GroupFinish(w, f)
  PROVE  GroupInv'
<1> USE DEF GroupInv
<1>1. /\ at[w] = "fiber" /\ this[w] = f /\ pc[f] \in {"waited", "did"}
      /\ state' = [state EXCEPT ![f] = "None"]
      /\ pc' = [pc EXCEPT ![f] = "finished"]
      /\ at' = [at EXCEPT ![w] = "idle"]
      /\ this' = [this EXCEPT ![w] = None]
      /\ UNCHANGED <<stopped, counter, signaled, listed, seen, firing, added>>
  BY DEF GroupFinish, InFiber, Complete, Become, Goto, WorkerAt, Destroyed, evars
<1>2. CoreInv'
  BY <1>1, CompleteCore DEF GroupFinish
<1>3. GroupTypeOK'
  BY <1>1, <1>2 DEF GroupTypeOK, CoreInv
<1>4. /\ pc'[f] = "finished" /\ state'[f] = "None"
      /\ \A g \in Fiber : g /= f => pc'[g] = pc[g] /\ state'[g] = state[g]
  BY <1>1 DEF GroupTypeOK, FTypeOK
<1>5. Doers \subseteq Fiber
  BY WaitGroupAssumption
<1>6. LabelInv' /\ SignalInv'
  <2>1. LabelInv'
    BY <1>4, <1>5 DEF LabelInv
  <2>2. f \notin Doers => pc[f] = "waited"
    BY <1>1 DEF LabelInv
  <2>3. QED BY <1>1, <1>4, <1>5, <2>1, <2>2 DEF SignalInv
<1>7. LinkInv'
  <2>1. \A g \in Fiber : Parked(g) => Parked(g)'
    BY <1>1, <1>4 DEF Parked, GroupTypeOK, FTypeOK
  <2>2. \A g \in Fiber : pc'[g] = "wait" /\ state'[g] = "Suspended" =>
          \/ pc[g] = "wait" /\ state[g] = "Suspended" /\ ~Enqueuing(g)
          \/ Enqueuing(g)'
    BY <1>1, <1>4 DEF Enqueuing, GroupTypeOK, FTypeOK
  <2>3. signaled => listed = <<>>
    BY DEF LinkInv
  <2>4. \A g \in Fiber : pc[g] = "wake" /\ firing[g] /= <<>> => pc'[g] = "wake"
    BY <1>1, <1>4
  <2>5. QED BY <1>1, <2>1, <2>2, <2>3, <2>4, LinkFrame
<1>8. CountInv' /\ (AddFirst => FireInv')
  BY <1>1, <1>4, DoerMoves
<1>9. QED BY <1>1, <1>2, <1>3, <1>6, <1>7, <1>8

(* A running fiber moves to another label, outside Wait. *)
LEMMA MoveLink ==
  ASSUME GroupInv, NEW w \in Workers, NEW f \in Fiber,
         at[w] = "fiber", this[w] = f, pc'[f] /= "wait",
         \A g \in Fiber : g /= f => pc'[g] = pc[g],
         UNCHANGED <<state, at, this, listed, firing>>,
         signaled => signaled', signaled' => listed = <<>>,
         pc[f] = "wake" => firing[f] = <<>>
  PROVE  LinkInv'
<1>1. state[f] = "Running"
  BY DEF GroupInv, CoreInv, WorkerInv
<1>2. \A g \in Fiber : Parked(g) => Parked(g)'
  BY <1>1 DEF Parked
<1>3. \A g \in Fiber : pc'[g] = "wait" /\ state'[g] = "Suspended" =>
        \/ pc[g] = "wait" /\ state[g] = "Suspended" /\ ~Enqueuing(g)
        \/ Enqueuing(g)'
  BY <1>1 DEF Enqueuing
<1>4. \A g \in Fiber : pc[g] = "wake" /\ firing[g] /= <<>> => pc'[g] = "wake"
  OBVIOUS
<1>5. UNCHANGED <<listed, firing>>
  OBVIOUS
<1>6. QED BY <1>2, <1>3, <1>4, <1>5, LinkFrame

----------------------------------------------------------------------------
(* Done and Fire *)

(* Done: the last doer goes on to fire. *)
LEMMA DoneStep1 ==
  ASSUME GroupInv, NEW w \in Workers, NEW f \in Fiber, Done(w, f)
  PROVE  GroupInv'
<1> USE DEF GroupInv
<1>1. PICK l : /\ l = IF counter = 1 THEN "fire" ELSE "did"
               /\ Continue(w, f, l)
  BY DEF Done
<1>2. /\ f \in Doers /\ at[w] = "fiber" /\ this[w] = f /\ pc[f] = "body"
      /\ pc' = [pc EXCEPT ![f] = l]
      /\ counter' = counter - 1
      /\ UNCHANGED <<state, stopped, at, this, signaled, listed, seen, firing, added>>
  BY <1>1 DEF Done, InFiber, Continue, Goto, evars
<1>3. CoreInv'
  BY <1>1, ContinueCore
<1>4. pc'[f] = l /\ \A g \in Fiber : g /= f => pc'[g] = pc[g]
  BY <1>2 DEF GroupTypeOK
<1>5. added \subseteq Doers /\ Doers \subseteq Fiber
  BY WaitGroupAssumption DEF GroupTypeOK
<1>6. /\ f \in Left /\ Left' = Left \ {f}
      /\ IsFiniteSet(Left)
  <2>1. f \in added
    BY <1>2 DEF CountInv
  <2>2. IsFiniteSet(Left)
    <3>1. Left \subseteq added /\ IsFiniteSet(added)
      BY DEF Left, CountInv
    <3>2. QED BY <3>1, FS_Subset
  <2>3. QED BY <1>1, <1>2, <1>4, <1>5, <2>1, <2>2 DEF Left
<1>7. Cardinality(Left') = Cardinality(Left) - 1 /\ IsFiniteSet(Left')
  BY <1>6, FS_RemoveElement
<1>8. counter' = Cardinality(Left') /\ counter' \in Nat
  <2>1. counter' = Cardinality(Left')
    BY <1>2, <1>7 DEF CountInv
  <2>2. QED BY <1>7, <2>1, FS_CardinalityType
<1>9. GroupTypeOK'
  BY <1>1, <1>2, <1>3, <1>8 DEF GroupTypeOK, CoreInv
<1>10. LabelInv' /\ SignalInv'
  BY <1>1, <1>2, <1>4, <1>5 DEF LabelInv, SignalInv
<1>11. LinkInv'
  <2>1. signaled => listed = <<>>
    BY DEF LinkInv
  <2>2. pc'[f] /= "wait" /\ pc[f] /= "wake"
    BY <1>1, <1>2, <1>4
  <2>3. UNCHANGED <<state, at, this, listed, firing, signaled>>
    BY <1>2
  <2>4. QED BY <1>2, <1>4, <2>1, <2>2, <2>3, MoveLink
<1>12. CountInv'
  BY <1>2, <1>4, <1>5, <1>8 DEF CountInv
<1>13. AddFirst => FireInv'
  <2> SUFFICES ASSUME AddFirst
               PROVE  FireInv'
    OBVIOUS
  <2>1. added = Doers
    BY <1>2 DEF FireInv
  <2>2. ~signaled /\ \A d \in Doers : pc[d] \notin {"fire", "take"}
    BY <1>2 DEF FireInv
  <2>3. counter = 1 => \A d \in Doers : d /= f => pc[d] \notin {"new", "body"}
    <3>1. ASSUME counter = 1
          PROVE  Left' = {}
      <4>1. Cardinality(Left') = 0
        BY <1>2, <1>8, <3>1
      <4>2. QED BY <1>7, <4>1, FS_EmptySet
    <3>2. QED BY <1>6, <2>1, <3>1 DEF Left
  <2>4. QED BY <1>1, <1>2, <1>4, <1>5, <2>1, <2>2, <2>3 DEF FireInv
<1>14. QED BY <1>2, <1>3, <1>9, <1>10, <1>11, <1>12, <1>13

(* Fire without waiters *)
LEMMA FireFastStep ==
  ASSUME GroupInv, NEW w \in Workers, NEW f \in Fiber, FireFast(w, f)
  PROVE  GroupInv'
<1> USE DEF GroupInv
<1>1. /\ at[w] = "fiber" /\ this[w] = f /\ pc[f] = "fire"
      /\ Continue(w, f, "did")
      /\ pc' = [pc EXCEPT ![f] = "did"]
      /\ signaled' = TRUE
      /\ UNCHANGED <<state, stopped, at, this, counter, listed, seen, firing, added>>
  BY DEF FireFast, InFiber, Continue, Goto
<1>2. CoreInv'
  BY <1>1, ContinueCore
<1>3. GroupTypeOK'
  BY <1>1, <1>2 DEF GroupTypeOK, CoreInv
<1>4. pc'[f] = "did" /\ \A g \in Fiber : g /= f => pc'[g] = pc[g]
  BY <1>1 DEF GroupTypeOK
<1>5. added \subseteq Doers /\ Doers \subseteq Fiber /\ f \in Doers
  BY <1>1, WaitGroupAssumption DEF GroupTypeOK, LabelInv
<1>6. LabelInv' /\ SignalInv'
  BY <1>1, <1>4, <1>5 DEF LabelInv, SignalInv
<1>7. LinkInv'
  <2>1. listed = <<>>
    BY GroupWordFacts DEF FireFast, LinkInv
  <2>2. pc'[f] /= "wait" /\ pc[f] /= "wake"
    BY <1>1, <1>4
  <2>3. UNCHANGED <<state, at, this, listed, firing>> /\ signaled'
    BY <1>1
  <2>4. QED BY <1>1, <1>4, <2>1, <2>2, <2>3, MoveLink
<1>8. CountInv'
  <2>1. Left' = Left
    BY <1>1, <1>4, <1>5 DEF Left
  <2>2. QED BY <1>1, <1>4, <1>5, <2>1 DEF CountInv
<1>9. AddFirst => FireInv'
  BY <1>1, <1>4, <1>5 DEF FireInv
<1>10. QED BY <1>1, <1>2, <1>3, <1>6, <1>7, <1>8, <1>9

(* Fire finds waiters. *)
LEMMA FireSlowStep ==
  ASSUME GroupInv, NEW w \in Workers, NEW f \in Fiber, FireSlow(w, f)
  PROVE  GroupInv'
<1> USE DEF GroupInv
<1>1. /\ at[w] = "fiber" /\ this[w] = f /\ pc[f] = "fire"
      /\ Continue(w, f, "take")
      /\ pc' = [pc EXCEPT ![f] = "take"]
      /\ UNCHANGED <<state, stopped, at, this, counter, signaled, listed, seen, firing,
                     added>>
  BY DEF FireSlow, InFiber, Continue, Goto, evars
<1>2. CoreInv'
  BY <1>1, ContinueCore
<1>3. GroupTypeOK'
  BY <1>1, <1>2 DEF GroupTypeOK, CoreInv
<1>4. pc'[f] = "take" /\ \A g \in Fiber : g /= f => pc'[g] = pc[g]
  BY <1>1 DEF GroupTypeOK
<1>5. Doers \subseteq Fiber /\ f \in Doers
  BY <1>1, WaitGroupAssumption DEF LabelInv
<1>6. LabelInv' /\ SignalInv'
  BY <1>1, <1>4, <1>5 DEF LabelInv, SignalInv
<1>7. LinkInv'
  <2>1. signaled => listed = <<>>
    BY DEF LinkInv
  <2>2. pc'[f] /= "wait" /\ pc[f] /= "wake"
    BY <1>1, <1>4
  <2>3. UNCHANGED <<state, at, this, listed, firing, signaled>>
    BY <1>1
  <2>4. QED BY <1>1, <1>4, <2>1, <2>2, <2>3, MoveLink
<1>8. CountInv' /\ (AddFirst => FireInv')
  BY <1>1, <1>4, DoerMoves
<1>9. QED BY <1>1, <1>2, <1>3, <1>6, <1>7, <1>8

(* Fire signals and takes the waiters. *)
LEMMA FireTakeStep ==
  ASSUME GroupInv, NEW w \in Workers, NEW f \in Fiber, FireTake(w, f)
  PROVE  GroupInv'
<1> USE DEF GroupInv
<1>1. /\ at[w] = "fiber" /\ this[w] = f /\ pc[f] = "take"
      /\ Continue(w, f, "wake")
      /\ pc' = [pc EXCEPT ![f] = "wake"]
      /\ firing' = [firing EXCEPT ![f] = listed]
      /\ listed' = <<>> /\ signaled' = TRUE
      /\ UNCHANGED <<state, stopped, at, this, counter, seen, added>>
  BY DEF FireTake, InFiber, Continue, Goto
<1>2. CoreInv'
  BY <1>1, ContinueCore
<1>3. GroupTypeOK'
  <2>1. <<>> \in Seq(Fiber)
    OBVIOUS
  <2>2. QED BY <1>1, <1>2, <2>1 DEF GroupTypeOK, CoreInv
<1>4. /\ pc'[f] = "wake" /\ \A g \in Fiber : g /= f => pc'[g] = pc[g]
      /\ firing'[f] = listed /\ \A g \in Fiber : g /= f => firing'[g] = firing[g]
  BY <1>1 DEF GroupTypeOK
<1>5. added \subseteq Doers /\ Doers \subseteq Fiber /\ f \in Doers
  BY <1>1, WaitGroupAssumption DEF GroupTypeOK, LabelInv
<1>6. LabelInv' /\ SignalInv'
  BY <1>1, <1>4, <1>5 DEF LabelInv, SignalInv
<1>7. LinkInv'
  <2>1. state[f] = "Running" /\ firing[f] = <<>>
    BY <1>1 DEF CoreInv, WorkerInv, LinkInv
  <2>2. ToSet(listed') = {} /\ IsInjective(listed') /\ ToSet(firing[f]) = {}
    BY <1>1, <2>1, EmptyFacts
  <2>3. \A g \in Fiber : Linked(g)' <=> Linked(g)
    BY <1>4, <1>5, <2>2 DEF Linked
  <2>4. \A g \in Fiber : Parked(g) => Parked(g)'
    BY <1>1, <1>4, <2>1 DEF Parked
  <2>5. \A d \in Doers : IsInjective(firing'[d]) /\ ToSet(firing'[d]) \cap ToSet(listed') = {}
    BY <1>4, <1>5, <2>2 DEF LinkInv
  <2>6. \A d, e \in Doers : d /= e => ToSet(firing'[d]) \cap ToSet(firing'[e]) = {}
    BY <1>4, <1>5 DEF LinkInv
  <2>7. \A g \in Fiber :
          pc'[g] = "wait" /\ state'[g] = "Suspended" => Linked(g)' \/ Enqueuing(g)'
    BY <1>1, <1>4, <2>3 DEF LinkInv, Enqueuing
  <2>8. \A g \in Fiber : firing'[g] /= <<>> => pc'[g] = "wake" /\ signaled'
    BY <1>1, <1>4 DEF LinkInv
  <2>9. \A g \in Fiber : Linked(g)' => Parked(g)'
    BY <2>3, <2>4 DEF LinkInv
  <2>10. QED BY <1>1, <2>2, <2>5, <2>6, <2>7, <2>8, <2>9 DEF LinkInv
<1>8. CountInv'
  <2>1. Left' = Left
    BY <1>1, <1>4, <1>5 DEF Left
  <2>2. QED BY <1>1, <1>4, <1>5, <2>1 DEF CountInv
<1>9. AddFirst => FireInv'
  BY <1>1, <1>4, <1>5 DEF FireInv
<1>10. QED BY <1>1, <1>2, <1>3, <1>6, <1>7, <1>8, <1>9

(* Fire schedules the next waiter of its list. *)
LEMMA FireWakeStep ==
  ASSUME GroupInv, NEW w \in Workers, NEW f \in Fiber, FireWake(w, f)
  PROVE  GroupInv'
<1> USE DEF GroupInv
<1>1. firing[f] \in Seq(Fiber) /\ firing[f] /= <<>> /\ pc[f] = "wake" /\ signaled
  BY DEF FireWake, GroupTypeOK, LinkInv
<1>2. PICK h \in Fiber : h = Head(firing[f])
  BY <1>1, PopFacts
<1>3. Doers \subseteq Fiber /\ f \in Doers
  BY <1>1, WaitGroupAssumption DEF LabelInv
<1>4. /\ Schedule(h)
      /\ state' = [state EXCEPT ![h] = "Queued"]
      /\ firing' = [firing EXCEPT ![f] = Tail(firing[f])]
      /\ UNCHANGED <<pc, stopped, at, this, counter, signaled, listed, seen, added>>
  BY <1>2 DEF FireWake, Schedule, ScheduleWith, Become, evars
<1>5. PICK rest \in Seq(Fiber) :
        /\ rest = Tail(firing[f]) /\ IsInjective(rest)
        /\ ToSet(firing[f]) = {h} \cup ToSet(rest) /\ h \notin ToSet(rest)
  BY <1>1, <1>2, <1>3, PopFacts DEF LinkInv
<1>6. Linked(h) /\ Parked(h)
  BY <1>3, <1>5 DEF Linked, LinkInv
<1>7. CoreInv'
  <2>1. /\ state[h] \notin {"None", "Queued"}
        /\ \A v \in Workers : at[v] \in {"fiber", "awaiter"} => this[v] /= h
    BY <1>6 DEF Parked, CoreInv, WorkerInv
  <2>2. /\ at' \in [Workers -> {"idle", "fiber", "awaiter", "transfer"}]
        /\ this' \in [Workers -> Fiber \cup {None}]
        /\ \A v \in Workers : this'[v] = None <=> at'[v] = "idle"
    BY <1>4 DEF GroupTypeOK, FTypeOK
  <2>3. \A v \in Workers : at'[v] \in {"fiber", "awaiter"} =>
          at'[v] = at[v] /\ this'[v] = this[v] /\ this[v] /= h
    BY <1>4, <2>1
  <2>4. Schedule(h) /\ UNCHANGED <<pc, stopped>> /\ CoreInv
    BY <1>4
  <2>5. QED BY <2>1, <2>2, <2>3, <2>4, ScheduleCore
<1>8. GroupTypeOK'
  BY <1>4, <1>5, <1>7 DEF GroupTypeOK, CoreInv
<1>9. /\ state'[h] = "Queued" /\ \A g \in Fiber : g /= h => state'[g] = state[g]
      /\ firing'[f] = rest /\ \A g \in Fiber : g /= f => firing'[g] = firing[g]
  BY <1>4, <1>5 DEF GroupTypeOK, FTypeOK
<1>10. LabelInv' /\ SignalInv'
  BY <1>1, <1>4, <1>9 DEF LabelInv, SignalInv
<1>11. LinkInv'
  <2>1. ~(h \in ToSet(listed)) /\ \A d \in Doers : d /= f => h \notin ToSet(firing[d])
    BY <1>3, <1>5 DEF LinkInv
  <2>2. \A g \in Fiber : Linked(g)' <=> Linked(g) /\ g /= h
    BY <1>3, <1>4, <1>5, <1>9, <2>1 DEF Linked
  <2>3. \A g \in Fiber : g /= h /\ Parked(g) => Parked(g)'
    BY <1>4, <1>9 DEF Parked
  <2>4. \A g \in Fiber : Linked(g)' => Parked(g)'
    BY <2>2, <2>3 DEF LinkInv
  <2>5. \A d \in Doers : IsInjective(firing'[d]) /\ ToSet(firing'[d]) \cap ToSet(listed') = {}
    BY <1>3, <1>4, <1>5, <1>9 DEF LinkInv
  <2>6. \A d, e \in Doers : d /= e => ToSet(firing'[d]) \cap ToSet(firing'[e]) = {}
    BY <1>3, <1>5, <1>9 DEF LinkInv
  <2>7. \A g \in Fiber :
          pc'[g] = "wait" /\ state'[g] = "Suspended" => Linked(g)' \/ Enqueuing(g)'
    BY <1>4, <1>9, <2>2 DEF LinkInv, Enqueuing
  <2>8. \A g \in Fiber : firing'[g] /= <<>> => pc'[g] = "wake" /\ signaled'
    BY <1>1, <1>4, <1>9 DEF LinkInv
  <2>9. QED BY <1>4, <2>4, <2>5, <2>6, <2>7, <2>8 DEF LinkInv
<1>12. CountInv' /\ (AddFirst => FireInv')
  BY <1>4, DoersAside
<1>13. QED BY <1>4, <1>7, <1>8, <1>10, <1>11, <1>12

(* Fire returns. *)
LEMMA FireEndStep ==
  ASSUME GroupInv, NEW w \in Workers, NEW f \in Fiber, FireEnd(w, f)
  PROVE  GroupInv'
<1> USE DEF GroupInv
<1>1. /\ at[w] = "fiber" /\ this[w] = f /\ pc[f] = "wake" /\ firing[f] = <<>>
      /\ Continue(w, f, "did")
      /\ pc' = [pc EXCEPT ![f] = "did"]
      /\ UNCHANGED <<state, stopped, at, this, counter, signaled, listed, seen, firing,
                     added>>
  BY DEF FireEnd, InFiber, Continue, Goto, evars
<1>2. CoreInv'
  BY <1>1, ContinueCore
<1>3. GroupTypeOK'
  BY <1>1, <1>2 DEF GroupTypeOK, CoreInv
<1>4. pc'[f] = "did" /\ \A g \in Fiber : g /= f => pc'[g] = pc[g]
  BY <1>1 DEF GroupTypeOK
<1>5. Doers \subseteq Fiber /\ f \in Doers
  BY <1>1, WaitGroupAssumption DEF LabelInv
<1>6. LabelInv' /\ SignalInv'
  BY <1>1, <1>4, <1>5 DEF LabelInv, SignalInv
<1>7. LinkInv'
  <2>1. signaled => listed = <<>>
    BY DEF LinkInv
  <2>2. UNCHANGED <<state, at, this, listed, firing, signaled>>
    BY <1>1
  <2>3. QED BY <1>1, <1>4, <2>1, <2>2, MoveLink
<1>8. CountInv' /\ (AddFirst => FireInv')
  BY <1>1, <1>4, DoerMoves
<1>9. QED BY <1>1, <1>2, <1>3, <1>6, <1>7, <1>8

----------------------------------------------------------------------------
(* Wait *)

(* Wait sees that the event has fired. *)
LEMMA WaitReadyStep ==
  ASSUME GroupInv, NEW w \in Workers, NEW f \in Fiber, WaitReady(w, f)
  PROVE  GroupInv'
<1> USE DEF GroupInv
<1>1. /\ f \notin Doers /\ signaled
      /\ at[w] = "fiber" /\ this[w] = f /\ pc[f] = "body"
      /\ Continue(w, f, "waited")
      /\ pc' = [pc EXCEPT ![f] = "waited"]
      /\ UNCHANGED <<state, stopped, at, this, counter, signaled, listed, seen, firing,
                     added>>
  BY DEF WaitReady, InFiber, Continue, Goto, evars
<1>2. CoreInv'
  BY <1>1, ContinueCore
<1>3. GroupTypeOK'
  BY <1>1, <1>2 DEF GroupTypeOK, CoreInv
<1>4. pc'[f] = "waited" /\ \A g \in Fiber : g /= f => pc'[g] = pc[g]
  BY <1>1 DEF GroupTypeOK
<1>5. Doers \subseteq Fiber
  BY WaitGroupAssumption
<1>6. LabelInv' /\ SignalInv'
  BY <1>1, <1>4, <1>5 DEF LabelInv, SignalInv
<1>7. LinkInv'
  <2>1. signaled => listed = <<>>
    BY DEF LinkInv
  <2>2. pc'[f] /= "wait" /\ pc[f] /= "wake"
    BY <1>1, <1>4
  <2>3. UNCHANGED <<state, at, this, listed, firing, signaled>>
    BY <1>1
  <2>4. QED BY <1>1, <1>4, <2>1, <2>2, <2>3, MoveLink
<1>8. CountInv' /\ (AddFirst => FireInv')
  BY <1>1, <1>4, <1>5, DoersAside
<1>9. QED BY <1>1, <1>2, <1>3, <1>6, <1>7, <1>8

(* Wait suspends its fiber; TryEnqueue comes next. *)
LEMMA WaitSuspendStep ==
  ASSUME GroupInv, NEW w \in Workers, NEW f \in Fiber, WaitSuspend(w, f)
  PROVE  GroupInv'
<1> USE DEF GroupInv
<1>1. /\ f \notin Doers
      /\ at[w] = "fiber" /\ this[w] = f /\ pc[f] = "body"
      /\ Suspend(w, f, "wait")
      /\ state' = [state EXCEPT ![f] = "Suspended"]
      /\ pc' = [pc EXCEPT ![f] = "wait"]
      /\ at' = [at EXCEPT ![w] = "awaiter"]
      /\ this' = [this EXCEPT ![w] = f]
      /\ UNCHANGED <<stopped, counter, signaled, listed, seen, firing, added>>
  BY DEF WaitSuspend, InFiber, Suspend, Become, Goto, WorkerAt, evars
<1>2. CoreInv'
  BY <1>1, SuspendCore
<1>3. GroupTypeOK'
  BY <1>1, <1>2 DEF GroupTypeOK, CoreInv
<1>4. /\ pc'[f] = "wait" /\ state'[f] = "Suspended"
      /\ \A g \in Fiber : g /= f => pc'[g] = pc[g] /\ state'[g] = state[g]
      /\ at'[w] = "awaiter" /\ this'[w] = f
      /\ \A v \in Workers : v /= w => at'[v] = at[v] /\ this'[v] = this[v]
  BY <1>1 DEF GroupTypeOK, FTypeOK
<1>5. Doers \subseteq Fiber
  BY WaitGroupAssumption
<1>6. LabelInv' /\ SignalInv'
  BY <1>1, <1>4, <1>5 DEF LabelInv, SignalInv
<1>7. LinkInv'
  <2>1. \A g \in Fiber : Parked(g) => Parked(g)'
    BY <1>1, <1>4 DEF Parked
  <2>2. \A g \in Fiber : g /= f => (Enqueuing(g)' <=> Enqueuing(g))
    BY <1>1, <1>4 DEF Enqueuing
  <2>3. Enqueuing(f)'
    BY <1>4 DEF Enqueuing
  <2>4. \A g \in Fiber : pc'[g] = "wait" /\ state'[g] = "Suspended" =>
          \/ pc[g] = "wait" /\ state[g] = "Suspended" /\ ~Enqueuing(g)
          \/ Enqueuing(g)'
    BY <1>4, <2>2, <2>3
  <2>5. signaled => listed = <<>>
    BY DEF LinkInv
  <2>6. \A g \in Fiber : pc[g] = "wake" /\ firing[g] /= <<>> => pc'[g] = "wake"
    BY <1>1, <1>4
  <2>7. QED BY <1>1, <2>1, <2>4, <2>5, <2>6, LinkFrame
<1>8. CountInv' /\ (AddFirst => FireInv')
  BY <1>1, <1>4, <1>5, DoersAside
<1>9. QED BY <1>1, <1>2, <1>3, <1>6, <1>7, <1>8

(* Nothing but the word seen by a fiber changes. *)
LEMMA GroupSeenStep ==
  ASSUME GroupInv, NEW f \in Fiber, NEW x \in Fiber \cup {None, "NoWaiters", "Signaled"},
         seen' = [seen EXCEPT ![f] = x], x = "Signaled" => signaled,
         UNCHANGED <<fvars, counter, signaled, listed, firing, added>>
  PROVE  GroupInv'
<1> USE DEF GroupInv
<1>1. CoreInv'
  BY StutterCore
<1>2. UNCHANGED <<state, pc, stopped, at, this, counter, signaled, listed, firing, added>>
  BY DEF fvars
<1>3. GroupTypeOK'
  BY <1>1, <1>2 DEF GroupTypeOK, CoreInv
<1>4. LabelInv' /\ SignalInv'
  BY <1>2 DEF LabelInv, SignalInv, GroupTypeOK
<1>5. LinkInv'
  BY <1>2 DEF LinkInv, Linked, Parked, Enqueuing
<1>6. CountInv' /\ (AddFirst => FireInv')
  BY <1>2, DoersAside
<1>7. QED BY <1>1, <1>2, <1>3, <1>4, <1>5, <1>6

(* TryEnqueue loads state_. *)
LEMMA TryEnqueueLoadStep ==
  ASSUME GroupInv, NEW w \in Workers, NEW f \in Fiber, TryEnqueueLoad(w, f)
  PROVE  GroupInv'
<1>1. /\ EventWord \in Fiber \cup {None, "NoWaiters", "Signaled"}
      /\ EventWord = "Signaled" => signaled
  BY GroupWordFacts DEF GroupInv
<1>2. /\ seen' = [seen EXCEPT ![f] = EventWord]
      /\ UNCHANGED <<fvars, counter, signaled, listed, firing, added>>
  BY DEF TryEnqueueLoad, evars
<1>3. QED BY <1>1, <1>2, GroupSeenStep

(* TryEnqueue saw Signaled: the fiber goes on. *)
LEMMA TryEnqueueSignaledStep ==
  ASSUME GroupInv, NEW w \in Workers, NEW f \in Fiber, TryEnqueueSignaled(w, f)
  PROVE  GroupInv'
<1> USE DEF GroupInv
<1>1. /\ at[w] = "awaiter" /\ this[w] = f /\ pc[f] = "wait" /\ signaled
      /\ ReturnNext(w, f)
      /\ state' = [state EXCEPT ![f] = "Running"]
      /\ at' = [at EXCEPT ![w] = "fiber"]
      /\ this' = [this EXCEPT ![w] = f]
      /\ seen' = [seen EXCEPT ![f] = None]
      /\ UNCHANGED <<pc, stopped, counter, signaled, listed, firing, added>>
  BY DEF TryEnqueueSignaled, InAwaiter, ReturnNext, Become, WorkerAt, evars, SignalInv
<1>2. CoreInv'
  <2>1. state[f] = "Suspended"
    BY <1>1 DEF CoreInv, WorkerInv
  <2>2. \A v \in Workers : Executes(v) /\ this[v] = f => v = w
    BY <1>1 DEF CoreInv, WorkerInv, Executes
  <2>3. QED BY <1>1, <2>1, <2>2, ReturnNextCore
<1>3. GroupTypeOK'
  BY <1>1, <1>2 DEF GroupTypeOK, CoreInv
<1>4. /\ state'[f] = "Running" /\ seen'[f] = None
      /\ \A g \in Fiber : g /= f => state'[g] = state[g] /\ seen'[g] = seen[g]
      /\ at'[w] = "fiber" /\ this'[w] = f
      /\ \A v \in Workers : v /= w => at'[v] = at[v] /\ this'[v] = this[v]
  BY <1>1 DEF GroupTypeOK, FTypeOK
<1>5. LabelInv' /\ SignalInv'
  BY <1>1, <1>4 DEF LabelInv, SignalInv
<1>6. LinkInv'
  <2>1. \A g \in Fiber : Parked(g) => Parked(g)'
    BY <1>1, <1>4 DEF Parked
  <2>2. \A g \in Fiber : g /= f => (Enqueuing(g)' <=> Enqueuing(g))
    BY <1>1, <1>4 DEF Enqueuing
  <2>3. \A g \in Fiber : pc'[g] = "wait" /\ state'[g] = "Suspended" =>
          \/ pc[g] = "wait" /\ state[g] = "Suspended" /\ ~Enqueuing(g)
          \/ Enqueuing(g)'
    BY <1>1, <1>4, <2>2
  <2>4. signaled => listed = <<>>
    BY DEF LinkInv
  <2>5. QED BY <1>1, <2>1, <2>3, <2>4, LinkFrame
<1>7. CountInv' /\ (AddFirst => FireInv')
  BY <1>1, DoersAside
<1>8. QED BY <1>1, <1>2, <1>3, <1>5, <1>6, <1>7

(* TryEnqueue links the awaiter, if state_ is still what it has seen. *)
LEMMA TryEnqueueCasStep ==
  ASSUME GroupInv, NEW w \in Workers, NEW f \in Fiber, TryEnqueueCas(w, f)
  PROVE  GroupInv'
<1> USE DEF GroupInv
<1>1. /\ at[w] = "awaiter" /\ this[w] = f /\ pc[f] = "wait"
      /\ seen[f] /= "Signaled" /\ seen' = [seen EXCEPT ![f] = None]
      /\ UNCHANGED <<counter, signaled, firing, added>>
  BY DEF TryEnqueueCas, InAwaiter
<1>2. CASE EventWord /= seen[f]
  <2>1. None /= "Signaled"
    BY WaitGroupAssumption
  <2>2. UNCHANGED <<fvars, counter, signaled, listed, firing, added>>
    BY <1>1, <1>2 DEF TryEnqueueCas
  <2>3. QED BY <1>1, <2>1, <2>2, GroupSeenStep
<1>3. CASE EventWord = seen[f]
  <2>1. ~signaled
    BY <1>1, <1>3, GroupWordFacts
  <2>2. /\ listed' = <<f>> \o listed /\ ReturnInvalid(w)
        /\ at' = [at EXCEPT ![w] = "idle"]
        /\ this' = [this EXCEPT ![w] = None]
        /\ UNCHANGED <<state, pc, stopped>>
    BY <1>3 DEF TryEnqueueCas, ReturnInvalid, WorkerAt
  <2>3. CoreInv'
    BY <2>2, ReturnInvalidCore
  <2>4. state[f] = "Suspended" /\ ~Parked(f) /\ ~Linked(f)
    BY <1>1 DEF CoreInv, WorkerInv, Parked, LinkInv
  <2>5. /\ listed' \in Seq(Fiber) /\ ToSet(listed') = {f} \cup ToSet(listed)
        /\ IsInjective(listed')
    BY <2>2, <2>4, PushFacts DEF GroupTypeOK, LinkInv, Linked
  <2>6. GroupTypeOK'
    BY <1>1, <2>2, <2>3, <2>5 DEF GroupTypeOK, CoreInv
  <2>7. /\ seen'[f] = None /\ \A g \in Fiber : g /= f => seen'[g] = seen[g]
        /\ at'[w] = "idle" /\ this'[w] = None
        /\ \A v \in Workers : v /= w => at'[v] = at[v] /\ this'[v] = this[v]
    BY <1>1, <2>2 DEF GroupTypeOK, FTypeOK
  <2>8. LabelInv' /\ SignalInv'
    <3>1. None /= "Signaled"
      BY WaitGroupAssumption
    <3>2. QED BY <1>1, <2>2, <2>7, <3>1 DEF LabelInv, SignalInv
  <2>9. LinkInv'
    <3>1. \A g \in Fiber : Linked(g)' <=> Linked(g) \/ g = f
      BY <1>1, <2>5 DEF Linked
    <3>2. \A v \in Workers : at[v] = "awaiter" /\ this[v] = f => v = w
      BY <1>1 DEF CoreInv, WorkerInv, Executes
    <3>3. \A g \in Fiber : Parked(g) \/ g = f => Parked(g)'
      BY <1>1, <2>2, <2>4, <2>7, <3>2 DEF Parked
    <3>4. \A g \in Fiber : Linked(g)' => Parked(g)'
      BY <3>1, <3>3 DEF LinkInv
    <3>5. \A g \in Fiber : g /= f /\ Enqueuing(g) => Enqueuing(g)'
      BY <1>1, <2>7 DEF Enqueuing
    <3>6. \A g \in Fiber :
            pc'[g] = "wait" /\ state'[g] = "Suspended" => Linked(g)' \/ Enqueuing(g)'
      BY <2>2, <3>1, <3>5 DEF LinkInv
    <3>7. \A d \in Doers : IsInjective(firing'[d]) /\ ToSet(firing'[d]) \cap ToSet(listed') = {}
      BY <1>1, <2>4, <2>5 DEF LinkInv, Linked
    <3>8. \A g \in Fiber : firing'[g] /= <<>> => pc'[g] = "wake" /\ signaled'
      BY <1>1, <2>2 DEF LinkInv
    <3>9. QED BY <1>1, <2>1, <2>5, <3>4, <3>6, <3>7, <3>8 DEF LinkInv
  <2>10. CountInv' /\ (AddFirst => FireInv')
    BY <1>1, <2>2, DoersAside
  <2>11. QED BY <2>2, <2>3, <2>6, <2>8, <2>9, <2>10
<1>4. QED BY <1>2, <1>3

(* Wait returns in a fiber that was woken or not suspended after all. *)
LEMMA WaitReturnStep ==
  ASSUME GroupInv, NEW w \in Workers, NEW f \in Fiber, WaitReturn(w, f)
  PROVE  GroupInv'
<1> USE DEF GroupInv
<1>1. /\ at[w] = "fiber" /\ this[w] = f /\ pc[f] = "wait"
      /\ Continue(w, f, "waited")
      /\ pc' = [pc EXCEPT ![f] = "waited"]
      /\ UNCHANGED <<state, stopped, at, this, counter, signaled, listed, seen, firing,
                     added>>
  BY DEF WaitReturn, InFiber, Continue, Goto, evars
<1>2. CoreInv'
  BY <1>1, ContinueCore
<1>3. GroupTypeOK'
  BY <1>1, <1>2 DEF GroupTypeOK, CoreInv
<1>4. pc'[f] = "waited" /\ \A g \in Fiber : g /= f => pc'[g] = pc[g]
  BY <1>1 DEF GroupTypeOK
<1>5. Doers \subseteq Fiber /\ f \notin Doers
  BY <1>1, WaitGroupAssumption DEF LabelInv
<1>6. signaled
  BY <1>1 DEF SignalInv, CoreInv, WorkerInv
<1>7. LabelInv' /\ SignalInv'
  BY <1>1, <1>4, <1>5, <1>6 DEF LabelInv, SignalInv
<1>8. LinkInv'
  <2>1. signaled => listed = <<>>
    BY DEF LinkInv
  <2>2. pc'[f] /= "wait" /\ pc[f] /= "wake"
    BY <1>1, <1>4
  <2>3. UNCHANGED <<state, at, this, listed, firing, signaled>>
    BY <1>1
  <2>4. QED BY <1>1, <1>4, <2>1, <2>2, <2>3, MoveLink
<1>9. CountInv' /\ (AddFirst => FireInv')
  BY <1>1, <1>4, <1>5, DoersAside
<1>10. QED BY <1>1, <1>2, <1>3, <1>7, <1>8, <1>9

----------------------------------------------------------------------------
(* The invariant and what follows from it *)

LEMMA GroupInitInv ==
  ASSUME GroupInit
  PROVE  GroupInv
<1>1. CoreInv /\ ~stopped
  BY InitCore DEF GroupInit, FInit
<1>2. /\ \A f \in Fiber : pc[f] = "new" /\ state[f] = "None"
      /\ \A f \in Fiber : firing[f] = <<>> /\ seen[f] = None
      /\ \A w \in Workers : at[w] = "idle"
      /\ listed = <<>> /\ signaled = FALSE /\ added = {} /\ counter = 0
  BY DEF GroupInit, FInit
<1>3. Doers \subseteq Fiber /\ None /= "Signaled"
  BY WaitGroupAssumption
<1>4. GroupTypeOK
  <2>1. <<>> \in Seq(Fiber)
    OBVIOUS
  <2>2. pc \in [Fiber -> {"new", "body", "fire", "take", "wake", "did", "wait",
                          "waited", "finished"}]
    BY DEF GroupInit, FInit
  <2>3. seen \in [Fiber -> Fiber \cup {None, "NoWaiters", "Signaled"}]
    BY DEF GroupInit
  <2>4. firing \in [Fiber -> Seq(Fiber)]
    BY <2>1 DEF GroupInit
  <2>5. QED BY <1>1, <1>2, <2>1, <2>2, <2>3, <2>4 DEF GroupTypeOK, CoreInv
<1>5. LabelInv /\ SignalInv
  BY <1>2, <1>3 DEF LabelInv, SignalInv
<1>6. LinkInv
  <2>1. \A f \in Fiber : ~Linked(f)
    BY <1>2, <1>3, EmptyFacts DEF Linked
  <2>2. QED BY <1>2, <1>3, <2>1, EmptyFacts DEF LinkInv
<1>7. CountInv
  <2>1. Left = {}
    BY <1>2 DEF Left
  <2>2. IsFiniteSet({}) /\ Cardinality({}) = 0
    BY FS_EmptySet
  <2>3. QED BY <1>2, <1>3, <2>1, <2>2 DEF CountInv
<1>8. FireInv
  BY <1>2, <1>3 DEF FireInv
<1>9. QED BY <1>1, <1>4, <1>5, <1>6, <1>7, <1>8 DEF GroupInv

LEMMA GroupStutterInv ==
  ASSUME GroupInv, UNCHANGED groupVars
  PROVE  GroupInv'
<1> USE DEF GroupInv
<1>1. CoreInv'
  BY StutterCore DEF groupVars
<1>2. UNCHANGED <<state, pc, stopped, at, this, counter, signaled, listed, seen, firing,
                  added>>
  BY DEF groupVars, fvars, evars
<1>3. GroupTypeOK'
  BY <1>1, <1>2 DEF GroupTypeOK, CoreInv
<1>4. LabelInv' /\ SignalInv'
  BY <1>2 DEF LabelInv, SignalInv
<1>5. LinkInv'
  <2>1. \A f \in Fiber : Linked(f)' <=> Linked(f)
    BY <1>2 DEF Linked
  <2>2. \A f \in Fiber : (Parked(f)' <=> Parked(f)) /\ (Enqueuing(f)' <=> Enqueuing(f))
    BY <1>2 DEF Parked, Enqueuing
  <2>3. QED BY <2>1, <2>2, <1>2 DEF LinkInv
<1>6. CountInv' /\ (AddFirst => FireInv')
  BY <1>2, DoersAside
<1>7. QED BY <1>1, <1>2, <1>3, <1>4, <1>5, <1>6

LEMMA GroupNextInv ==
  ASSUME GroupInv, [GroupNext]_groupVars
  PROVE  GroupInv'
<1>1. ASSUME NEW w \in Workers, GroupWorker(w)
      PROVE  GroupInv'
  <2>1. ASSUME NEW f \in Fiber, DoneStep(w, f)
        PROVE  GroupInv'
    BY <2>1, DoneStep1, FireFastStep, FireSlowStep, FireTakeStep, FireWakeStep,
       FireEndStep DEF DoneStep
  <2>2. ASSUME NEW f \in Fiber, WaitStep(w, f)
        PROVE  GroupInv'
    BY <2>2, WaitReadyStep, WaitSuspendStep, TryEnqueueLoadStep,
       TryEnqueueSignaledStep, TryEnqueueCasStep, WaitReturnStep DEF WaitStep
  <2>3. QED BY <1>1, <2>1, <2>2, GroupRunStep, GroupFinishStep DEF GroupWorker
<1>2. CASE ParentStep
  BY <1>2, AddStep, GroupGoStep DEF ParentStep
<1>3. QED BY <1>1, <1>2, GroupStutterInv DEF GroupNext, GroupQuiescent

(* The inductive invariant holds in every behaviour. *)
THEOREM GroupInvariance == GroupSpec => []GroupInv
<1>1. GroupInit => GroupInv
  BY GroupInitInv
<1>2. GroupInv /\ [GroupNext]_groupVars => GroupInv'
  BY GroupNextInv
<1>3. QED BY <1>1, <1>2, PTL DEF GroupSpec

(* Type correctness of the wait group, the event and the fibers that use   *)
(* them; in particular counter_ does not go below zero.                    *)
THEOREM GroupTypeCorrect == GroupSpec => []GroupTypeOK
<1>1. GroupInv => GroupTypeOK
  BY DEF GroupInv
<1>2. QED BY <1>1, GroupInvariance, PTL

(* No fiber is resumed twice, by Fire and by its own TryEnqueue: a fiber   *)
(* is executed by one worker at a time and has a stack of its own.         *)
THEOREM GroupOneWorkerPerFiberHolds == GroupSpec => []OneWorkerPerFiber
<1>1. GroupInv => OneWorkerPerFiber
  BY CoreInvImplies DEF GroupInv
<1>2. QED BY <1>1, GroupInvariance, PTL

(* If all calls of Add come before the first doer starts, Wait returns     *)
(* after the last Done, and from then on nobody touches the wait group.    *)
THEOREM WaitCoversHolds == GroupSpec => [](AddFirst => WaitCovers)
<1>1. ASSUME GroupInv, AddFirst
      PROVE  WaitCovers
  <2> USE DEF GroupInv
  <2> SUFFICES ASSUME NEW f \in Fiber \ Doers, pc[f] \in {"waited", "finished"},
                      NEW d \in Doers
               PROVE  pc[d] \in {"wake", "did", "finished"}
    BY DEF WaitCovers
  <2>1. signaled
    BY <1>1 DEF SignalInv
  <2>2. pc[d] \notin {"new", "body", "fire", "take"}
    BY <1>1, <2>1 DEF FireInv
  <2>3. QED BY <1>1, <2>2 DEF LabelInv
<1>2. GroupInv => (AddFirst => WaitCovers)
  BY <1>1
<1>3. QED BY <1>2, GroupInvariance, PTL

(* No waiter is lost and none is woken twice: a fiber inside Wait is in    *)
(* exactly one place, however TryEnqueue and Fire interleave.              *)
THEOREM NoLostWaiterHolds == GroupSpec => []NoLostWaiter
<1>1. ASSUME GroupInv
      PROVE  NoLostWaiter
  <2> USE DEF GroupInv
  <2> SUFFICES ASSUME NEW f \in Fiber, pc[f] = "wait"
               PROVE  LET places == << \E w \in Workers : InAwaiter(w, f, "wait"),
                                       GroupMember(f, listed) /\ ~signaled,
                                       \E d \in Doers : GroupMember(f, firing[d]),
                                       state[f] \in {"Queued", "Running"} >>
                      IN \E i \in 1..4 : places[i] /\ \A j \in 1..4 : places[j] => j = i
    BY DEF NoLostWaiter
  <2> DEFINE A == \E w \in Workers : InAwaiter(w, f, "wait")
             S == GroupMember(f, listed) /\ ~signaled
             W == \E d \in Doers : GroupMember(f, firing[d])
             G == state[f] \in {"Queued", "Running"}
             places == <<A, S, W, G>>
  <2>1. \A s \in Seq(Fiber) : GroupMember(f, s) <=> f \in ToSet(s)
    <3>1. \A s \in Seq(Fiber) : DOMAIN s = 1..Len(s)
      BY LenProperties
    <3>2. QED BY <3>1 DEF GroupMember, ToSet
  <2>2. Linked(f) <=> S \/ W
    <3>1. GroupMember(f, listed) <=> f \in ToSet(listed)
      BY <1>1, <2>1 DEF GroupTypeOK
    <3>2. \A d \in Doers : GroupMember(f, firing[d]) <=> f \in ToSet(firing[d])
      BY <1>1, <2>1, WaitGroupAssumption DEF GroupTypeOK
    <3>3. f \in ToSet(listed) => ~signaled
      BY <1>1, EmptyFacts DEF LinkInv
    <3>4. QED BY <3>1, <3>2, <3>3 DEF Linked
  <2>3. ~(S /\ W)
    <3>1. ASSUME NEW d \in Doers, GroupMember(f, firing[d])
          PROVE  signaled
      <4>1. d \in Fiber /\ firing[d] \in Seq(Fiber)
        BY <1>1, WaitGroupAssumption DEF GroupTypeOK
      <4>2. firing[d] /= <<>>
        BY <2>1, <3>1, <4>1, EmptyFacts
      <4>3. QED BY <1>1, <4>1, <4>2 DEF LinkInv
    <3>2. QED BY <3>1
  <2>4. A <=> Enqueuing(f)
    BY DEF InAwaiter, Enqueuing
  <2>5. S \/ W => Parked(f)
    BY <1>1, <2>2 DEF LinkInv
  <2>6. Parked(f) => ~A /\ ~G
    BY DEF Parked, InAwaiter
  <2>7. A => ~G
    BY <1>1, <2>4 DEF Enqueuing, CoreInv, WorkerInv
  <2>8. A \/ S \/ W \/ G
    <3>1. state[f] = "Suspended" => Linked(f) \/ Enqueuing(f)
      BY <1>1 DEF LinkInv
    <3>2. state[f] \in {"Queued", "Running", "Suspended"}
      BY <1>1 DEF LabelInv, GroupTypeOK, FTypeOK
    <3>3. QED BY <2>2, <2>4, <3>1, <3>2
  <2>9. /\ places[1] <=> A
        /\ places[2] <=> S
        /\ places[3] <=> W
        /\ places[4] <=> G
    OBVIOUS
  <2> HIDE DEF A, S, W, G, places
  <2>10. \E i \in 1..4 : places[i] /\ \A j \in 1..4 : places[j] => j = i
    <3>1. \A j \in 1..4 : j = 1 \/ j = 2 \/ j = 3 \/ j = 4
      OBVIOUS
    <3>2. 1 \in 1..4 /\ 2 \in 1..4 /\ 3 \in 1..4 /\ 4 \in 1..4
      OBVIOUS
    <3>3. QED BY <2>3, <2>5, <2>6, <2>7, <2>8, <2>9, <3>1, <3>2
  <2>11. QED BY <2>10 DEF A, S, W, G, places
<1>2. QED BY <1>1, GroupInvariance, PTL

----------------------------------------------------------------------------
(***************************************************************************)
(* Proofs about FiberCondVar for every finite set of fibers, any set of    *)
(* workers and any number of permits.                                      *)
(*                                                                         *)
(* The argument.  As long as no awaiter was destroyed in the middle of     *)
(* unlock(), CondVarInv holds: the spin lock has one holder, a fiber or    *)
(* the awaiter with which it has suspended; a worker that is inside that   *)
(* unlock() is the only one on the fiber's awaiter, whose flag is set; a   *)
(* fiber that leaves ParkIfEqual either finds the flag cleared, and its    *)
(* destructor unlocks nothing, or it is the one that overtakes.  A fiber   *)
(* that sleeps in Wait is linked from waiters_ or from the local list of a *)
(* notification, once, and none whose awaiter still runs is taken from     *)
(* waiters_.  A notification takes away one claim on the free permits, its *)
(* own, and gives one to the fiber it wakes, or leaves nobody asleep: who  *)
(* has read the epoch before it will not park.  Nobody falls asleep while  *)
(* there is a permit.                                                      *)
(***************************************************************************)

(* f is in the local list of a notification *)
IsWoken(f) == \E g \in Fiber : f \in ToSet(woken[g])

Sleeps(f) == pc[f] = "parked" /\ state[f] = "Suspended"

(* the labels inside the futex, between the lock and the unlock *)
FutexLabels == {"park_check", "park_link", "wake"}

(* w is in the AwaitSuspend of a FutexAwaiter: all that is no YieldAwaiter *)
Parking(w) == at[w] = "transfer" \/ (at[w] = "awaiter" /\ pc[this[w]] /= "leave")

CondVarLabelInv ==
  /\ \A f \in Fiber : pc[f] = "parked" => state[f] /= "None"
  /\ \A f \in blocked : state[f] = "Suspended" /\ pc[f] \in {"check", "permit"}
  /\ \A f \in Fiber : key[f] <= epoch

ParkInv ==
  /\ IsInjective(parked)
  /\ \A f \in Fiber : /\ IsInjective(woken[f])
                      /\ ToSet(woken[f]) \cap ToSet(parked) = {}
                      /\ woken[f] /= <<>> => pc[f] = "resume"
  /\ \A f, g \in Fiber : f /= g => ToSet(woken[f]) \cap ToSet(woken[g]) = {}
  /\ \A f \in Fiber : Sleeps(f) <=> f \in ToSet(parked) \/ IsWoken(f)

OneInFutex ==
  /\ \A f, g \in Fiber : InFutex(f) /\ InFutex(g) => f = g
  /\ spin <=> \E f \in Fiber : InFutex(f)

SpinInv ==
  /\ OneInFutex
  /\ \A w \in Workers : Parking(w) =>
       /\ pc[this[w]] = "parked"
       /\ owns[this[w]]
       /\ at[w] = "awaiter" => this[w] \in ToSet(parked)
  /\ \A v, w \in Workers : Parking(v) /\ Parking(w) /\ this[v] = this[w] => v = w

Seekers == {f \in Fiber : Awake(f)}
Notifiers == {f \in Fiber : pc[f] \in {"notify", "wake"}}
Asleep == {f \in Fiber :
             pc[f] \in {"wait_unlock", "park", "park_check", "park_link", "parked"}
               /\ ~Awake(f)}

(* every free permit has somebody who will look for it *)
Wakeups == Asleep /= {} => permits <= Cardinality(Seekers) + Cardinality(Notifiers)

CondVarInv ==
  /\ ~died /\ ~overtaken
  /\ CoreInv
  /\ ~stopped
  /\ CondVarTypeOK
  /\ CondVarLabelInv
  /\ ParkInv
  /\ SpinInv
  /\ Wakeups

----------------------------------------------------------------------------
(* Counting *)

(* Sets of fibers are finite, and the smaller has no more members. *)
LEMMA FiberSets ==
  ASSUME NEW S \in SUBSET Fiber, NEW T \in SUBSET Fiber
  PROVE  /\ IsFiniteSet(S) /\ Cardinality(S) \in Nat
         /\ S \subseteq T => Cardinality(S) <= Cardinality(T)
<1>1. IsFiniteSet(S) /\ IsFiniteSet(T)
  BY CondVarAssumption, FS_Subset
<1>2. QED BY <1>1, FS_Subset, FS_CardinalityType

LEMMA FiberRoles ==
  /\ Seekers \in SUBSET Fiber /\ Seekers' \in SUBSET Fiber
  /\ Notifiers \in SUBSET Fiber /\ Notifiers' \in SUBSET Fiber
BY DEF Seekers, Notifiers

(* A step that takes no claim away and puts nobody to sleep *)
LEMMA KeepWakeup ==
  ASSUME Wakeups, permits \in Nat, permits' = permits,
         Asleep' \subseteq Asleep, Seekers \subseteq Seekers',
         Notifiers \subseteq Notifiers'
  PROVE  Wakeups'
<1>1. Asleep /= {} => permits <= Cardinality(Seekers) + Cardinality(Notifiers)
  BY DEF Wakeups
<1>2. /\ Cardinality(Seekers) \in Nat /\ Cardinality(Seekers') \in Nat
      /\ Cardinality(Notifiers) \in Nat /\ Cardinality(Notifiers') \in Nat
      /\ Cardinality(Seekers) <= Cardinality(Seekers')
      /\ Cardinality(Notifiers) <= Cardinality(Notifiers')
  BY FiberRoles, FiberSets
<1>3. Asleep' /= {} => permits' <= Cardinality(Seekers') + Cardinality(Notifiers')
  BY <1>1, <1>2
<1>4. QED BY <1>3 DEF Wakeups

(* Whether another fiber is awake does not depend on the one that moves. *)
LEMMA AwakeFrame ==
  ASSUME UNCHANGED <<woken, epoch>>, NEW g \in Fiber,
         pc'[g] = pc[g], key'[g] = key[g],
         \/ state'[g] = state[g]
         \/ pc[g] /= "parked"
         \/ state[g] = "Queued" /\ state'[g] = "Running"
  PROVE  Awake(g)' <=> Awake(g)
BY DEF Awake

LEMMA MoverWakeup ==
  ASSUME CondVarInv, UNCHANGED <<woken, epoch, permits>>, NEW f \in Fiber,
         \A g \in Fiber : g /= f =>
           /\ pc'[g] = pc[g] /\ key'[g] = key[g]
           /\ \/ state'[g] = state[g]
              \/ pc[g] /= "parked"
              \/ state[g] = "Queued" /\ state'[g] = "Running",
         (Awake(f) => Awake(f)') /\ (f \in Asleep' => f \in Asleep),
         f \in Notifiers => f \in Notifiers'
  PROVE  Wakeups'
<1>1. \A g \in Fiber : g /= f => (Awake(g)' <=> Awake(g))
  BY AwakeFrame
<1>2. Seekers \subseteq Seekers'
  BY <1>1 DEF Seekers
<1>3. Asleep' \subseteq Asleep
  BY <1>1 DEF Asleep
<1>4. Notifiers \subseteq Notifiers'
  BY DEF Notifiers
<1>5. QED BY <1>2, <1>3, <1>4, KeepWakeup DEF CondVarInv, CondVarTypeOK

----------------------------------------------------------------------------
(* Steps that leave a part of the state alone *)

(* No list changes, and no fiber enters or leaves its parking place. *)
LEMMA ParkFrame ==
  ASSUME CondVarInv, UNCHANGED <<parked, woken>>,
         \A g \in Fiber : Sleeps(g)' <=> Sleeps(g),
         \A g \in Fiber : pc[g] = "resume" /\ woken[g] /= <<>> => pc'[g] = "resume"
  PROVE  ParkInv'
<1>1. \A g \in Fiber : IsWoken(g)' <=> IsWoken(g)
  BY DEF IsWoken
<1>2. \A g \in Fiber : Sleeps(g)' <=> g \in ToSet(parked') \/ IsWoken(g)'
  BY <1>1 DEF CondVarInv, ParkInv
<1>3. QED BY <1>2 DEF CondVarInv, ParkInv

(* The futex is not touched, and no worker enters or leaves AwaitSuspend. *)
LEMMA SpinFrame ==
  ASSUME CondVarInv, UNCHANGED <<spin, parked, owns>>,
         \A w \in Workers : Parking(w) \/ Parking(w)' =>
           at'[w] = at[w] /\ this'[w] = this[w] /\ pc'[this[w]] = pc[this[w]],
         \A g \in Fiber : pc'[g] \in FutexLabels <=> pc[g] \in FutexLabels
  PROVE  SpinInv'
<1>1. \A w \in Workers : Parking(w)' <=> Parking(w)
  BY DEF Parking
<1>2. \A w \in Workers, g \in Fiber : InAwaiter(w, g, "parked")' <=> InAwaiter(w, g, "parked")
  BY DEF InAwaiter, Parking
<1>3. \A g \in Fiber : InFutex(g)' <=> InFutex(g)
  BY <1>2 DEF InFutex, FutexLabels
<1>4. OneInFutex'
  BY <1>3 DEF CondVarInv, SpinInv, OneInFutex
<1>5. QED BY <1>1, <1>4 DEF CondVarInv, SpinInv

(* A running fiber moves to another label outside its parking place. *)
LEMMA MovePark ==
  ASSUME CondVarInv, NEW w \in Workers, NEW f \in Fiber,
         at[w] = "fiber", this[w] = f,
         \A g \in Fiber : g /= f => pc'[g] = pc[g],
         UNCHANGED <<state, parked, woken>>,
         pc[f] = "resume" => woken[f] = <<>>
  PROVE  ParkInv'
<1>1. state[f] = "Running"
  BY DEF CondVarInv, CoreInv, WorkerInv
<1>2. \A g \in Fiber : Sleeps(g)' <=> Sleeps(g)
  BY <1>1 DEF Sleeps
<1>3. \A g \in Fiber : pc[g] = "resume" /\ woken[g] /= <<>> => pc'[g] = "resume"
  OBVIOUS
<1>4. UNCHANGED <<parked, woken>>
  OBVIOUS
<1>5. QED BY <1>2, <1>3, <1>4, ParkFrame

(* A running fiber is in no awaiter and is not blocked. *)
LEMMA RunningFiber ==
  ASSUME CondVarInv, NEW w \in Workers, NEW f \in Fiber, at[w] = "fiber", this[w] = f
  PROVE  /\ state[f] = "Running"
         /\ f \notin blocked
         /\ \A v \in Workers : at[v] = "awaiter" => this[v] /= f
         /\ f \notin ToSet(parked) /\ ~IsWoken(f)
<1>1. state[f] = "Running"
  BY DEF CondVarInv, CoreInv, WorkerInv
<1>2. QED BY <1>1 DEF CondVarInv, CoreInv, WorkerInv, CondVarLabelInv, ParkInv, Sleeps

(* A fiber moves that is not in an awaiter and parks nowhere, with its     *)
(* worker; it may go into a YieldAwaiter.                                  *)
LEMMA MoveSpin ==
  ASSUME CondVarInv, NEW w \in Workers, NEW f \in Fiber,
         at[w] = "fiber", this[w] = f,
         pc[f] /= "parked" \/ ~owns[f],
         UNCHANGED <<spin, parked, owns>>,
         \A g \in Fiber : g /= f => pc'[g] = pc[g],
         pc'[f] \in FutexLabels <=> pc[f] \in FutexLabels,
         \A v \in Workers : v /= w => at'[v] = at[v] /\ this'[v] = this[v],
         \/ at'[w] \in {"idle", "fiber"}
         \/ at'[w] = "awaiter" /\ this'[w] = f /\ pc'[f] = "leave"
  PROVE  SpinInv'
<1>1. \A v \in Workers : Parking(v) => v /= w /\ this[v] \in Fiber /\ this[v] /= f
  BY DEF CondVarInv, SpinInv, Parking, CoreInv, FTypeOK
<1>2. ASSUME NEW v \in Workers, Parking(v) \/ Parking(v)'
      PROVE  at'[v] = at[v] /\ this'[v] = this[v] /\ pc'[this[v]] = pc[this[v]]
  <2>1. CASE Parking(v)
    BY <1>1, <2>1
  <2>2. CASE Parking(v)'
    <3>1. v /= w
      BY <2>2 DEF Parking
    <3>2. at'[v] = at[v] /\ this'[v] = this[v]
      BY <3>1
    <3>3. CASE at[v] = "transfer"
      <4>1. Parking(v)
        BY <3>3 DEF Parking
      <4>2. QED BY <2>1, <4>1
    <3>4. CASE at[v] = "awaiter"
      <4>1. this[v] /= f /\ this[v] \in Fiber
        BY <3>4, RunningFiber DEF CondVarInv, CoreInv, FTypeOK
      <4>2. QED BY <3>2, <4>1
    <3>5. QED BY <2>2, <3>2, <3>3, <3>4 DEF Parking
  <2>3. QED BY <1>2, <2>1, <2>2
<1>3. \A g \in Fiber : pc'[g] \in FutexLabels <=> pc[g] \in FutexLabels
  OBVIOUS
<1>4. QED BY <1>2, <1>3, SpinFrame

(* A running fiber goes on, outside the futex. *)
LEMMA OutsideMove ==
  ASSUME CondVarInv, NEW w \in Workers, NEW f \in Fiber,
         NEW l \in {"check", "wait_unlock", "park", "relock", "permit", "notify",
                    "unlock", "access", "release_unlock", "done"},
         at[w] = "fiber", this[w] = f, Continue(w, f, l),
         pc[f] \notin FutexLabels,
         pc[f] /= "parked" \/ ~owns[f],
         pc[f] = "resume" => woken[f] = <<>>,
         UNCHANGED <<blocked, spin, parked, epoch, owns, woken, died, overtaken>>,
         owner' \in Fiber \cup {None}, permits' \in Nat,
         key' \in [Fiber -> Nat], \A g \in Fiber : key'[g] <= epoch,
         Wakeups'
  PROVE  CondVarInv'
<1> USE DEF CondVarInv
<1>1. /\ pc' = [pc EXCEPT ![f] = l]
      /\ UNCHANGED <<state, runq, stopped, at, this, stacks>>
  BY DEF Continue, Goto
<1>2. CoreInv'
  BY ContinueCore
<1>3. pc'[f] = l /\ \A g \in Fiber : g /= f => pc'[g] = pc[g]
  BY <1>1 DEF CondVarTypeOK
<1>4. CondVarTypeOK'
  BY <1>1, <1>2 DEF CondVarTypeOK, CoreInv
<1>5. f \notin blocked
  BY RunningFiber
<1>6. CondVarLabelInv'
  BY <1>1, <1>3, <1>5 DEF CondVarLabelInv, CondVarTypeOK
<1>7. ParkInv'
  BY <1>1, <1>3, MovePark
<1>8. SpinInv'
  <2>1. pc'[f] \in FutexLabels <=> pc[f] \in FutexLabels
    BY <1>3 DEF FutexLabels
  <2>2. QED BY <1>1, <1>3, <2>1, MoveSpin
<1>9. QED BY <1>1, <1>2, <1>4, <1>6, <1>7, <1>8

----------------------------------------------------------------------------
(* Fibers and the mutex *)

LEMMA CondVarGoStep ==
  ASSUME CondVarInv, NEW f \in Fiber, CondVarGo(f)
  PROVE  CondVarInv'
<1> USE DEF CondVarInv
<1>1. /\ pc[f] = "new" /\ pc' = [pc EXCEPT ![f] = "body"]
      /\ state' = [state EXCEPT ![f] = "Queued"]
      /\ UNCHANGED <<stopped, at, this, owner, blocked, permits, spin, parked, epoch,
                     key, owns, woken, died, overtaken>>
  BY DEF CondVarGo, Go, Goto, ScheduleWith, Become, Destroyed, ownerVars, futexVars,
         localVars, fate
<1>2. CoreInv'
  BY GoCore DEF CondVarGo
<1>3. CondVarTypeOK'
  BY <1>1, <1>2 DEF CondVarTypeOK, CoreInv
<1>4. /\ pc'[f] = "body" /\ state'[f] = "Queued"
      /\ \A g \in Fiber : g /= f => pc'[g] = pc[g] /\ state'[g] = state[g]
  BY <1>1 DEF CondVarTypeOK, FTypeOK
<1>5. state[f] = "None" /\ f \notin blocked
  BY <1>1 DEF CoreInv, StackInv, CondVarLabelInv
<1>6. \A v \in Workers : at[v] \in {"awaiter", "transfer"} =>
        this[v] \in Fiber /\ this[v] /= f
  BY <1>1, <1>5 DEF CoreInv, WorkerInv, FTypeOK, SpinInv, Parking
<1>7. CondVarLabelInv'
  BY <1>1, <1>4, <1>5, CondVarAssumption DEF CondVarLabelInv, CondVarTypeOK
<1>8. ParkInv'
  <2>1. \A g \in Fiber : Sleeps(g)' <=> Sleeps(g)
    BY <1>1, <1>4 DEF Sleeps
  <2>2. \A g \in Fiber : pc[g] = "resume" /\ woken[g] /= <<>> => pc'[g] = "resume"
    BY <1>1, <1>4
  <2>3. QED BY <1>1, <2>1, <2>2, ParkFrame
<1>9. SpinInv'
  <2>1. \A v \in Workers : Parking(v) \/ Parking(v)' =>
          at'[v] = at[v] /\ this'[v] = this[v] /\ pc'[this[v]] = pc[this[v]]
    BY <1>1, <1>4, <1>6 DEF Parking
  <2>2. \A g \in Fiber : pc'[g] \in FutexLabels <=> pc[g] \in FutexLabels
    BY <1>1, <1>4 DEF FutexLabels
  <2>3. QED BY <1>1, <2>1, <2>2, SpinFrame
<1>10. Wakeups'
  <2>1. (Awake(f) => Awake(f)') /\ (f \in Asleep' => f \in Asleep)
    BY <1>1, <1>4 DEF Awake, Asleep
  <2>2. f \in Notifiers => f \in Notifiers'
    BY <1>1 DEF Notifiers
  <2>3. QED BY <1>1, <1>4, <2>1, <2>2, MoverWakeup
<1>11. QED BY <1>1, <1>2, <1>3, <1>7, <1>8, <1>9, <1>10

LEMMA CondVarRunStep ==
  ASSUME CondVarInv, NEW w \in Workers, CondVarRun(w)
  PROVE  CondVarInv'
<1> USE DEF CondVarInv
<1>1. PICK f \in Fiber : f = Head(runq) /\ f \in ToSet(runq)
  BY PopFacts DEF CondVarRun, Run, CondVarTypeOK, FTypeOK
<1>2. /\ at[w] = "idle" /\ state[f] = "Queued"
      /\ at' = [at EXCEPT ![w] = "fiber"]
      /\ this' = [this EXCEPT ![w] = f]
      /\ state' = [state EXCEPT ![f] = "Running"]
      /\ UNCHANGED <<pc, stopped, owner, blocked, permits, spin, parked, epoch,
                     key, owns, woken, died, overtaken>>
  BY <1>1 DEF CondVarRun, Run, WorkerAt, Become, CoreInv, QueueInv, ownerVars, futexVars,
         localVars, fate
<1>3. CoreInv'
  BY RunCore DEF CondVarRun
<1>4. CondVarTypeOK'
  BY <1>2, <1>3 DEF CondVarTypeOK, CoreInv
<1>5. /\ state'[f] = "Running" /\ \A g \in Fiber : g /= f => state'[g] = state[g]
      /\ at'[w] = "fiber"
      /\ \A v \in Workers : v /= w => at'[v] = at[v] /\ this'[v] = this[v]
  BY <1>2 DEF CondVarTypeOK, FTypeOK
<1>6. CondVarLabelInv'
  BY <1>2, <1>5 DEF CondVarLabelInv
<1>7. ParkInv'
  <2>1. \A g \in Fiber : Sleeps(g)' <=> Sleeps(g)
    BY <1>2, <1>5 DEF Sleeps
  <2>2. QED BY <1>2, <2>1, ParkFrame
<1>8. SpinInv'
  <2>1. \A v \in Workers : Parking(v) \/ Parking(v)' =>
          at'[v] = at[v] /\ this'[v] = this[v] /\ pc'[this[v]] = pc[this[v]]
    BY <1>2, <1>5 DEF Parking
  <2>2. QED BY <1>2, <2>1, SpinFrame
<1>9. Wakeups'
  <2>1. Awake(f)' <=> Awake(f)
    BY <1>2, <1>5, AwakeFrame
  <2>2. (Awake(f) => Awake(f)') /\ (f \in Asleep' => f \in Asleep)
    BY <1>2, <2>1 DEF Asleep
  <2>3. f \in Notifiers => f \in Notifiers'
    BY <1>2 DEF Notifiers
  <2>4. QED BY <1>2, <1>5, <2>2, <2>3, MoverWakeup
<1>10. QED BY <1>2, <1>3, <1>4, <1>6, <1>7, <1>8, <1>9

LEMMA CondVarFinishStep ==
  ASSUME CondVarInv, NEW w \in Workers, NEW f \in Fiber, CondVarFinish(w, f)
  PROVE  CondVarInv'
<1> USE DEF CondVarInv
<1>1. /\ at[w] = "fiber" /\ this[w] = f /\ pc[f] = "done"
      /\ state' = [state EXCEPT ![f] = "None"]
      /\ pc' = [pc EXCEPT ![f] = "finished"]
      /\ at' = [at EXCEPT ![w] = "idle"]
      /\ this' = [this EXCEPT ![w] = None]
      /\ UNCHANGED <<stopped, owner, blocked, permits, spin, parked, epoch,
                     key, owns, woken, died, overtaken>>
  BY DEF CondVarFinish, InFiber, Complete, Become, Goto, WorkerAt, Destroyed, ownerVars,
         futexVars, localVars, fate
<1>2. CoreInv'
  BY <1>1, CompleteCore DEF CondVarFinish
<1>3. CondVarTypeOK'
  BY <1>1, <1>2 DEF CondVarTypeOK, CoreInv
<1>4. /\ pc'[f] = "finished" /\ state'[f] = "None"
      /\ \A g \in Fiber : g /= f => pc'[g] = pc[g] /\ state'[g] = state[g]
      /\ at'[w] = "idle"
      /\ \A v \in Workers : v /= w => at'[v] = at[v] /\ this'[v] = this[v]
  BY <1>1 DEF CondVarTypeOK, FTypeOK
<1>5. f \notin blocked
  BY <1>1, RunningFiber
<1>6. CondVarLabelInv'
  BY <1>1, <1>4, <1>5 DEF CondVarLabelInv, CondVarTypeOK
<1>7. ParkInv'
  <2>1. \A g \in Fiber : Sleeps(g)' <=> Sleeps(g)
    BY <1>1, <1>4 DEF Sleeps
  <2>2. \A g \in Fiber : pc[g] = "resume" /\ woken[g] /= <<>> => pc'[g] = "resume"
    BY <1>1, <1>4
  <2>3. QED BY <1>1, <2>1, <2>2, ParkFrame
<1>8. SpinInv'
  <2>1. pc'[f] \in FutexLabels <=> pc[f] \in FutexLabels
    BY <1>1, <1>4 DEF FutexLabels
  <2>2. QED BY <1>1, <1>4, <2>1, MoveSpin
<1>9. Wakeups'
  <2>1. (Awake(f) => Awake(f)') /\ (f \in Asleep' => f \in Asleep)
    BY <1>1, <1>4 DEF Awake, Asleep
  <2>2. f \in Notifiers => f \in Notifiers'
    BY <1>1 DEF Notifiers
  <2>3. QED BY <1>1, <1>4, <2>1, <2>2, MoverWakeup
<1>10. QED BY <1>1, <1>2, <1>3, <1>6, <1>7, <1>8, <1>9

(* Lock: the fiber goes on as the owner, or is blocked. *)
LEMMA LockAtStep ==
  ASSUME CondVarInv, NEW w \in Workers, NEW f \in Fiber,
         NEW from \in {"body", "relock", "leave"}, NEW l \in {"check", "permit"},
         from \in {"body", "relock"} <=> l = "check",
         InFiber(w, f, from), LockAt(w, f, l)
  PROVE  CondVarInv'
<1> USE DEF CondVarInv
<1>1. /\ at[w] = "fiber" /\ this[w] = f /\ pc[f] = from
      /\ UNCHANGED <<permits, spin, parked, epoch, key, owns, woken, died, overtaken>>
  BY DEF InFiber, LockAt, futexVars, localVars, fate
<1>2. pc' = [pc EXCEPT ![f] = l]
  BY DEF LockAt, Continue, Goto
<1>3. pc'[f] = l /\ \A g \in Fiber : g /= f => pc'[g] = pc[g]
  BY <1>2 DEF CondVarTypeOK
<1>4. /\ (Awake(f) => Awake(f)') /\ (f \in Asleep' => f \in Asleep)
      /\ f \in Notifiers => f \in Notifiers'
  BY <1>1, <1>3 DEF Awake, Asleep, Notifiers
<1>5. CASE owner = None
  <2>1. owner' = f /\ UNCHANGED blocked /\ Continue(w, f, l)
    BY <1>5 DEF LockAt
  <2>2. UNCHANGED state
    BY <2>1 DEF Continue
  <2>3. Wakeups'
    BY <1>1, <1>3, <1>4, <2>2, MoverWakeup
  <2>4. key' \in [Fiber -> Nat] /\ \A g \in Fiber : key'[g] <= epoch
    BY <1>1 DEF CondVarTypeOK, CondVarLabelInv
  <2>5. permits' \in Nat /\ owner' \in Fiber \cup {None}
    BY <1>1, <2>1 DEF CondVarTypeOK
  <2>6. UNCHANGED <<blocked, spin, parked, epoch, owns, woken, died, overtaken>>
    BY <1>1, <2>1
  <2>7. pc[f] \notin FutexLabels /\ pc[f] \notin {"parked", "resume"}
    BY <1>1 DEF FutexLabels
  <2>8. QED BY <1>1, <2>1, <2>3, <2>4, <2>5, <2>6, <2>7, OutsideMove
<1>6. CASE owner /= None
  <2>1. /\ blocked' = blocked \cup {f}
        /\ Become(f, "Suspended") /\ Goto(f, l) /\ WorkerAt(w, "idle", None)
        /\ UNCHANGED <<runq, stopped, stacks, owner>>
    BY <1>6 DEF LockAt
  <2>2. /\ state' = [state EXCEPT ![f] = "Suspended"]
        /\ at' = [at EXCEPT ![w] = "idle"]
        /\ this' = [this EXCEPT ![w] = None]
    BY <2>1 DEF Become, WorkerAt
  <2>3. CoreInv'
    <3>1. l /= "new" /\ UNCHANGED <<runq, stopped, stacks>>
      BY <1>1, <2>1
    <3>2. QED BY <1>1, <2>1, <3>1, LeaveCore
  <2>4. CondVarTypeOK'
    BY <1>1, <1>2, <2>1, <2>3 DEF CondVarTypeOK, CoreInv
  <2>5. /\ state'[f] = "Suspended"
        /\ \A g \in Fiber : g /= f => state'[g] = state[g]
        /\ at'[w] = "idle"
        /\ \A v \in Workers : v /= w => at'[v] = at[v] /\ this'[v] = this[v]
    BY <2>2 DEF CondVarTypeOK, FTypeOK
  <2>6. CondVarLabelInv'
    <3>1. \A g \in Fiber : pc'[g] = "parked" => state'[g] /= "None"
      BY <1>3, <2>5 DEF CondVarLabelInv
    <3>2. \A g \in blocked' : state'[g] = "Suspended" /\ pc'[g] \in {"check", "permit"}
      <4>1. \A g \in blocked : g \in Fiber
        BY DEF CondVarTypeOK
      <4>2. QED BY <1>3, <2>1, <2>5, <4>1 DEF CondVarLabelInv
    <3>3. \A g \in Fiber : key'[g] <= epoch'
      BY <1>1 DEF CondVarLabelInv
    <3>4. QED BY <3>1, <3>2, <3>3 DEF CondVarLabelInv
  <2>7. ParkInv'
    <3>1. \A g \in Fiber : Sleeps(g)' <=> Sleeps(g)
      BY <1>1, <1>3, <2>5 DEF Sleeps
    <3>2. \A g \in Fiber : pc[g] = "resume" /\ woken[g] /= <<>> => pc'[g] = "resume"
      BY <1>1, <1>3
    <3>3. QED BY <1>1, <3>1, <3>2, ParkFrame
  <2>8. SpinInv'
    <3>1. pc'[f] \in FutexLabels <=> pc[f] \in FutexLabels
      BY <1>1, <1>3 DEF FutexLabels
    <3>2. QED BY <1>1, <1>3, <2>5, <3>1, MoveSpin
  <2>9. Wakeups'
    BY <1>1, <1>3, <1>4, <2>5, MoverWakeup
  <2>10. QED BY <1>1, <2>1, <2>3, <2>4, <2>6, <2>7, <2>8, <2>9
<1>7. QED BY <1>5, <1>6

LEMMA TakeLockStep ==
  ASSUME CondVarInv, NEW w \in Workers, NEW f \in Fiber, Lock(w, f)
  PROVE  CondVarInv'
BY LockAtStep DEF Lock

(* Unlock: the mutex is open, or a blocked fiber is its owner and queued. *)
LEMMA UnlockAtStep ==
  ASSUME CondVarInv, NEW w \in Workers, NEW f \in Fiber,
         NEW from \in {"wait_unlock", "unlock", "release_unlock"},
         NEW l \in {"access", "park", "done"}, from = "wait_unlock" <=> l = "park",
         InFiber(w, f, from), UnlockAt(w, f, l)
  PROVE  CondVarInv'
<1> USE DEF CondVarInv
<1>1. /\ at[w] = "fiber" /\ this[w] = f /\ pc[f] = from
      /\ UNCHANGED <<permits, spin, parked, epoch, key, owns, woken, died, overtaken>>
  BY DEF InFiber, UnlockAt, futexVars, localVars, fate
<1>2. pc' = [pc EXCEPT ![f] = l]
  BY DEF UnlockAt, Continue, Goto
<1>3. pc'[f] = l /\ \A g \in Fiber : g /= f => pc'[g] = pc[g]
  BY <1>2 DEF CondVarTypeOK
<1>5. /\ (Awake(f) => Awake(f)') /\ (f \in Asleep' => f \in Asleep)
      /\ f \in Notifiers => f \in Notifiers'
  BY <1>1, <1>3 DEF Awake, Asleep, Notifiers
<1>6. CASE blocked = {}
  <2>1. owner' = None /\ UNCHANGED blocked /\ Continue(w, f, l)
    BY <1>6 DEF UnlockAt
  <2>2. UNCHANGED state
    BY <2>1 DEF Continue
  <2>3. Wakeups'
    BY <1>1, <1>3, <1>5, <2>2, MoverWakeup
  <2>4. key' \in [Fiber -> Nat] /\ \A g \in Fiber : key'[g] <= epoch
    BY <1>1 DEF CondVarTypeOK, CondVarLabelInv
  <2>5. permits' \in Nat /\ owner' \in Fiber \cup {None}
    BY <1>1, <2>1 DEF CondVarTypeOK
  <2>6. UNCHANGED <<blocked, spin, parked, epoch, owns, woken, died, overtaken>>
    BY <1>1, <2>1
  <2>7. pc[f] \notin FutexLabels /\ pc[f] \notin {"parked", "resume"}
    BY <1>1 DEF FutexLabels
  <2>8. QED BY <1>1, <2>1, <2>3, <2>4, <2>5, <2>6, <2>7, OutsideMove
<1>7. CASE blocked /= {}
  <2>1. PICK g \in blocked :
          /\ owner' = g /\ blocked' = blocked \ {g}
          /\ Schedule(g) /\ UNCHANGED <<stopped, at, this>>
    BY <1>7 DEF UnlockAt
  <2>2. /\ g \in Fiber /\ state[g] = "Suspended" /\ pc[g] \in {"check", "permit"}
        /\ g /= f
    BY <1>1, <2>1 DEF CondVarTypeOK, CondVarLabelInv
  <2>3. state' = [state EXCEPT ![g] = "Queued"]
    BY <2>1 DEF Schedule, ScheduleWith, Become
  <2>4. state'[g] = "Queued" /\ \A h \in Fiber : h /= g => state'[h] = state[h]
    BY <2>2, <2>3 DEF CondVarTypeOK, FTypeOK
  <2>5. CoreInv'
    <3>1. UNCHANGED stopped /\ PcType' /\ \A h \in Fiber : pc'[h] = "new" => pc[h] = "new"
      BY <1>1, <1>2, <1>3, <2>1 DEF CoreInv, PcType
    <3>2. /\ at' \in [Workers -> {"idle", "fiber", "awaiter", "transfer"}]
          /\ this' \in [Workers -> Fiber \cup {None}]
          /\ \A v \in Workers : this'[v] = None <=> at'[v] = "idle"
      BY <2>1 DEF CoreInv, FTypeOK
    <3>3. \A v \in Workers : at'[v] \in {"fiber", "awaiter"} =>
            at'[v] = at[v] /\ this'[v] = this[v] /\ this[v] /= g
      BY <2>1, <2>2 DEF CoreInv, WorkerInv, SpinInv, Parking
    <3>4. state[g] \notin {"None", "Queued"}
      BY <2>2
    <3>5. QED BY <2>1, <2>2, <3>1, <3>2, <3>3, <3>4, ScheduleMoveCore
  <2>6. CondVarTypeOK'
    BY <1>1, <1>2, <2>1, <2>2, <2>5 DEF CondVarTypeOK, CoreInv
  <2>7. f \notin blocked
    BY <1>1, RunningFiber
  <2>8. CondVarLabelInv'
    <3>4. \A h \in Fiber : pc'[h] = "parked" => state'[h] /= "None"
      BY <1>1, <1>3, <2>2, <2>4 DEF CondVarLabelInv
    <3>5. \A h \in blocked' : state'[h] = "Suspended" /\ pc'[h] \in {"check", "permit"}
      BY <1>3, <2>1, <2>4, <2>7 DEF CondVarLabelInv, CondVarTypeOK
    <3>6. \A h \in Fiber : key'[h] <= epoch'
      BY <1>1 DEF CondVarLabelInv
    <3>7. QED BY <3>4, <3>5, <3>6 DEF CondVarLabelInv
  <2>9. ParkInv'
    <3>1. \A h \in Fiber : Sleeps(h)' <=> Sleeps(h)
      BY <1>1, <1>3, <2>2, <2>4 DEF Sleeps
    <3>2. \A h \in Fiber : pc[h] = "resume" /\ woken[h] /= <<>> => pc'[h] = "resume"
      BY <1>1, <1>3
    <3>3. QED BY <1>1, <3>1, <3>2, ParkFrame
  <2>10. SpinInv'
    <3>1. pc'[f] \in FutexLabels <=> pc[f] \in FutexLabels
      BY <1>1, <1>3 DEF FutexLabels
    <3>2. QED BY <1>1, <1>3, <2>1, <3>1, MoveSpin
  <2>11. Wakeups'
    <3>1. \A h \in Fiber : h /= f =>
            /\ pc'[h] = pc[h] /\ key'[h] = key[h]
            /\ state'[h] = state[h] \/ pc[h] /= "parked"
      BY <1>1, <1>3, <2>2, <2>4
    <3>2. QED BY <1>1, <1>5, <3>1, MoverWakeup
  <2>12. QED BY <1>1, <2>1, <2>5, <2>6, <2>8, <2>9, <2>10, <2>11
<1>8. QED BY <1>6, <1>7

----------------------------------------------------------------------------
(* Acquire and Wait *)

(* A permit is taken away, with the claim of the one who takes it. *)
LEMMA AcquirePermitStep ==
  ASSUME CondVarInv, NEW w \in Workers, NEW f \in Fiber, AcquirePermit(w, f)
  PROVE  CondVarInv'
<1> USE DEF CondVarInv
<1>1. /\ at[w] = "fiber" /\ this[w] = f /\ pc[f] = "check"
      /\ permits > 0 /\ permits' = permits - 1
      /\ Continue(w, f, "unlock")
      /\ UNCHANGED <<owner, blocked, spin, parked, epoch, key, owns, woken, died, overtaken>>
  BY DEF AcquirePermit, InFiber, ownerVars, futexVars, localVars, fate
<1>2. /\ pc'[f] = "unlock" /\ \A g \in Fiber : g /= f => pc'[g] = pc[g]
      /\ UNCHANGED state
  BY <1>1 DEF Continue, Goto, CondVarTypeOK
<1>3. pc[f] \notin FutexLabels
  BY <1>1 DEF FutexLabels
<1>4. \A g \in Fiber : g /= f => (Awake(g)' <=> Awake(g))
  BY <1>1, <1>2, AwakeFrame
<1>5. Awake(f) /\ ~Awake(f)'
  BY <1>1, <1>2 DEF Awake
<1>6. Seekers' = Seekers \ {f} /\ f \in Seekers
  BY <1>4, <1>5 DEF Seekers
<1>7. Notifiers' = Notifiers
  BY <1>1, <1>2 DEF Notifiers
<1>8. Asleep' = Asleep
  BY <1>1, <1>2, <1>4, <1>5 DEF Asleep
<1>9. Wakeups'
  <2>1. Cardinality(Seekers') = Cardinality(Seekers) - 1
    BY <1>6, FiberRoles, FiberSets, FS_RemoveElement
  <2>2. Asleep /= {} => permits <= Cardinality(Seekers) + Cardinality(Notifiers)
    BY DEF Wakeups
  <2>3. /\ Cardinality(Seekers) \in Nat /\ Cardinality(Notifiers) \in Nat
        /\ permits \in Nat
    BY FiberRoles, FiberSets DEF CondVarTypeOK
  <2>4. Asleep' /= {} => permits' <= Cardinality(Seekers') + Cardinality(Notifiers')
    BY <1>1, <1>7, <1>8, <2>1, <2>2, <2>3
  <2>5. QED BY <2>4 DEF Wakeups
<1>10. permits' \in Nat /\ owner' \in Fiber \cup {None}
  BY <1>1 DEF CondVarTypeOK
<1>11. key' \in [Fiber -> Nat] /\ \A g \in Fiber : key'[g] <= epoch
  BY <1>1 DEF CondVarTypeOK, CondVarLabelInv
<1>12. QED BY <1>1, <1>3, <1>9, <1>10, <1>11, OutsideMove

(* Nobody falls asleep while there is a permit. *)
LEMMA WaitPrepareStep ==
  ASSUME CondVarInv, NEW w \in Workers, NEW f \in Fiber, WaitPrepare(w, f)
  PROVE  CondVarInv'
<1> USE DEF CondVarInv
<1>1. /\ at[w] = "fiber" /\ this[w] = f /\ pc[f] = "check"
      /\ permits = 0
      /\ key' = [key EXCEPT ![f] = epoch]
      /\ Continue(w, f, "wait_unlock")
      /\ UNCHANGED <<owner, blocked, permits, spin, parked, epoch, owns, woken,
                     died, overtaken>>
  BY DEF WaitPrepare, InFiber, ownerVars, futexVars, fate
<1>2. pc[f] \notin FutexLabels
  BY <1>1 DEF FutexLabels
<1>3. Wakeups'
  <2>1. Cardinality(Seekers') \in Nat /\ Cardinality(Notifiers') \in Nat
    BY FiberRoles, FiberSets
  <2>2. permits' <= Cardinality(Seekers') + Cardinality(Notifiers')
    BY <1>1, <2>1
  <2>3. QED BY <2>2 DEF Wakeups
<1>4. permits' \in Nat /\ owner' \in Fiber \cup {None}
  BY <1>1 DEF CondVarTypeOK
<1>5. key' \in [Fiber -> Nat] /\ \A g \in Fiber : key'[g] <= epoch
  BY <1>1 DEF CondVarTypeOK, CondVarLabelInv
<1>6. QED BY <1>1, <1>2, <1>3, <1>4, <1>5, OutsideMove

(* The futex is free, and a running fiber locks it. *)
LEMMA SpinLockStep ==
  ASSUME CondVarInv, NEW w \in Workers, NEW f \in Fiber, NEW from, NEW l,
         \/ from = "park" /\ l = "park_check"
         \/ from = "notify" /\ l = "wake",
         SpinLock(w, f, from, l)
  PROVE  CondVarInv'
<1> USE DEF CondVarInv
<1>1. /\ at[w] = "fiber" /\ this[w] = f /\ pc[f] = from
      /\ ~spin /\ spin' = TRUE
      /\ Continue(w, f, l)
      /\ UNCHANGED <<owner, blocked, permits, parked, epoch, key, owns, woken,
                     died, overtaken>>
  BY DEF SpinLock, InFiber, ownerVars, localVars, fate
<1>2. /\ pc' = [pc EXCEPT ![f] = l]
      /\ UNCHANGED <<state, runq, stopped, at, this, stacks>>
  BY <1>1 DEF Continue, Goto
<1>3. pc'[f] = l /\ \A g \in Fiber : g /= f => pc'[g] = pc[g]
  BY <1>2 DEF CondVarTypeOK
<1>4. CoreInv'
  BY <1>1, ContinueCore
<1>5. CondVarTypeOK'
  BY <1>1, <1>2, <1>4 DEF CondVarTypeOK, CoreInv
<1>6. \A g \in Fiber : ~InFutex(g)
  BY <1>1 DEF SpinInv, OneInFutex
<1>7. CondVarLabelInv'
  <2>1. f \notin blocked
    BY <1>1, RunningFiber
  <2>2. QED BY <1>1, <1>2, <1>3, <2>1 DEF CondVarLabelInv, CondVarTypeOK
<1>8. ParkInv'
  BY <1>1, <1>2, <1>3, MovePark
<1>9. \A v \in Workers : Parking(v)' <=> Parking(v)
  BY <1>1, <1>2, <1>3, RunningFiber DEF Parking, CoreInv, FTypeOK
<1>10. \A v \in Workers : Parking(v) => this[v] \in Fiber /\ this[v] /= f
  BY <1>1, RunningFiber DEF Parking, SpinInv, CoreInv, FTypeOK
<1>11. SpinInv'
  <2>1. \A g \in Fiber : InFutex(g)' <=> g = f
    <3>1. \A v \in Workers, g \in Fiber : ~InAwaiter(v, g, "parked")'
      BY <1>2, <1>3, <1>6 DEF InAwaiter, InFutex
    <3>2. QED BY <1>3, <1>6, <3>1 DEF InFutex
  <2>2. OneInFutex'
    BY <1>1, <2>1 DEF OneInFutex
  <2>3. \A v \in Workers : Parking(v)' =>
          /\ pc'[this'[v]] = "parked" /\ owns'[this'[v]]
          /\ at'[v] = "awaiter" => this'[v] \in ToSet(parked')
    BY <1>1, <1>2, <1>3, <1>9, <1>10 DEF SpinInv
  <2>4. QED BY <1>2, <1>9, <2>2, <2>3 DEF SpinInv
<1>12. Wakeups'
  <2>1. /\ (Awake(f) => Awake(f)') /\ (f \in Asleep' => f \in Asleep)
        /\ f \in Notifiers => f \in Notifiers'
    BY <1>1, <1>3 DEF Awake, Asleep, Notifiers
  <2>2. QED BY <1>1, <1>2, <1>3, <2>1, MoverWakeup
<1>13. QED BY <1>1, <1>2, <1>4, <1>5, <1>7, <1>8, <1>11, <1>12

(* The fiber that is in the futex is the only one. *)
LEMMA FutexHolder ==
  ASSUME CondVarInv, NEW f \in Fiber, InFutex(f)
  PROVE  /\ spin
         /\ \A g \in Fiber : g /= f =>
              /\ pc[g] \notin FutexLabels
              /\ \A v \in Workers : ~InAwaiter(v, g, "parked")
BY DEF CondVarInv, SpinInv, OneInFutex, InFutex, FutexLabels

(* A running fiber that is in the futex: no awaiter of the futex has it. *)
LEMMA RunningHolder ==
  ASSUME CondVarInv, NEW w \in Workers, NEW f \in Fiber, at[w] = "fiber", this[w] = f,
         pc[f] \in FutexLabels
  PROVE  /\ \A v \in Workers, g \in Fiber : ~InAwaiter(v, g, "parked")
         /\ \A v \in Workers : Parking(v) =>
              at[v] = "transfer" /\ this[v] \in Fiber /\ this[v] /= f
         /\ \A g \in Fiber : g /= f => pc[g] \notin FutexLabels
         /\ spin
<1>1. InFutex(f)
  BY DEF InFutex, FutexLabels
<1>2. \A v \in Workers, g \in Fiber : ~InAwaiter(v, g, "parked")
  BY <1>1, FutexHolder DEF InAwaiter, FutexLabels
<1>3. \A v \in Workers : Parking(v) => this[v] \in Fiber /\ pc[this[v]] = "parked"
  BY DEF CondVarInv, SpinInv, CoreInv, FTypeOK, Parking
<1>4. QED BY <1>1, <1>2, <1>3, FutexHolder DEF Parking, InAwaiter, FutexLabels

(* That fiber leaves the futex. *)
LEMMA LeaveFutex ==
  ASSUME CondVarInv, NEW w \in Workers, NEW f \in Fiber, at[w] = "fiber", this[w] = f,
         pc[f] \in FutexLabels, pc'[f] \notin FutexLabels,
         \A g \in Fiber : g /= f => pc'[g] = pc[g],
         UNCHANGED <<at, this, owns>>, ~spin'
  PROVE  SpinInv'
<1>1. /\ \A v \in Workers, g \in Fiber : ~InAwaiter(v, g, "parked")
      /\ \A v \in Workers : Parking(v) =>
           at[v] = "transfer" /\ this[v] \in Fiber /\ this[v] /= f
      /\ \A g \in Fiber : g /= f => pc[g] \notin FutexLabels
  BY RunningHolder
<1>2. \A v \in Workers : at[v] = "awaiter" => this[v] \in Fiber /\ this[v] /= f
  BY RunningFiber DEF CondVarInv, CoreInv, FTypeOK
<1>3. \A v \in Workers : Parking(v)' <=> Parking(v)
  BY <1>2 DEF Parking
<1>4. \A v \in Workers, g \in Fiber : ~InAwaiter(v, g, "parked")'
  BY <1>1, <1>2 DEF InAwaiter
<1>5. \A g \in Fiber : ~InFutex(g)'
  BY <1>1, <1>4 DEF InFutex, FutexLabels
<1>6. OneInFutex'
  BY <1>5 DEF OneInFutex
<1>7. \A v \in Workers : Parking(v)' =>
        /\ pc'[this'[v]] = "parked" /\ owns'[this'[v]]
        /\ at'[v] = "awaiter" => this'[v] \in ToSet(parked')
  BY <1>1, <1>3 DEF CondVarInv, SpinInv
<1>8. QED BY <1>3, <1>6, <1>7 DEF CondVarInv, SpinInv

(* The epoch has changed: the fiber unlocks the futex and does not park. *)
LEMMA ParkUnequalStep ==
  ASSUME CondVarInv, NEW w \in Workers, NEW f \in Fiber, ParkUnequal(w, f)
  PROVE  CondVarInv'
<1> USE DEF CondVarInv
<1>1. /\ at[w] = "fiber" /\ this[w] = f /\ pc[f] = "park_check"
      /\ epoch /= key[f] /\ spin' = FALSE
      /\ Continue(w, f, "relock")
      /\ UNCHANGED <<owner, blocked, permits, parked, epoch, key, owns, woken,
                     died, overtaken>>
  BY DEF ParkUnequal, InFiber, ownerVars, localVars, fate
<1>2. /\ pc' = [pc EXCEPT ![f] = "relock"]
      /\ UNCHANGED <<state, runq, stopped, at, this, stacks>>
  BY <1>1 DEF Continue, Goto
<1>3. pc'[f] = "relock" /\ \A g \in Fiber : g /= f => pc'[g] = pc[g]
  BY <1>2 DEF CondVarTypeOK
<1>4. CoreInv'
  BY <1>1, ContinueCore
<1>5. CondVarTypeOK'
  BY <1>1, <1>2, <1>4 DEF CondVarTypeOK, CoreInv
<1>6. CondVarLabelInv'
  <2>1. f \notin blocked
    BY <1>1, RunningFiber
  <2>2. QED BY <1>1, <1>2, <1>3, <2>1 DEF CondVarLabelInv, CondVarTypeOK
<1>7. ParkInv'
  BY <1>1, <1>2, <1>3, MovePark
<1>8. SpinInv'
  <2>1. pc[f] \in FutexLabels /\ pc'[f] \notin FutexLabels
    BY <1>1, <1>3 DEF FutexLabels
  <2>2. QED BY <1>1, <1>2, <1>3, <2>1, LeaveFutex
<1>9. Wakeups'
  <2>1. /\ (Awake(f) => Awake(f)') /\ (f \in Asleep' => f \in Asleep)
        /\ f \in Notifiers => f \in Notifiers'
    BY <1>1, <1>3 DEF Awake, Asleep, Notifiers
  <2>2. QED BY <1>1, <1>2, <1>3, <2>1, MoverWakeup
<1>10. QED BY <1>1, <1>2, <1>4, <1>5, <1>6, <1>7, <1>8, <1>9

(* The epoch is the same: the fiber goes on to link its awaiter. *)
LEMMA ParkEqualStep ==
  ASSUME CondVarInv, NEW w \in Workers, NEW f \in Fiber, ParkEqual(w, f)
  PROVE  CondVarInv'
<1> USE DEF CondVarInv
<1>1. /\ at[w] = "fiber" /\ this[w] = f /\ pc[f] = "park_check"
      /\ epoch = key[f]
      /\ Continue(w, f, "park_link")
      /\ UNCHANGED <<owner, blocked, permits, spin, parked, epoch, key, owns, woken,
                     died, overtaken>>
  BY DEF ParkEqual, InFiber, ownerVars, futexVars, localVars, fate
<1>2. /\ pc' = [pc EXCEPT ![f] = "park_link"]
      /\ UNCHANGED <<state, runq, stopped, at, this, stacks>>
  BY <1>1 DEF Continue, Goto
<1>3. pc'[f] = "park_link" /\ \A g \in Fiber : g /= f => pc'[g] = pc[g]
  BY <1>2 DEF CondVarTypeOK
<1>4. CoreInv'
  BY <1>1, ContinueCore
<1>5. CondVarTypeOK'
  BY <1>1, <1>2, <1>4 DEF CondVarTypeOK, CoreInv
<1>6. CondVarLabelInv'
  <2>1. f \notin blocked
    BY <1>1, RunningFiber
  <2>2. QED BY <1>1, <1>2, <1>3, <2>1 DEF CondVarLabelInv, CondVarTypeOK
<1>7. ParkInv'
  BY <1>1, <1>2, <1>3, MovePark
<1>8. SpinInv'
  <2>1. pc'[f] \in FutexLabels <=> pc[f] \in FutexLabels
    BY <1>1, <1>3 DEF FutexLabels
  <2>2. QED BY <1>1, <1>2, <1>3, <2>1, MoveSpin
<1>9. Wakeups'
  <2>1. ~Awake(f)
    BY <1>1 DEF Awake
  <2>2. /\ (Awake(f) => Awake(f)') /\ (f \in Asleep' => f \in Asleep)
        /\ f \in Notifiers => f \in Notifiers'
    BY <1>1, <2>1 DEF Asleep, Notifiers
  <2>3. QED BY <1>1, <1>2, <1>3, <2>2, MoverWakeup
<1>10. QED BY <1>1, <1>2, <1>4, <1>5, <1>6, <1>7, <1>8, <1>9

(* The fiber parks and passes the lock on to its awaiter. *)
LEMMA ParkLinkStep ==
  ASSUME CondVarInv, NEW w \in Workers, NEW f \in Fiber, ParkLink(w, f)
  PROVE  CondVarInv'
<1> USE DEF CondVarInv
<1>1. /\ at[w] = "fiber" /\ this[w] = f /\ pc[f] = "park_link"
      /\ parked' = Append(parked, f)
      /\ owns' = [owns EXCEPT ![f] = TRUE]
      /\ Suspend(w, f, "parked")
      /\ UNCHANGED <<owner, blocked, permits, spin, epoch, key, woken, died, overtaken>>
  BY DEF ParkLink, InFiber, ownerVars, fate
<1>2. /\ pc' = [pc EXCEPT ![f] = "parked"]
      /\ state' = [state EXCEPT ![f] = "Suspended"]
      /\ at' = [at EXCEPT ![w] = "awaiter"]
      /\ this' = [this EXCEPT ![w] = f]
      /\ UNCHANGED stopped
  BY <1>1 DEF Suspend, Goto, Become, WorkerAt
<1>3. /\ pc'[f] = "parked" /\ state'[f] = "Suspended"
      /\ \A g \in Fiber : g /= f => pc'[g] = pc[g] /\ state'[g] = state[g]
      /\ at'[w] = "awaiter" /\ this'[w] = f
      /\ \A v \in Workers : v /= w => at'[v] = at[v] /\ this'[v] = this[v]
      /\ owns'[f] /\ \A g \in Fiber : g /= f => owns'[g] = owns[g]
  BY <1>1, <1>2 DEF CondVarTypeOK, FTypeOK
<1>4. CoreInv'
  BY <1>1, SuspendCore
<1>5. /\ parked' \in Seq(Fiber) /\ ToSet(parked') = ToSet(parked) \cup {f}
      /\ IsInjective(parked) /\ f \notin ToSet(parked) => IsInjective(parked')
  BY <1>1, AppendFacts DEF CondVarTypeOK
<1>6. CondVarTypeOK'
  BY <1>1, <1>2, <1>4, <1>5 DEF CondVarTypeOK, CoreInv
<1>7. /\ f \notin blocked
      /\ f \notin ToSet(parked) /\ ~IsWoken(f)
      /\ state[f] = "Running"
  BY <1>1, RunningFiber
<1>8. /\ \A v \in Workers, g \in Fiber : ~InAwaiter(v, g, "parked")
      /\ \A v \in Workers : Parking(v) =>
           at[v] = "transfer" /\ this[v] \in Fiber /\ this[v] /= f
      /\ \A g \in Fiber : g /= f => pc[g] \notin FutexLabels
      /\ spin
  BY <1>1, RunningHolder DEF FutexLabels
<1>9. CondVarLabelInv'
  <2>1. \A g \in blocked : g /= f /\ g \in Fiber
    BY <1>7 DEF CondVarTypeOK
  <2>2. UNCHANGED <<blocked, key, epoch>>
    BY <1>1
  <2>3. QED BY <1>3, <2>1, <2>2 DEF CondVarLabelInv
<1>10. ParkInv'
  <2>1. \A g \in Fiber : IsWoken(g)' <=> IsWoken(g)
    BY <1>1 DEF IsWoken
  <2>2. \A g \in Fiber : Sleeps(g)' <=> (Sleeps(g) \/ g = f)
    BY <1>3, <1>7 DEF Sleeps
  <2>3. \A g \in Fiber : Sleeps(g)' <=> g \in ToSet(parked') \/ IsWoken(g)'
    BY <1>5, <2>1, <2>2 DEF ParkInv
  <2>4. \A g \in Fiber : /\ IsInjective(woken'[g])
                         /\ ToSet(woken'[g]) \cap ToSet(parked') = {}
                         /\ woken'[g] /= <<>> => pc'[g] = "resume"
    BY <1>1, <1>3, <1>5, <1>7 DEF ParkInv, IsWoken
  <2>5. QED BY <1>1, <1>5, <1>7, <2>3, <2>4 DEF ParkInv
<1>11. SpinInv'
  <2>1. \A v \in Workers : v /= w /\ at[v] = "awaiter" => this[v] \in Fiber /\ this[v] /= f
    BY <1>1, RunningFiber DEF CoreInv, FTypeOK
  <2>2. \A v \in Workers : v /= w => (Parking(v)' <=> Parking(v))
    BY <1>3, <2>1 DEF Parking
  <2>3. \A g \in Fiber : InFutex(g)' <=> g = f
    <3>1. \A v \in Workers, g \in Fiber : g /= f => ~InAwaiter(v, g, "parked")'
      BY <1>3, <1>8 DEF InAwaiter
    <3>2. InAwaiter(w, f, "parked")'
      BY <1>3 DEF InAwaiter
    <3>3. QED BY <1>3, <1>8, <3>1, <3>2 DEF InFutex, FutexLabels
  <2>4. OneInFutex'
    BY <1>1, <1>8, <2>3 DEF OneInFutex
  <2>5. ASSUME NEW v \in Workers, Parking(v)'
        PROVE  /\ pc'[this'[v]] = "parked" /\ owns'[this'[v]]
               /\ at'[v] = "awaiter" => this'[v] \in ToSet(parked')
    <3>1. CASE v = w
      BY <1>3, <1>5, <3>1
    <3>2. CASE v /= w
      <4>1. Parking(v) /\ at[v] = "transfer" /\ this[v] \in Fiber /\ this[v] /= f
        BY <1>8, <2>2, <2>5, <3>2
      <4>2. pc[this[v]] = "parked" /\ owns[this[v]]
        BY <4>1 DEF SpinInv
      <4>3. QED BY <1>3, <3>2, <4>1, <4>2
    <3>3. QED BY <3>1, <3>2
  <2>6. \A u, v \in Workers : Parking(u)' /\ Parking(v)' /\ this'[u] = this'[v] => u = v
    BY <1>3, <1>8, <2>2 DEF SpinInv
  <2>7. QED BY <2>4, <2>5, <2>6 DEF SpinInv
<1>12. Wakeups'
  <2>1. ~Awake(f)
    BY <1>1 DEF Awake
  <2>2. /\ (Awake(f) => Awake(f)') /\ (f \in Asleep' => f \in Asleep)
        /\ f \in Notifiers => f \in Notifiers'
    BY <1>1, <2>1 DEF Asleep, Notifiers
  <2>3. QED BY <1>1, <1>3, <2>2, MoverWakeup
<1>13. QED BY <1>1, <1>2, <1>4, <1>6, <1>9, <1>10, <1>11, <1>12

(* The first half of unlock() in AwaitSuspend; it does not throw. *)
LEMMA ParkUnlockStep ==
  ASSUME CondVarInv, NEW w \in Workers, NEW f \in Fiber, ParkUnlock(w, f)
  PROVE  CondVarInv'
<1> USE DEF CondVarInv
<1>1. /\ at[w] = "awaiter" /\ this[w] = f /\ pc[f] = "parked"
      /\ spin' = FALSE
      /\ at' = [at EXCEPT ![w] = "transfer"]
      /\ this' = [this EXCEPT ![w] = f]
      /\ UNCHANGED <<state, pc, runq, stopped, stacks, owner, blocked, permits, parked,
                     epoch, key, owns, woken, died, overtaken>>
  BY DEF ParkUnlock, InAwaiter, WorkerAt, ownerVars, localVars, fate
<1>2. /\ at'[w] = "transfer" /\ UNCHANGED this
      /\ \A v \in Workers : v /= w => at'[v] = at[v]
  BY <1>1 DEF CondVarTypeOK, FTypeOK
<1>3. CoreInv'
  <2>1. FTypeOK'
    <3>1. at' \in [Workers -> {"idle", "fiber", "awaiter", "transfer"}]
      BY <1>1 DEF CoreInv, FTypeOK
    <3>2. \A v \in Workers : this'[v] = None <=> at'[v] = "idle"
      BY <1>1, <1>2 DEF CoreInv, FTypeOK
    <3>3. QED BY <1>1, <1>2, <3>1, <3>2 DEF CoreInv, FTypeOK
  <2>2. WorkerInv'
    BY <1>1, <1>2 DEF CoreInv, WorkerInv, Executes
  <2>3. PcType' /\ StackInv' /\ QueueInv'
    BY <1>1 DEF CoreInv, PcType, StackInv, QueueInv
  <2>4. QED BY <2>1, <2>2, <2>3 DEF CoreInv
<1>4. CondVarTypeOK'
  BY <1>1, <1>3 DEF CondVarTypeOK, CoreInv
<1>5. CondVarLabelInv'
  BY <1>1 DEF CondVarLabelInv
<1>6. ParkInv'
  <2>1. \A g \in Fiber : Sleeps(g)' <=> Sleeps(g)
    BY <1>1 DEF Sleeps
  <2>2. QED BY <1>1, <2>1, ParkFrame
<1>7. SpinInv'
  <2>1. InFutex(f)
    BY <1>1 DEF InFutex, InAwaiter
  <2>2. \A v \in Workers, g \in Fiber : InAwaiter(v, g, "parked") => v = w
    <3>1. \A v \in Workers, g \in Fiber : InAwaiter(v, g, "parked") => g = f
      BY <2>1, FutexHolder
    <3>2. QED BY <1>1, <3>1 DEF CoreInv, WorkerInv, Executes, InAwaiter
  <2>3. \A g \in Fiber : pc[g] \notin FutexLabels
    BY <1>1, <2>1, FutexHolder DEF FutexLabels
  <2>4. \A v \in Workers, g \in Fiber : ~InAwaiter(v, g, "parked")'
    BY <1>1, <1>2, <2>2 DEF InAwaiter
  <2>5. OneInFutex'
    BY <1>1, <2>3, <2>4 DEF OneInFutex, InFutex, FutexLabels
  <2>6. \A v \in Workers : Parking(v)' <=> Parking(v)
    BY <1>1, <1>2 DEF Parking
  <2>7. \A v \in Workers : at'[v] = "awaiter" => at[v] = "awaiter"
    BY <1>2
  <2>8. QED BY <1>1, <1>2, <2>5, <2>6, <2>7 DEF SpinInv
<1>8. Wakeups'
  BY <1>1 DEF Wakeups, Asleep, Seekers, Notifiers, Awake
<1>9. QED BY <1>1, <1>3, <1>4, <1>5, <1>6, <1>7, <1>8

(* ... and the second *)
LEMMA ParkDisownStep ==
  ASSUME CondVarInv, NEW w \in Workers, ParkDisown(w)
  PROVE  CondVarInv'
<1> USE DEF CondVarInv
<1>1. /\ at[w] = "transfer"
      /\ owns' = [owns EXCEPT ![this[w]] = FALSE]
      /\ at' = [at EXCEPT ![w] = "idle"]
      /\ this' = [this EXCEPT ![w] = None]
      /\ UNCHANGED <<state, pc, runq, stopped, stacks, owner, blocked, permits, spin, parked,
                     epoch, key, woken, died, overtaken>>
  BY DEF ParkDisown, ReturnInvalid, WorkerAt, ownerVars, futexVars, fate
<1>2. /\ at'[w] = "idle"
      /\ \A v \in Workers : v /= w => at'[v] = at[v] /\ this'[v] = this[v]
  BY <1>1 DEF CondVarTypeOK, FTypeOK
<1>3. CoreInv'
  BY ReturnInvalidCore DEF ParkDisown
<1>4. this[w] \in Fiber
  BY <1>1 DEF CoreInv, FTypeOK
<1>5. CondVarTypeOK'
  BY <1>1, <1>3, <1>4 DEF CondVarTypeOK, CoreInv
<1>6. CondVarLabelInv'
  BY <1>1 DEF CondVarLabelInv
<1>7. ParkInv'
  <2>1. \A g \in Fiber : Sleeps(g)' <=> Sleeps(g)
    BY <1>1 DEF Sleeps
  <2>2. QED BY <1>1, <2>1, ParkFrame
<1>8. SpinInv'
  <2>1. \A v \in Workers : Parking(v)' <=> Parking(v) /\ v /= w
    BY <1>1, <1>2 DEF Parking
  <2>2. \A v \in Workers, g \in Fiber : InAwaiter(v, g, "parked")' <=> InAwaiter(v, g, "parked")
    BY <1>1, <1>2 DEF InAwaiter
  <2>3. OneInFutex'
    BY <1>1, <2>2 DEF SpinInv, OneInFutex, InFutex
  <2>4. ASSUME NEW v \in Workers, Parking(v)'
        PROVE  /\ pc'[this'[v]] = "parked" /\ owns'[this'[v]]
               /\ at'[v] = "awaiter" => this'[v] \in ToSet(parked')
    <3>1. Parking(v) /\ v /= w /\ this[v] \in Fiber
      BY <2>1, <2>4 DEF Parking, CoreInv, FTypeOK
    <3>2. this[v] /= this[w]
      BY <1>1, <3>1 DEF SpinInv, Parking
    <3>3. owns'[this[v]] = owns[this[v]]
      BY <1>1, <1>4, <3>1, <3>2 DEF CondVarTypeOK
    <3>4. QED BY <1>1, <1>2, <3>1, <3>3 DEF SpinInv
  <2>5. \A u, v \in Workers : Parking(u)' /\ Parking(v)' /\ this'[u] = this'[v] => u = v
    BY <1>2, <2>1 DEF SpinInv
  <2>6. QED BY <2>3, <2>4, <2>5 DEF SpinInv
<1>9. Wakeups'
  BY <1>1 DEF Wakeups, Asleep, Seekers, Notifiers, Awake
<1>10. QED BY <1>1, <1>3, <1>5, <1>6, <1>7, <1>8, <1>9

(* The unique_lock that is destroyed after Suspend owns nothing, or this   *)
(* is the fiber that overtakes its own unlock().                           *)
LEMMA ParkReturnStep ==
  ASSUME CondVarInv, NEW w \in Workers, NEW f \in Fiber, ParkReturn(w, f)
  PROVE  overtaken' \/ CondVarInv'
<1> USE DEF CondVarInv
<1>1. /\ at[w] = "fiber" /\ this[w] = f /\ pc[f] = "parked"
      /\ spin' = (spin /\ ~owns[f])
      /\ owns' = [owns EXCEPT ![f] = FALSE]
      /\ overtaken' = (overtaken \/ owns[f])
      /\ Continue(w, f, "relock")
      /\ UNCHANGED <<owner, blocked, permits, parked, epoch, key, woken, died>>
  BY DEF ParkReturn, InFiber, ownerVars
<1>2. CASE owns[f]
  BY <1>1, <1>2
<1>3. CASE ~owns[f]
  <2>1. UNCHANGED <<spin, owns, overtaken>> /\ state[f] = "Running"
    BY <1>1, <1>3, RunningFiber DEF CondVarTypeOK
  <2>2. /\ pc'[f] = "relock" /\ \A g \in Fiber : g /= f => pc'[g] = pc[g]
        /\ UNCHANGED state
    BY <1>1 DEF Continue, Goto, CondVarTypeOK
  <2>3. Wakeups'
    <3>1. /\ (Awake(f) => Awake(f)') /\ (f \in Asleep' => f \in Asleep)
          /\ f \in Notifiers => f \in Notifiers'
      BY <1>1, <2>2 DEF Awake, Asleep, Notifiers
    <3>2. QED BY <1>1, <2>2, <3>1, MoverWakeup
  <2>4. permits' \in Nat /\ owner' \in Fiber \cup {None}
    BY <1>1 DEF CondVarTypeOK
  <2>5. key' \in [Fiber -> Nat] /\ \A g \in Fiber : key'[g] <= epoch
    BY <1>1 DEF CondVarTypeOK, CondVarLabelInv
  <2>6. pc[f] \notin FutexLabels
    BY <1>1 DEF FutexLabels
  <2>7. QED BY <1>1, <1>3, <2>1, <2>3, <2>4, <2>5, <2>6, OutsideMove
<1>4. QED BY <1>2, <1>3

(* Yield: the fiber is suspended in another awaiter *)
LEMMA AccessYieldStep ==
  ASSUME CondVarInv, NEW w \in Workers, NEW f \in Fiber, AccessYield(w, f)
  PROVE  CondVarInv'
<1> USE DEF CondVarInv
<1>1. /\ at[w] = "fiber" /\ this[w] = f /\ pc[f] = "access"
      /\ Suspend(w, f, "leave")
      /\ UNCHANGED <<owner, blocked, permits, spin, parked, epoch, key, owns, woken,
                     died, overtaken>>
  BY DEF AccessYield, YieldSuspend, InFiber, ownerVars, futexVars, localVars, fate
<1>2. /\ pc' = [pc EXCEPT ![f] = "leave"]
      /\ state' = [state EXCEPT ![f] = "Suspended"]
      /\ at' = [at EXCEPT ![w] = "awaiter"]
      /\ this' = [this EXCEPT ![w] = f]
      /\ UNCHANGED stopped
  BY <1>1 DEF Suspend, Goto, Become, WorkerAt
<1>3. /\ pc'[f] = "leave" /\ state'[f] = "Suspended"
      /\ \A g \in Fiber : g /= f => pc'[g] = pc[g] /\ state'[g] = state[g]
      /\ at'[w] = "awaiter" /\ this'[w] = f
      /\ \A v \in Workers : v /= w => at'[v] = at[v] /\ this'[v] = this[v]
  BY <1>1, <1>2 DEF CondVarTypeOK, FTypeOK
<1>4. CoreInv'
  BY <1>1, SuspendCore
<1>5. CondVarTypeOK'
  BY <1>1, <1>2, <1>4 DEF CondVarTypeOK, CoreInv
<1>6. f \notin blocked /\ \A g \in blocked : g \in Fiber
  BY <1>1, RunningFiber DEF CondVarTypeOK
<1>7. CondVarLabelInv'
  BY <1>1, <1>3, <1>6 DEF CondVarLabelInv
<1>8. ParkInv'
  <2>1. \A g \in Fiber : Sleeps(g)' <=> Sleeps(g)
    BY <1>1, <1>3 DEF Sleeps
  <2>2. \A g \in Fiber : pc[g] = "resume" /\ woken[g] /= <<>> => pc'[g] = "resume"
    BY <1>1, <1>3
  <2>3. QED BY <1>1, <2>1, <2>2, ParkFrame
<1>9. SpinInv'
  <2>1. pc'[f] \in FutexLabels <=> pc[f] \in FutexLabels
    BY <1>1, <1>3 DEF FutexLabels
  <2>2. QED BY <1>1, <1>3, <2>1, MoveSpin
<1>10. Wakeups'
  <2>1. /\ (Awake(f) => Awake(f)') /\ (f \in Asleep' => f \in Asleep)
        /\ f \in Notifiers => f \in Notifiers'
    BY <1>1, <1>3 DEF Awake, Asleep, Notifiers
  <2>2. QED BY <1>1, <1>3, <2>1, MoverWakeup
<1>11. QED BY <1>1, <1>2, <1>4, <1>5, <1>7, <1>8, <1>9, <1>10

(* ... which schedules it *)
LEMMA AccessScheduledStep ==
  ASSUME CondVarInv, NEW w \in Workers, NEW f \in Fiber, AccessScheduled(w, f)
  PROVE  CondVarInv'
<1> USE DEF CondVarInv
<1>1. /\ at[w] = "awaiter" /\ this[w] = f /\ pc[f] = "leave"
      /\ YieldSchedule(w, f)
      /\ UNCHANGED <<pc, stopped, owner, blocked, permits, spin, parked, epoch, key, owns,
                     woken, died, overtaken>>
  BY DEF AccessScheduled, YieldSchedule, InAwaiter, ownerVars, futexVars, localVars, fate
<1>2. /\ state' = [state EXCEPT ![f] = "Queued"]
      /\ at' = [at EXCEPT ![w] = "idle"]
      /\ this' = [this EXCEPT ![w] = None]
  BY <1>1 DEF YieldSchedule, Schedule, ScheduleWith, Become, WorkerAt
<1>3. /\ state'[f] = "Queued"
      /\ \A g \in Fiber : g /= f => state'[g] = state[g]
      /\ at'[w] = "idle"
      /\ \A v \in Workers : v /= w => at'[v] = at[v] /\ this'[v] = this[v]
  BY <1>2 DEF CondVarTypeOK, FTypeOK
<1>4. CoreInv'
  BY <1>1, YieldScheduleCore
<1>5. CondVarTypeOK'
  BY <1>1, <1>4 DEF CondVarTypeOK, CoreInv
<1>6. f \notin blocked /\ \A g \in blocked : g \in Fiber
  BY <1>1 DEF CondVarTypeOK, CondVarLabelInv
<1>7. CondVarLabelInv'
  BY <1>1, <1>3, <1>6 DEF CondVarLabelInv
<1>8. ParkInv'
  <2>1. \A g \in Fiber : Sleeps(g)' <=> Sleeps(g)
    BY <1>1, <1>3 DEF Sleeps
  <2>2. QED BY <1>1, <2>1, ParkFrame
<1>9. SpinInv'
  <2>1. \A v \in Workers : Parking(v) \/ Parking(v)' =>
          at'[v] = at[v] /\ this'[v] = this[v] /\ pc'[this[v]] = pc[this[v]]
    BY <1>1, <1>3 DEF Parking
  <2>2. QED BY <1>1, <2>1, SpinFrame
<1>10. Wakeups'
  <2>1. /\ (Awake(f) => Awake(f)') /\ (f \in Asleep' => f \in Asleep)
        /\ f \in Notifiers => f \in Notifiers'
    BY <1>1 DEF Awake, Asleep, Notifiers
  <2>2. QED BY <1>1, <1>3, <2>1, MoverWakeup
<1>11. QED BY <1>1, <1>4, <1>5, <1>7, <1>8, <1>9, <1>10

----------------------------------------------------------------------------
(* Release and the notifications *)

(* A permit is added, with the claim of the one who will notify. *)
LEMMA ReleasePermitStep ==
  ASSUME CondVarInv, NEW w \in Workers, NEW f \in Fiber, ReleasePermit(w, f)
  PROVE  CondVarInv'
<1> USE DEF CondVarInv
<1>1. /\ at[w] = "fiber" /\ this[w] = f /\ pc[f] = "permit"
      /\ permits' = permits + 1
      /\ Continue(w, f, "notify")
      /\ UNCHANGED <<owner, blocked, spin, parked, epoch, key, owns, woken, died, overtaken>>
  BY DEF ReleasePermit, InFiber, ownerVars, futexVars, localVars, fate
<1>2. /\ pc'[f] = "notify" /\ \A g \in Fiber : g /= f => pc'[g] = pc[g]
      /\ UNCHANGED state
  BY <1>1 DEF Continue, Goto, CondVarTypeOK
<1>3. pc[f] \notin FutexLabels /\ ~Awake(f) /\ ~Awake(f)'
  BY <1>1, <1>2 DEF FutexLabels, Awake
<1>4. \A g \in Fiber : g /= f => (Awake(g)' <=> Awake(g))
  BY <1>1, <1>2, AwakeFrame
<1>5. Seekers' = Seekers
  BY <1>3, <1>4 DEF Seekers
<1>6. Notifiers' = Notifiers \cup {f} /\ f \notin Notifiers
  BY <1>1, <1>2 DEF Notifiers
<1>7. Asleep' = Asleep
  BY <1>1, <1>2, <1>3, <1>4 DEF Asleep
<1>8. Wakeups'
  <2>1. Cardinality(Notifiers') = Cardinality(Notifiers) + 1
    BY <1>6, FiberRoles, FiberSets, FS_AddElement
  <2>2. Asleep /= {} => permits <= Cardinality(Seekers) + Cardinality(Notifiers)
    BY DEF Wakeups
  <2>3. /\ Cardinality(Seekers) \in Nat /\ Cardinality(Notifiers) \in Nat
        /\ permits \in Nat
    BY FiberRoles, FiberSets DEF CondVarTypeOK
  <2>4. Asleep' /= {} => permits' <= Cardinality(Seekers') + Cardinality(Notifiers')
    BY <1>1, <1>5, <1>7, <2>1, <2>2, <2>3
  <2>5. QED BY <2>4 DEF Wakeups
<1>9. permits' \in Nat /\ owner' \in Fiber \cup {None}
  BY <1>1 DEF CondVarTypeOK
<1>10. key' \in [Fiber -> Nat] /\ \A g \in Fiber : key'[g] <= epoch
  BY <1>1 DEF CondVarTypeOK, CondVarLabelInv
<1>11. QED BY <1>1, <1>3, <1>8, <1>9, <1>10, OutsideMove

(* The lists are read by index in Awake and as sets here. *)
LEMMA WokenIndex ==
  ASSUME NEW v \in [Fiber -> Seq(Fiber)], NEW f
  PROVE  (\E g \in Fiber : \E i \in 1..Len(v[g]) : v[g][i] = f)
           <=> \E g \in Fiber : f \in ToSet(v[g])
<1>1. \A g \in Fiber : DOMAIN v[g] = 1..Len(v[g])
  BY LenProperties
<1>2. \A g \in Fiber : f \in ToSet(v[g]) <=> \E i \in 1..Len(v[g]) : v[g][i] = f
  BY <1>1 DEF ToSet
<1>3. QED BY <1>2

LEMMA AwakeSets ==
  ASSUME woken \in [Fiber -> Seq(Fiber)], NEW f \in Fiber
  PROVE  Awake(f) <=> \/ pc[f] \in {"new", "body", "check", "relock"}
                      \/ pc[f] \in {"wait_unlock", "park", "park_check"}
                           /\ key[f] /= epoch
                      \/ pc[f] = "parked"
                           /\ (state[f] \in {"Queued", "Running"} \/ IsWoken(f))
<1>1. (\E g \in Fiber : \E i \in 1..Len(woken[g]) : woken[g][i] = f) <=> IsWoken(f)
  BY WokenIndex DEF IsWoken
<1>2. QED BY <1>1 DEF Awake

LEMMA AwakeSetsNext ==
  ASSUME woken' \in [Fiber -> Seq(Fiber)], NEW f \in Fiber
  PROVE  Awake(f)' <=> \/ pc'[f] \in {"new", "body", "check", "relock"}
                       \/ pc'[f] \in {"wait_unlock", "park", "park_check"}
                            /\ key'[f] /= epoch'
                       \/ pc'[f] = "parked"
                            /\ (state'[f] \in {"Queued", "Running"} \/ IsWoken(f)')
<1>1. (\E g \in Fiber : \E i \in 1..Len(woken'[g]) : woken'[g][i] = f) <=> IsWoken(f)'
  BY WokenIndex DEF IsWoken
<1>2. QED BY <1>1 DEF Awake

(* A notification takes some waiters, at least one if there is any, and    *)
(* whoever has read the epoch before it will not park.                     *)
LEMMA WakeTakeStep ==
  ASSUME CondVarInv, NEW w \in Workers, NEW f \in Fiber,
         NEW list \in Seq(Fiber), NEW rest \in Seq(Fiber),
         IsInjective(list), IsInjective(rest),
         ToSet(parked) = ToSet(list) \cup ToSet(rest),
         ToSet(list) \cap ToSet(rest) = {},
         rest = <<>> \/ list /= <<>>,
         WakeTake(w, f, list, rest)
  PROVE  CondVarInv'
<1> USE DEF CondVarInv
<1>1. /\ at[w] = "fiber" /\ this[w] = f /\ pc[f] = "wake"
      /\ epoch' = epoch + 1
      /\ woken' = [woken EXCEPT ![f] = list]
      /\ parked' = rest /\ spin' = FALSE
      /\ Continue(w, f, "resume")
      /\ UNCHANGED <<owner, blocked, permits, key, owns, died, overtaken>>
  BY DEF WakeTake, InFiber, ownerVars, fate
<1>2. /\ pc' = [pc EXCEPT ![f] = "resume"]
      /\ UNCHANGED <<state, runq, stopped, at, this, stacks>>
  BY <1>1 DEF Continue, Goto
<1>3. pc'[f] = "resume" /\ \A g \in Fiber : g /= f => pc'[g] = pc[g]
  BY <1>2 DEF CondVarTypeOK
<1>4. CoreInv'
  BY <1>1, ContinueCore
<1>5. woken' \in [Fiber -> Seq(Fiber)] /\ epoch \in Nat /\ epoch' \in Nat
  BY <1>1 DEF CondVarTypeOK
<1>6. CondVarTypeOK'
  BY <1>1, <1>2, <1>4, <1>5 DEF CondVarTypeOK, CoreInv
<1>7. f \notin blocked
  BY <1>1, RunningFiber
<1>8. ~Awake(f) /\ f \notin Asleep
  BY <1>1 DEF Awake, Asleep
<1>9. \A g \in Fiber : key'[g] <= epoch' /\ key'[g] /= epoch'
  BY <1>1, <1>5 DEF CondVarTypeOK, CondVarLabelInv
<1>10. CondVarLabelInv'
  <2>1. \A g \in blocked : g /= f /\ g \in Fiber
    BY <1>7 DEF CondVarTypeOK
  <2>2. UNCHANGED <<state, blocked>>
    BY <1>1, <1>2
  <2>3. QED BY <1>3, <1>9, <2>1, <2>2 DEF CondVarLabelInv
<1>11. /\ woken[f] = <<>> /\ woken'[f] = list
       /\ \A g \in Fiber : g /= f => woken'[g] = woken[g]
  BY <1>1 DEF CondVarTypeOK, ParkInv
<1>12. \A g \in Fiber : IsWoken(g)' <=> IsWoken(g) \/ g \in ToSet(list)
  BY <1>11, EmptyFacts DEF IsWoken
<1>13. ParkInv'
  <2>1. \A g \in Fiber : Sleeps(g)' <=> Sleeps(g)
    BY <1>1, <1>2, <1>3 DEF Sleeps
  <2>2. \A g \in Fiber : Sleeps(g)' <=> g \in ToSet(parked') \/ IsWoken(g)'
    BY <1>1, <1>12, <2>1 DEF ParkInv
  <2>3. \A g \in Fiber : /\ IsInjective(woken'[g])
                         /\ ToSet(woken'[g]) \cap ToSet(parked') = {}
                         /\ woken'[g] /= <<>> => pc'[g] = "resume"
    BY <1>1, <1>3, <1>11 DEF ParkInv
  <2>4. \A g, h \in Fiber : g /= h => ToSet(woken'[g]) \cap ToSet(woken'[h]) = {}
    BY <1>11 DEF ParkInv
  <2>5. QED BY <1>1, <2>2, <2>3, <2>4 DEF ParkInv
<1>14. SpinInv'
  <2>1. pc[f] \in FutexLabels /\ pc'[f] \notin FutexLabels
    BY <1>1, <1>3 DEF FutexLabels
  <2>2. QED BY <1>1, <1>2, <1>3, <2>1, LeaveFutex
<1>15. Wakeups'
  <2>1. \A g \in Fiber : Awake(g) => Awake(g)'
    <3>1. SUFFICES ASSUME NEW g \in Fiber, Awake(g) PROVE Awake(g)'
      OBVIOUS
    <3>2. g /= f
      BY <1>8, <3>1
    <3>3. pc'[g] = pc[g] /\ state'[g] = state[g] /\ key'[g] /= epoch'
      BY <1>2, <1>3, <1>9, <3>2
    <3>4. woken \in [Fiber -> Seq(Fiber)]
      BY DEF CondVarTypeOK
    <3>5. QED BY <1>5, <1>12, <3>1, <3>3, <3>4, AwakeSets, AwakeSetsNext
  <2>2. Seekers \subseteq Seekers'
    BY <2>1 DEF Seekers
  <2>3. Notifiers' = Notifiers \ {f} /\ f \in Notifiers
    BY <1>1, <1>3 DEF Notifiers
  <2>4. /\ Cardinality(Seekers) \in Nat /\ Cardinality(Seekers') \in Nat
        /\ Cardinality(Notifiers) \in Nat /\ Cardinality(Notifiers') \in Nat
        /\ Cardinality(Notifiers') = Cardinality(Notifiers) - 1
        /\ permits \in Nat
    BY <2>3, FiberRoles, FiberSets, FS_RemoveElement DEF CondVarTypeOK
  <2>5. CASE rest = <<>>
    <3>1. \A g \in Asleep' : FALSE
      <4>1. SUFFICES ASSUME NEW g \in Asleep' PROVE FALSE
        OBVIOUS
      <4>2. /\ g \in Fiber /\ g /= f /\ ~Awake(g)'
            /\ pc'[g] \in {"wait_unlock", "park", "park_check", "park_link", "parked"}
            /\ pc[g] = pc'[g] /\ pc[g] /= "park_link"
        BY <1>1, <1>3, RunningHolder DEF Asleep, FutexLabels
      <4>3. pc[g] = "parked" /\ state[g] \notin {"Queued", "Running"} /\ ~IsWoken(g)'
        <5>1. key'[g] /= epoch' /\ state'[g] = state[g]
          BY <1>2, <1>9, <4>2
        <5>2. QED BY <1>5, <4>2, <5>1, AwakeSetsNext
      <4>4. Sleeps(g)
        BY <4>2, <4>3 DEF Sleeps, CondVarLabelInv, CondVarTypeOK, FTypeOK
      <4>5. g \in ToSet(list) \/ IsWoken(g)
        BY <2>5, <4>2, <4>4, EmptyFacts DEF ParkInv
      <4>6. QED BY <1>12, <4>2, <4>3, <4>5
    <3>2. QED BY <3>1 DEF Wakeups
  <2>6. CASE list /= <<>>
    <3>1. PICK h \in ToSet(list) : h \in Fiber
      BY <2>6, EmptyIffNone, ToSetMember
    <3>2. Sleeps(h) /\ ~IsWoken(h)
      BY <3>1 DEF ParkInv, IsWoken
    <3>4. ~Awake(h)
      BY <3>1, <3>2, AwakeSets DEF Sleeps, CondVarTypeOK
    <3>5. Awake(h)'
      <4>1. h /= f
        BY <1>1, <3>2 DEF Sleeps
      <4>2. pc'[h] = "parked" /\ IsWoken(h)'
        BY <1>3, <1>12, <3>1, <3>2, <4>1 DEF Sleeps
      <4>3. QED BY <1>5, <3>1, <4>2, AwakeSetsNext
    <3>6. h \in Asleep /\ h \in Seekers' /\ h \notin Seekers
      BY <3>1, <3>2, <3>4, <3>5 DEF Asleep, Seekers, Sleeps
    <3>7. Seekers \cup {h} \in SUBSET Fiber /\ Seekers \cup {h} \subseteq Seekers'
      BY <2>2, <3>1, <3>6, FiberRoles
    <3>8. Cardinality(Seekers \cup {h}) = Cardinality(Seekers) + 1
      BY <3>6, FiberRoles, FiberSets, FS_AddElement
    <3>9. Cardinality(Seekers \cup {h}) <= Cardinality(Seekers')
      BY <3>7, FiberRoles, FiberSets
    <3>10. permits <= Cardinality(Seekers) + Cardinality(Notifiers)
      BY <3>6 DEF Wakeups
    <3>11. permits' <= Cardinality(Seekers') + Cardinality(Notifiers')
      BY <1>1, <2>4, <3>8, <3>9, <3>10
    <3>12. QED BY <3>11 DEF Wakeups
  <2>7. QED BY <2>5, <2>6
<1>16. QED BY <1>1, <1>2, <1>4, <1>6, <1>10, <1>13, <1>14, <1>15

LEMMA WakeOneStep ==
  ASSUME CondVarInv, NEW w \in Workers, NEW f \in Fiber, WakeOne(w, f)
  PROVE  CondVarInv'
<1> DEFINE list == FirstOf(parked)
           rest == SubSeq(parked, 2, Len(parked))
<1>1. parked \in Seq(Fiber) /\ IsInjective(parked)
  BY DEF CondVarInv, CondVarTypeOK, ParkInv
<1>2. WakeTake(w, f, list, rest)
  BY DEF WakeOne
<1>3. CASE parked = <<>>
  <2>1. list = <<>> /\ rest = <<>>
    BY <1>3 DEF FirstOf
  <2>2. <<>> \in Seq(Fiber)
    OBVIOUS
  <2>3. WakeTake(w, f, <<>>, <<>>)
    BY <1>2, <2>1
  <2>4. QED BY <1>3, <2>2, <2>3, EmptyFacts, WakeTakeStep
<1>4. CASE parked /= <<>>
  <2>1. rest = Tail(parked)
    BY <1>1, <1>4
  <2>2. list = <<Head(parked)>>
    <3>1. Len(parked) \in Nat /\ Len(parked) >= 1 /\ list = SubSeq(parked, 1, 1)
      BY <1>1, <1>4 DEF FirstOf
    <3>2. list = [i \in 1..1 |-> parked[i]] /\ Head(parked) = parked[1]
      BY <1>1, <1>4, <3>1
    <3>3. QED BY <3>2
  <2> HIDE DEF list, rest
  <2>3. /\ Head(parked) \in Fiber /\ rest \in Seq(Fiber)
        /\ ToSet(parked) = {Head(parked)} \cup ToSet(rest)
        /\ IsInjective(rest) /\ Head(parked) \notin ToSet(rest)
    BY <1>1, <1>4, <2>1, PopFacts
  <2>4. /\ list \in Seq(Fiber) /\ ToSet(list) = {Head(parked)} /\ IsInjective(list)
        /\ list /= <<>>
    BY <2>2, <2>3 DEF ToSet, IsInjective
  <2>5. QED BY <1>2, <2>3, <2>4, WakeTakeStep
<1>5. QED BY <1>3, <1>4

LEMMA WakeAllStep ==
  ASSUME CondVarInv, NEW w \in Workers, NEW f \in Fiber, WakeAll(w, f)
  PROVE  CondVarInv'
<1>1. parked \in Seq(Fiber) /\ IsInjective(parked) /\ <<>> \in Seq(Fiber)
  BY DEF CondVarInv, CondVarTypeOK, ParkInv
<1>2. QED BY <1>1, EmptyFacts, WakeTakeStep DEF WakeAll

(* The fiber that is resumed is suspended, its awaiter has returned or has *)
(* only its flag left to clear, and nobody else will resume it.            *)
LEMMA WakeResumeStep ==
  ASSUME CondVarInv, NEW w \in Workers, NEW f \in Fiber, WakeResume(w, f)
  PROVE  CondVarInv'
<1> USE DEF CondVarInv
<1> DEFINE g == Head(woken[f])
<1>1. /\ at[w] = "fiber" /\ this[w] = f /\ pc[f] = "resume"
      /\ woken[f] /= <<>>
      /\ Schedule(g)
      /\ woken' = [woken EXCEPT ![f] = Tail(woken[f])]
      /\ UNCHANGED <<pc, stopped, at, this, owner, blocked, permits, spin, parked, epoch,
                     key, owns, died, overtaken>>
  BY DEF WakeResume, InFiber, ownerVars, futexVars, fate
<1>2. /\ g \in Fiber /\ Tail(woken[f]) \in Seq(Fiber)
      /\ ToSet(woken[f]) = {g} \cup ToSet(Tail(woken[f]))
      /\ IsInjective(Tail(woken[f])) /\ g \notin ToSet(Tail(woken[f]))
  BY <1>1, PopFacts DEF CondVarTypeOK, ParkInv
<1>3. /\ IsWoken(g) /\ g \notin ToSet(parked)
      /\ \A h \in Fiber : h /= f => g \notin ToSet(woken[h])
  BY <1>2 DEF IsWoken, ParkInv
<1>4. pc[g] = "parked" /\ state[g] = "Suspended"
  BY <1>2, <1>3 DEF ParkInv, Sleeps, CondVarLabelInv
<1> HIDE DEF g
<1>5. /\ state' = [state EXCEPT ![g] = "Queued"]
      /\ state'[g] = "Queued" /\ \A h \in Fiber : h /= g => state'[h] = state[h]
  BY <1>1, <1>2 DEF Schedule, ScheduleWith, Become, CondVarTypeOK, FTypeOK
<1>6. CoreInv'
  <2>1. /\ at' \in [Workers -> {"idle", "fiber", "awaiter", "transfer"}]
        /\ this' \in [Workers -> Fiber \cup {None}]
        /\ \A v \in Workers : this'[v] = None <=> at'[v] = "idle"
    BY <1>1 DEF CoreInv, FTypeOK
  <2>2. \A v \in Workers : at'[v] \in {"fiber", "awaiter"} =>
          at'[v] = at[v] /\ this'[v] = this[v] /\ this[v] /= g
    BY <1>1, <1>3, <1>4 DEF CoreInv, WorkerInv, SpinInv, Parking
  <2>3. UNCHANGED stopped /\ PcType' /\ \A h \in Fiber : pc'[h] = "new" => pc[h] = "new"
    BY <1>1 DEF CoreInv, PcType
  <2>4. state[g] \notin {"None", "Queued"}
    BY <1>4
  <2>5. QED BY <1>1, <1>2, <2>1, <2>2, <2>3, <2>4, ScheduleMoveCore
<1>7. woken' \in [Fiber -> Seq(Fiber)]
  BY <1>1, <1>2 DEF CondVarTypeOK
<1>8. CondVarTypeOK'
  BY <1>1, <1>6, <1>7 DEF CondVarTypeOK, CoreInv
<1>9. CondVarLabelInv'
  <2>1. g \notin blocked
    BY <1>4 DEF CondVarLabelInv
  <2>2. \A h \in blocked : h /= g /\ h \in Fiber
    BY <2>1 DEF CondVarTypeOK
  <2>3. QED BY <1>1, <1>5, <2>2 DEF CondVarLabelInv
<1>10. /\ woken'[f] = Tail(woken[f])
       /\ \A h \in Fiber : h /= f => woken'[h] = woken[h]
  BY <1>1 DEF CondVarTypeOK
<1>11. \A h \in Fiber : IsWoken(h)' <=> IsWoken(h) /\ h /= g
  BY <1>2, <1>3, <1>10 DEF IsWoken
<1>12. ParkInv'
  <2>1. \A h \in Fiber : Sleeps(h)' <=> Sleeps(h) /\ h /= g
    BY <1>1, <1>5 DEF Sleeps
  <2>2. \A h \in Fiber : Sleeps(h)' <=> h \in ToSet(parked') \/ IsWoken(h)'
    BY <1>1, <1>3, <1>11, <2>1 DEF ParkInv
  <2>3. \A h \in Fiber : /\ IsInjective(woken'[h])
                         /\ ToSet(woken'[h]) \subseteq ToSet(woken[h])
                         /\ woken'[h] /= <<>> => pc'[h] = "resume"
    BY <1>1, <1>2, <1>10 DEF ParkInv
  <2>4. \A h \in Fiber : ToSet(woken'[h]) \cap ToSet(parked') = {}
    BY <1>1, <2>3 DEF ParkInv
  <2>5. \A h, k \in Fiber : h /= k => ToSet(woken'[h]) \cap ToSet(woken'[k]) = {}
    BY <2>3 DEF ParkInv
  <2>6. QED BY <1>1, <2>2, <2>3, <2>4, <2>5 DEF ParkInv
<1>13. SpinInv'
  <2>1. \A v \in Workers : at'[v] = at[v] /\ this'[v] = this[v] /\ pc'[this[v]] = pc[this[v]]
    BY <1>1
  <2>2. QED BY <1>1, <2>1, SpinFrame
<1>14. Wakeups'
  <2>1. \A h \in Fiber : Awake(h)' <=> Awake(h)
    <3>1. TAKE h \in Fiber
    <3>2. CASE h = g
      BY <1>1, <1>3, <1>4, <1>5, <1>7, <3>2, AwakeSets, AwakeSetsNext DEF CondVarTypeOK
    <3>3. CASE h /= g
      BY <1>1, <1>5, <1>7, <1>11, <3>3, AwakeSets, AwakeSetsNext DEF CondVarTypeOK
    <3>4. QED BY <3>2, <3>3
  <2>2. Seekers \subseteq Seekers' /\ Asleep' \subseteq Asleep
        /\ Notifiers \subseteq Notifiers'
    BY <1>1, <2>1 DEF Seekers, Asleep, Notifiers
  <2>3. QED BY <1>1, <2>2, KeepWakeup DEF CondVarTypeOK
<1>15. QED BY <1>1, <1>6, <1>8, <1>9, <1>12, <1>13, <1>14

LEMMA WakeEndStep ==
  ASSUME CondVarInv, NEW w \in Workers, NEW f \in Fiber, WakeEnd(w, f)
  PROVE  CondVarInv'
<1> USE DEF CondVarInv
<1>1. /\ at[w] = "fiber" /\ this[w] = f /\ pc[f] = "resume"
      /\ woken[f] = <<>>
      /\ Continue(w, f, "release_unlock")
      /\ UNCHANGED <<owner, blocked, permits, spin, parked, epoch, key, owns, woken, died, overtaken>>
  BY DEF WakeEnd, InFiber, ownerVars, futexVars, localVars, fate
<1>2. /\ pc'[f] = "release_unlock" /\ \A g \in Fiber : g /= f => pc'[g] = pc[g]
      /\ UNCHANGED state
  BY <1>1 DEF Continue, Goto, CondVarTypeOK
<1>3. pc[f] \notin FutexLabels /\ ~Awake(f) /\ ~Awake(f)'
  BY <1>1, <1>2 DEF FutexLabels, Awake
<1>4. Wakeups'
  <2>1. f \in Notifiers => f \in Notifiers'
    BY <1>1 DEF Notifiers
  <2>2. f \in Asleep' => f \in Asleep
    BY <1>2 DEF Asleep
  <2>3. QED BY <1>1, <1>2, <1>3, <2>1, <2>2, MoverWakeup
<1>5. permits' \in Nat /\ owner' \in Fiber \cup {None}
  BY <1>1 DEF CondVarTypeOK
<1>6. key' \in [Fiber -> Nat] /\ \A g \in Fiber : key'[g] <= epoch
  BY <1>1 DEF CondVarTypeOK, CondVarLabelInv
<1>7. QED BY <1>1, <1>3, <1>4, <1>5, <1>6, OutsideMove

----------------------------------------------------------------------------
(* The specification *)

LEMMA CondVarInitInv ==
  ASSUME CondVarInit
  PROVE  CondVarInv
<1>1. /\ owner = None /\ blocked = {} /\ permits = Permits /\ spin = FALSE /\ parked = <<>>
      /\ epoch = 0 /\ key = [f \in Fiber |-> 0] /\ owns = [f \in Fiber |-> FALSE]
      /\ woken = [f \in Fiber |-> <<>>] /\ died = FALSE /\ overtaken = FALSE
      /\ pc = [f \in Fiber |-> "new"] /\ at = [w \in Workers |-> "idle"]
      /\ stopped = FALSE /\ FInit
  BY DEF CondVarInit, FInit
<1>2. CoreInv /\ ~stopped
  BY <1>1, InitCore
<1>3. CondVarTypeOK
  <2>1. <<>> \in Seq(Fiber)
    OBVIOUS
  <2>2. FTypeOK /\ permits \in Nat /\ epoch \in Nat
        /\ key \in [Fiber -> Nat]
    BY <1>1, <1>2, CondVarAssumption DEF CoreInv
  <2>3. woken \in [Fiber -> Seq(Fiber)] /\ parked \in Seq(Fiber)
    BY <1>1, <2>1
  <2>4. owns \in [Fiber -> BOOLEAN] /\ spin \in BOOLEAN /\ died \in BOOLEAN
        /\ overtaken \in BOOLEAN
    BY <1>1
  <2>5. owner \in Fiber \cup {None} /\ blocked \subseteq Fiber
    BY <1>1
  <2>6. QED BY <1>1, <2>2, <2>3, <2>4, <2>5 DEF CondVarTypeOK
<1>4. CondVarLabelInv
  BY <1>1 DEF CondVarLabelInv
<1>5. ParkInv
  <2>1. ToSet(parked) = {} /\ IsInjective(parked)
        /\ \A f \in Fiber : ToSet(woken[f]) = {} /\ IsInjective(woken[f])
                              /\ woken[f] = <<>>
    BY <1>1, EmptyFacts
  <2>2. \A f \in Fiber : ~Sleeps(f) /\ ~IsWoken(f)
    BY <1>1, <2>1 DEF Sleeps, IsWoken
  <2>3. QED BY <2>1, <2>2 DEF ParkInv
<1>6. SpinInv
  BY <1>1 DEF SpinInv, OneInFutex, InFutex, InAwaiter, Parking
<1>7. Wakeups
  <2>1. Asleep = {}
    BY <1>1 DEF Asleep
  <2>2. QED BY <2>1 DEF Wakeups
<1>8. QED BY <1>1, <1>2, <1>3, <1>4, <1>5, <1>6, <1>7 DEF CondVarInv

LEMMA CondVarStutterInv ==
  ASSUME CondVarInv, UNCHANGED condVarVars
  PROVE  CondVarInv'
<1> USE DEF CondVarInv
<1>1. UNCHANGED <<state, pc, runq, stopped, at, this, stacks, owner, blocked, permits, spin,
                  parked, epoch, key, owns, woken, died, overtaken>>
  BY DEF condVarVars, fvars, ownerVars, futexVars, localVars, fate
<1>2. CoreInv'
  BY <1>1, StutterCore DEF fvars
<1>3. CondVarTypeOK' /\ CondVarLabelInv'
  BY <1>1, <1>2 DEF CondVarTypeOK, CondVarLabelInv, CoreInv
<1>4. ParkInv' /\ SpinInv'
  BY <1>1 DEF ParkInv, Sleeps, IsWoken, SpinInv, OneInFutex, InFutex, InAwaiter,
            Parking
<1>5. Wakeups'
  <2>1. \A f \in Fiber : Awake(f)' <=> Awake(f)
    BY <1>1, AwakeFrame
  <2>2. Seekers' = Seekers /\ Asleep' = Asleep /\ Notifiers' = Notifiers
    BY <1>1, <2>1 DEF Seekers, Asleep, Notifiers
  <2>3. QED BY <1>1, <2>2 DEF Wakeups
<1>6. QED BY <1>1, <1>2, <1>3, <1>4, <1>5

(* The futex terminates nobody. *)
LEMMA NoCrash ==
  ASSUME CondVarInv, NEW w \in Workers, NEW f \in Fiber
  PROVE  ~FutexCrash(w, f)
<1> USE DEF CondVarInv
<1>1. \A v \in Workers, g \in Fiber :
        InAwaiter(v, g, "parked") => owns[g] /\ g \in ToSet(parked)
  BY DEF InAwaiter, SpinInv, Parking
<1>2. ~UnlockThrows(w, f)
  BY <1>1 DEF UnlockThrows
<1>3. ASSUME ResumesInvalid(w, f)
      PROVE  FALSE
  <2>1. /\ woken[f] \in Seq(Fiber) /\ IsInjective(woken[f]) /\ woken[f] /= <<>>
        /\ HandleUnset(Head(woken[f]))
    BY <1>3 DEF ResumesInvalid, CondVarTypeOK, ParkInv
  <2>2. Head(woken[f]) \in Fiber /\ Head(woken[f]) \in ToSet(woken[f])
    BY <2>1, PopFacts
  <2>3. Head(woken[f]) \notin ToSet(parked)
    BY <2>2 DEF ParkInv
  <2>4. QED BY <1>1, <2>1, <2>2, <2>3 DEF HandleUnset
<1>4. QED BY <1>2, <1>3 DEF FutexCrash

LEMMA CondVarNextInv ==
  ASSUME CondVarInv, [CondVarNext]_condVarVars
  PROVE  overtaken' \/ CondVarInv'
<1>1. ASSUME NEW w \in Workers, NEW f \in Fiber, AcquireStep(w, f)
      PROVE  overtaken' \/ CondVarInv'
  <2>1. CASE Unlock(w, f)
    BY <2>1, UnlockAtStep DEF Unlock
  <2>2. CASE ParkLock(w, f)
    BY <2>2, SpinLockStep DEF ParkLock
  <2>3. QED BY <1>1, <2>1, <2>2, TakeLockStep, AcquirePermitStep, WaitPrepareStep,
               ParkEqualStep, ParkUnequalStep, ParkLinkStep, ParkUnlockStep,
               ParkReturnStep, AccessYieldStep, AccessScheduledStep DEF AcquireStep
<1>2. ASSUME NEW w \in Workers, NEW f \in Fiber, ReleaseStep(w, f)
      PROVE  CondVarInv'
  <2>1. CASE WakeLock(w, f)
    BY <2>1, SpinLockStep DEF WakeLock
  <2>2. QED BY <1>2, <2>1, ReleasePermitStep, WakeOneStep, WakeAllStep, WakeResumeStep,
               WakeEndStep, CondVarFinishStep DEF ReleaseStep
<1>3. ASSUME NEW w \in Workers, CondVarWorker(w)
      PROVE  overtaken' \/ CondVarInv'
  BY <1>1, <1>2, <1>3, NoCrash, CondVarRunStep, ParkDisownStep DEF CondVarWorker
<1>4. QED BY <1>3, CondVarGoStep, CondVarStutterInv DEF CondVarNext, CondVarEnd

(* What has happened is not undone. *)
LEMMA OvertakenStays ==
  ASSUME overtaken, [CondVarNext]_condVarVars
  PROVE  overtaken'
<1> USE DEF fate
<1>1. ASSUME NEW w \in Workers, NEW f \in Fiber, AcquireStep(w, f)
      PROVE  overtaken'
  <2>1. CASE Lock(w, f) \/ Unlock(w, f)
    BY <2>1 DEF Lock, LockAt, Unlock, UnlockAt
  <2>2. CASE ParkReturn(w, f)
    BY <2>2 DEF ParkReturn
  <2>3. QED BY <1>1, <2>1, <2>2
            DEF AcquireStep, AcquirePermit, WaitPrepare, ParkLock, SpinLock, ParkEqual,
                ParkUnequal, ParkLink, ParkUnlock, AccessYield, AccessScheduled
<1>2. ASSUME NEW w \in Workers, NEW f \in Fiber, ReleaseStep(w, f)
      PROVE  overtaken'
  BY <1>2 DEF ReleaseStep, ReleasePermit, WakeLock, SpinLock, WakeOne, WakeAll, WakeTake,
              WakeResume, WakeEnd, CondVarFinish
<1>3. ASSUME NEW w \in Workers, CondVarWorker(w)
      PROVE  overtaken'
  BY <1>1, <1>2, <1>3 DEF CondVarWorker, CondVarRun, ParkDisown, FutexCrash
<1>4. QED BY <1>3 DEF CondVarNext, CondVarGo, CondVarEnd, condVarVars

(* The inductive invariant holds as long as no awaiter was destroyed in    *)
(* the middle of unlock().                                                 *)
THEOREM CondVarInvariance == CondVarSpec => [](overtaken \/ CondVarInv)
<1>1. CondVarInit => CondVarInv
  BY CondVarInitInv
<1>2. (overtaken \/ CondVarInv) /\ [CondVarNext]_condVarVars
        => (overtaken \/ CondVarInv)'
  BY CondVarNextInv, OvertakenStays
<1>3. QED BY <1>1, <1>2, PTL DEF CondVarSpec

(* A fiber is resumed by the one notification that took it from waiters_,  *)
(* and executed by one worker at a time, on a stack of its own, unless an  *)
(* awaiter was destroyed in the middle of unlock().                        *)
THEOREM CondVarOneWorkerPerFiberHolds ==
  CondVarSpec => [](~overtaken => OneWorkerPerFiber)
<1>1. overtaken \/ CondVarInv => (~overtaken => OneWorkerPerFiber)
  BY CoreInvImplies DEF CondVarInv
<1>2. QED BY <1>1, CondVarInvariance, PTL

(* One fiber at a time is between the lock and the unlock of spinlock_,    *)
(* in ParkIfEqual, WakeOne and WakeAll and in the awaiter's AwaitSuspend,  *)
(* unless an awaiter was destroyed in the middle of unlock(): there is no  *)
(* other way in.                                                           *)
THEOREM SpinExclusionHolds == CondVarSpec => []SpinExclusion
<1>1. overtaken \/ CondVarInv => SpinExclusion
  BY DEF CondVarInv, SpinInv, SpinExclusion, OneInFutex
<1>2. QED BY <1>1, CondVarInvariance, PTL

(* No wake-up is lost between the test of the epoch in ParkIfEqual and     *)
(* NotifyOne or NotifyAll, unless an awaiter was destroyed in the middle   *)
(* of unlock(): as long as a fiber sleeps in Wait, each free permit has a  *)
(* fiber in Acquire that is awake or one in Release that has yet to notify;*)
(* and the futex does not terminate the process.                           *)
THEOREM NoLostWakeupHolds == CondVarSpec => []NoLostWakeup
<1>1. overtaken \/ CondVarInv => NoLostWakeup
  BY DEF CondVarInv, Wakeups, NoLostWakeup, Asleep, Seekers, Notifiers
<1>2. QED BY <1>1, CondVarInvariance, PTL
=============================================================================
