------------------------------- MODULE Fibers -------------------------------
(***************************************************************************)
(* fibers/core: fibers on an executor.  The module has the state of the    *)
(* fibers and of the workers that run them, and the core's operations; the *)
(* modules of the synchronisation primitives add the bodies and awaiters.  *)
(*                                                                         *)
(* A worker inside Fiber::Run is executing the fiber's own code ("fiber"), *)
(* the OnCompleted of the awaiter with which that fiber has suspended      *)
(* ("awaiter"), or is about to continue with the fiber that OnCompleted    *)
(* returned ("transfer").  An awaiter is an object on the stack of its     *)
(* fiber: it is gone as soon as that fiber runs again.                     *)
(*                                                                         *)
(* The executor is external to this module: it runs what it was given in   *)
(* order, and discards what is pending or comes later once it is stopped.  *)
(***************************************************************************)
EXTENDS Threads, Naturals, Sequences

CONSTANTS
  Fiber,          \* the fibers
  Workers         \* the threads of the executor

ASSUME FiberAssumption == None \notin Fiber \cup Workers

VARIABLES
  state,          \* Fiber::state_, and "None" before Create and after Destroy
  pc,             \* where the routine of a fiber is
  runq,           \* the fibers queued in the executor
  stopped,        \* the executor has been stopped
  at,             \* what a worker is doing
  this,           \* the fiber whose Run a worker is in
  stacks          \* stack_ of the fibers, and the StackAllocator

fvars == <<state, pc, runq, stopped, at, this, stacks>>

FInit ==
  /\ state = [f \in Fiber |-> "None"]
  /\ pc = [f \in Fiber |-> "new"]
  /\ runq = <<>>
  /\ stopped = FALSE
  /\ at = [w \in Workers |-> "idle"]
  /\ this = [w \in Workers |-> None]
  /\ stacks = [of |-> [f \in Fiber |-> None], pool |-> << >>]

(* w is executing the code of fiber f, at the given label *)
InFiber(w, f, label) == at[w] = "fiber" /\ this[w] = f /\ pc[f] = label

(* w is executing the OnCompleted of the awaiter f is suspended with *)
InAwaiter(w, f, label) == at[w] = "awaiter" /\ this[w] = f /\ pc[f] = label

Become(f, s) == state' = [state EXCEPT ![f] = s]
Goto(f, label) == pc' = [pc EXCEPT ![f] = label]
WorkerAt(w, where, f) ==
  /\ at' = [at EXCEPT ![w] = where]
  /\ this' = [this EXCEPT ![w] = f]

(* StackAllocator: a stack from the end of the pool, or a new one, which   *)
(* has the name of the fiber it is allocated for; stacks are never freed   *)
TakeFromPool(s, f) ==
  [s EXCEPT !.of[f] = s.pool[Len(s.pool)], !.pool = SubSeq(@, 1, Len(@) - 1)]

AllocateNew(s, f) == [s EXCEPT !.of[f] = f]

AllocateStack(s, f) == IF s.pool = << >> THEN AllocateNew(s, f) ELSE TakeFromPool(s, f)

ReleaseStack(s, f) == [s EXCEPT !.pool = Append(@, s.of[f]), !.of[f] = None]

(* Destroy(): the stack is released and the fiber deleted *)
Destroyed == "None"

(* Schedule(): the executor takes the fiber, or discards it if it is       *)
(* stopped; s are the stacks before that                                   *)
ScheduleWith(f, s) ==
  /\ Become(f, IF stopped THEN Destroyed ELSE "Queued")
  /\ runq' = IF stopped THEN runq ELSE Append(runq, f)
  /\ stacks' = IF stopped THEN ReleaseStack(s, f) ELSE s

Schedule(f) == ScheduleWith(f, stacks)

(* Create: a new fiber, scheduled at once.  The caller is any thread or    *)
(* fiber; Create leaves no trace in it.                                    *)
Go(f) ==
  /\ pc[f] = "new"
  /\ ScheduleWith(f, AllocateStack(stacks, f))
  /\ Goto(f, "body")
  /\ UNCHANGED <<stopped, at, this>>

(* Run, entered from the executor: Step switches to the fiber *)
Run(w) ==
  /\ at[w] = "idle"
  /\ runq /= <<>>
  /\ WorkerAt(w, "fiber", Head(runq))
  /\ Become(Head(runq), "Running")
  /\ runq' = Tail(runq)
  /\ UNCHANGED <<pc, stopped, stacks>>

(* The code of f, run by w, goes on at label without suspending *)
Continue(w, f, label) ==
  /\ Goto(f, label)
  /\ UNCHANGED <<state, runq, stopped, at, this, stacks>>

(* Suspend(awaiter): back in RunFiber, which calls awaiter->OnCompleted *)
Suspend(w, f, label) ==
  /\ Become(f, "Suspended")
  /\ Goto(f, label)
  /\ WorkerAt(w, "awaiter", f)
  /\ UNCHANGED <<runq, stopped, stacks>>

(* OnCompleted returns the invalid handle: Run returns to the executor *)
ReturnInvalid(w) ==
  /\ WorkerAt(w, "idle", None)
  /\ UNCHANGED <<state, pc, runq, stopped, stacks>>

(* OnCompleted returns a handle: RunFiber, and Step, of that fiber *)
ReturnNext(w, next) ==
  /\ WorkerAt(w, "fiber", next)
  /\ Become(next, "Running")
  /\ UNCHANGED <<pc, runq, stopped, stacks>>

(* self::Yield with its YieldAwaiter: schedule the fiber after it has      *)
(* switched out; label is where its code goes on                           *)
YieldSuspend(w, f, label) == Suspend(w, f, label)

YieldSchedule(w, f) ==
  /\ Schedule(f)
  /\ WorkerAt(w, "idle", None)
  /\ UNCHANGED <<pc, stopped>>

(* the routine returns: RunFiber destroys the fiber *)
Complete(w, f) ==
  /\ Become(f, Destroyed)
  /\ Goto(f, "finished")
  /\ WorkerAt(w, "idle", None)
  /\ stacks' = ReleaseStack(stacks, f)
  /\ UNCHANGED <<runq, stopped>>

(* the executor stops: Discard on every queued fiber *)
Stop ==
  /\ ~stopped
  /\ stopped' = TRUE
  /\ runq' = <<>>
  /\ state' = [f \in Fiber |-> IF state[f] = "Queued" THEN Destroyed
                               ELSE state[f]]
  /\ stacks' = [stacks EXCEPT
                  !.pool = @ \o [i \in 1..Len(runq) |-> stacks.of[runq[i]]],
                  !.of = [f \in Fiber |-> IF state[f] = "Queued" THEN None ELSE @[f]]]
  /\ UNCHANGED <<pc, at, this>>

FTypeOK ==
  /\ state \in [Fiber -> {"None", "Queued", "Running", "Suspended"}]
  /\ runq \in Seq(Fiber)
  /\ stopped \in BOOLEAN
  /\ at \in [Workers -> {"idle", "fiber", "awaiter", "transfer"}]
  /\ this \in [Workers -> Fiber \cup {None}]
  /\ \A w \in Workers : this[w] = None <=> at[w] = "idle"
  /\ stacks \in [of : [Fiber -> Fiber \cup {None}], pool : Seq(Fiber)]

(* w holds the only pointer through which f may be touched *)
Running(w, f) == this[w] = f /\ at[w] \in {"fiber", "awaiter"}

IsQueued(f) == \E i \in 1..Len(runq) : runq[i] = f

(* A fiber is executed by one worker at a time, together with the awaiter  *)
(* it suspends with; it is linked at most once into the executor's queue,  *)
(* and not while a worker executes it; and it is executed only while it    *)
(* exists.  (An awaiter may hand its fiber to another worker before        *)
(* OnCompleted has returned: then it must not touch it any more.)  Every   *)
(* fiber that exists has a stack of its own, which is not in the pool.     *)
OneWorkerPerFiber ==
  /\ \A w \in Workers, f \in Fiber :
       Running(w, f) =>
         /\ \A v \in Workers : Running(v, f) => v = w
         /\ ~IsQueued(f)
         /\ state[f] = (IF at[w] = "fiber" THEN "Running" ELSE "Suspended")
  /\ \A i, j \in 1..Len(runq) : runq[i] = runq[j] => i = j
  /\ \A i \in 1..Len(runq) : state[runq[i]] = "Queued"
  /\ \A f \in Fiber :
       /\ state[f] = "None" <=> stacks.of[f] = None
       /\ state[f] /= "None" =>
            /\ \A g \in Fiber : stacks.of[g] = stacks.of[f] => g = f
            /\ \A i \in 1..Len(stacks.pool) : stacks.pool[i] /= stacks.of[f]
=============================================================================
