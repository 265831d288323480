----------------------------- MODULE ThreadPool -----------------------------
(***************************************************************************)
(* executors/thread_pool.cpp: a fixed set of worker threads over a shared  *)
(* blocking queue, with an atomic counter of outstanding tasks.            *)
(*                                                                         *)
(* Client threads call Execute, WaitIdle and, the owner of the pool only,  *)
(* Stop.  A running task may call Execute itself: Spawn[t] is what the     *)
(* body of task t submits.  A task is submitted once; a node that is       *)
(* submitted again after its Run (a fiber, a strand) is another task here. *)
(***************************************************************************)
EXTENDS MPMCBlockingQueue, AtomicCounter, FiniteSets

CONSTANTS
  Tasks,
  Workers,        \* the threads of the pool
  Clients,        \* the threads that use it
  Owner,          \* the client that calls Stop
  Roots,          \* the tasks that clients submit
  Spawn,          \* Spawn[t]: the tasks that the body of t submits
  MaxWaitIdle,    \* bound: calls of WaitIdle per client
  MaxSpurious     \* bound: spurious wake-ups in a behaviour

ASSUME PoolAssumption ==
  /\ Workers \cap Clients = {}
  /\ None \notin Workers \cup Clients \cup Tasks
  /\ Owner \in Clients
  /\ Roots \subseteq Tasks
  /\ Spawn \in [Tasks -> SUBSET Tasks]
  /\ MaxWaitIdle \in Nat
  /\ MaxSpurious \in Nat
  /\ IsFiniteSet(Tasks)

VARIABLES
  pc,             \* where each thread is
  ret,            \* where AtomicCounter::Done returns to
  cur,            \* the task a worker is running
  arg,            \* the argument of Execute or of the disposer
  stopped,        \* Stop has returned
  submitted,      \* the tasks passed to Execute so far
  runs,           \* history: how often Run was called on a task
  discards,       \* history: how often Discard was called on a task
  live,           \* history: tasks counted by Add and not yet by Done
  before,         \* history: what was submitted when WaitIdle was called
  waits,          \* calls of WaitIdle so far
  spurious        \* spurious wake-ups so far

tvars == <<runs, discards>>
vars == <<qvars, cvars, pc, ret, cur, arg, stopped, submitted, runs,
          discards, live, before, waits, spurious>>

PoolThreads == Workers \cup Clients

(* where a thread continues when its call of Execute returns *)
Home(th) == IF th \in Workers THEN "running" ELSE "idle"

Goto(th, label) == pc' = [pc EXCEPT ![th] = label]

Init ==
  /\ QInit
  /\ CInit
  /\ pc = [th \in PoolThreads |-> IF th \in Workers THEN "take" ELSE "idle"]
  /\ ret = [th \in PoolThreads |-> "idle"]
  /\ cur = [w \in Workers |-> None]
  /\ arg = [th \in PoolThreads |-> None]
  /\ stopped = FALSE
  /\ submitted = {}
  /\ runs = [t \in Tasks |-> 0]
  /\ discards = [t \in Tasks |-> 0]
  /\ live = {}
  /\ before = [c \in Clients |-> {}]
  /\ waits = [c \in Clients |-> 0]
  /\ spurious = 0

----------------------------------------------------------------------------
(* ThreadPool::Execute *)

MaySubmit(th, t) ==
  /\ t \notin submitted
  /\ \/ th \in Clients /\ pc[th] = "idle" /\ t \in Roots
     \/ th \in Workers /\ pc[th] = "running" /\ t \in Spawn[cur[th]]

ExecuteAdd(th, t) ==
  /\ MaySubmit(th, t)
  /\ Add
  /\ Goto(th, "put")
  /\ arg' = [arg EXCEPT ![th] = t]
  /\ submitted' = submitted \cup {t}
  /\ live' = live \cup {t}
  /\ UNCHANGED <<qvars, ret, cur, stopped, tvars, before, waits, spurious>>

ExecutePut(th) ==
  /\ pc[th] = "put"
  /\ PutItem(arg[th])
  /\ Goto(th, Home(th))
  /\ UNCHANGED <<cvars, ret, cur, arg, stopped, submitted, tvars, live,
                 before, waits, spurious>>

ExecuteRefused(th) ==
  /\ pc[th] = "put"
  /\ PutRefused
  /\ Goto(th, "refused")
  /\ UNCHANGED <<cvars, ret, cur, arg, stopped, submitted, tvars, live,
                 before, waits, spurious>>

(* task->Discard() of Execute; Done follows *)
ExecuteDiscard(th) ==
  /\ pc[th] = "refused"
  /\ discards' = [discards EXCEPT ![arg[th]] = @ + 1]
  /\ Goto(th, "done")
  /\ ret' = [ret EXCEPT ![th] = Home(th)]
  /\ UNCHANGED <<qvars, cvars, cur, arg, stopped, submitted, runs, live,
                 before, waits, spurious>>

----------------------------------------------------------------------------
(* AtomicCounter::Done, called from three places *)

CounterDone(th) ==
  /\ pc[th] = "done"
  /\ DoneSub
  /\ live' = live \ {arg[th]}
  /\ Goto(th, IF LastDone THEN "notify" ELSE ret[th])
  /\ UNCHANGED <<qvars, ret, cur, arg, stopped, submitted, tvars, before,
                 waits, spurious>>

CounterNotify(th) ==
  /\ pc[th] = "notify"
  /\ DoneNotify
  /\ Goto(th, ret[th])
  /\ UNCHANGED <<qvars, ret, cur, arg, stopped, submitted, tvars, live,
                 before, waits, spurious>>

----------------------------------------------------------------------------
(* ThreadPool::WorkerRoutine *)

WorkerTake(w) ==
  /\ pc[w] = "take"
  /\ TakeItem(w)
  /\ cur' = [cur EXCEPT ![w] = Head(items)]
  /\ runs' = [runs EXCEPT ![Head(items)] = @ + 1]
  /\ Goto(w, "running")
  /\ UNCHANGED <<cvars, ret, arg, stopped, submitted, discards, live,
                 before, waits, spurious>>

WorkerWait(w) ==
  /\ pc[w] = "take"
  /\ TakeWait(w)
  /\ UNCHANGED <<cvars, pc, ret, cur, arg, stopped, submitted, tvars, live,
                 before, waits, spurious>>

WorkerExit(w) ==
  /\ pc[w] = "take"
  /\ TakeNull(w)
  /\ Goto(w, "exited")
  /\ UNCHANGED <<cvars, ret, cur, arg, stopped, submitted, tvars, live,
                 before, waits, spurious>>

(* task->Run() returns; Done follows, then the next Take *)
WorkerRan(w) ==
  /\ pc[w] = "running"
  /\ Spawn[cur[w]] \subseteq submitted
  /\ arg' = [arg EXCEPT ![w] = cur[w]]
  /\ cur' = [cur EXCEPT ![w] = None]
  /\ Goto(w, "done")
  /\ ret' = [ret EXCEPT ![w] = "take"]
  /\ UNCHANGED <<qvars, cvars, stopped, submitted, tvars, live, before,
                 waits, spurious>>

WorkerSpurious(w) ==
  /\ spurious < MaxSpurious
  /\ TakeSpurious(w)
  /\ spurious' = spurious + 1
  /\ UNCHANGED <<cvars, pc, ret, cur, arg, stopped, submitted, tvars, live,
                 before, waits>>

----------------------------------------------------------------------------
(* ThreadPool::WaitIdle *)

WaitIdleCall(c) ==
  /\ pc[c] = "idle"
  /\ waits[c] < MaxWaitIdle
  /\ waits' = [waits EXCEPT ![c] = @ + 1]
  /\ before' = [before EXCEPT ![c] = submitted]
  /\ Goto(c, "wz_lock")
  /\ UNCHANGED <<qvars, cvars, ret, cur, arg, stopped, submitted, tvars,
                 live, spurious>>

WaitIdleStep(c, from, step, to) ==
  /\ pc[c] = from
  /\ step
  /\ Goto(c, to)
  /\ UNCHANGED <<qvars, ret, cur, arg, stopped, submitted, tvars, live,
                 before, waits, spurious>>

WaitIdleLock(c)   == WaitIdleStep(c, "wz_lock", WaitZeroLock(c), "wz_load")
WaitIdleReturn(c) == WaitIdleStep(c, "wz_load", WaitZeroReturn(c), "idle")
WaitIdleBusy(c)   == WaitIdleStep(c, "wz_load", WaitZeroBusy(c), "wz_wait")
WaitIdleBlock(c)  == WaitIdleStep(c, "wz_wait", WaitZeroBlock(c), "wz_lock")

WaitIdleSpurious(c) ==
  /\ spurious < MaxSpurious
  /\ WaitZeroSpurious(c)
  /\ spurious' = spurious + 1
  /\ UNCHANGED <<qvars, pc, ret, cur, arg, stopped, submitted, tvars, live,
                 before, waits>>

----------------------------------------------------------------------------
(* ThreadPool::Stop *)

StopCall ==
  /\ pc[Owner] = "idle"
  /\ ~stopped
  /\ CloseLock(Owner)
  /\ Goto(Owner, "closing")
  /\ UNCHANGED <<cvars, ret, cur, arg, stopped, submitted, tvars, live,
                 before, waits, spurious>>

(* the disposer: task->Discard(), then Done, with the queue's mutex held *)
StopDispose ==
  /\ pc[Owner] = "closing"
  /\ ClosePop(Owner)
  /\ discards' = [discards EXCEPT ![Head(items)] = @ + 1]
  /\ arg' = [arg EXCEPT ![Owner] = Head(items)]
  /\ ret' = [ret EXCEPT ![Owner] = "closing"]
  /\ Goto(Owner, "done")
  /\ UNCHANGED <<cvars, cur, stopped, submitted, runs, live, before, waits,
                 spurious>>

StopClosed ==
  /\ pc[Owner] = "closing"
  /\ CloseFinish(Owner)
  /\ Goto(Owner, "joining")
  /\ UNCHANGED <<cvars, ret, cur, arg, stopped, submitted, tvars, live,
                 before, waits, spurious>>

(* a faulty StopJoin, for testing the properties *)
StopWithoutJoin ==
  /\ pc[Owner] = "joining"
  /\ stopped' = TRUE
  /\ Goto(Owner, "idle")
  /\ UNCHANGED <<qvars, cvars, ret, cur, arg, submitted, tvars, live, before,
                 waits, spurious>>

(* every worker.join() returns; workers_.clear() *)
StopJoin ==
  /\ pc[Owner] = "joining"
  /\ \A w \in Workers : pc[w] = "exited"
  /\ stopped' = TRUE
  /\ Goto(Owner, "idle")
  /\ UNCHANGED <<qvars, cvars, ret, cur, arg, submitted, tvars, live, before,
                 waits, spurious>>

----------------------------------------------------------------------------
Finished ==
  /\ \A c \in Clients : pc[c] = "idle"
  /\ \A w \in Workers : pc[w] = "exited" \/ (w \in qwait /\ items = <<>>)

(* Nobody has anything left to do: the only way in which the system stops. *)
Quiescent == Finished /\ UNCHANGED vars

ExecuteStep(th) ==
  ExecutePut(th) \/ ExecuteRefused(th) \/ ExecuteDiscard(th)

DoneStep(th) == CounterDone(th) \/ CounterNotify(th)

WorkerStep(w) ==
  WorkerTake(w) \/ WorkerWait(w) \/ WorkerExit(w) \/ WorkerRan(w)

WaitStep(c) ==
  WaitIdleLock(c) \/ WaitIdleReturn(c) \/ WaitIdleBusy(c) \/ WaitIdleBlock(c)

StopStep == StopDispose \/ StopClosed \/ StopJoin

Next ==
  \/ \E th \in PoolThreads, t \in Tasks : ExecuteAdd(th, t)
  \/ \E th \in PoolThreads : ExecuteStep(th) \/ DoneStep(th)
  \/ \E w \in Workers : WorkerStep(w) \/ WorkerSpurious(w)
  \/ \E c \in Clients : WaitIdleCall(c) \/ WaitStep(c) \/ WaitIdleSpurious(c)
  \/ StopCall
  \/ StopStep
  \/ Quiescent

Spec == Init /\ [][Next]_vars

(* A thread that can take a step inside a call, or inside the body of a    *)
(* task, eventually takes it.  Clients need not call anything.             *)
Fairness ==
  /\ \A th \in PoolThreads : WF_vars(ExecuteStep(th) \/ DoneStep(th))
  /\ \A w \in Workers :
       WF_vars(WorkerStep(w) \/ \E t \in Tasks : ExecuteAdd(w, t))
  /\ \A c \in Clients : WF_vars(WaitStep(c))
  /\ WF_vars(StopStep)

FairSpec == Spec /\ Fairness

----------------------------------------------------------------------------
(* Properties *)

TypeOK ==
  /\ items \in Seq(Tasks)
  /\ closed \in BOOLEAN
  /\ qlock \in {None, Owner}
  /\ qwait \subseteq Workers
  /\ counter \in Nat
  /\ clock \in Clients \cup {None}
  /\ cwait \subseteq Clients
  /\ pc \in [PoolThreads -> {"idle", "take", "running", "exited", "put",
        "refused", "done", "notify", "wz_lock", "wz_load", "wz_wait",
        "closing", "joining"}]
  /\ ret \in [PoolThreads -> {"idle", "running", "take", "closing"}]
  /\ cur \in [Workers -> Tasks \cup {None}]
  /\ arg \in [PoolThreads -> Tasks \cup {None}]
  /\ stopped \in BOOLEAN
  /\ submitted \subseteq Tasks
  /\ runs \in [Tasks -> Nat]
  /\ discards \in [Tasks -> Nat]
  /\ live \subseteq Tasks
  /\ before \in [Clients -> SUBSET Tasks]
  /\ waits \in [Clients -> 0..MaxWaitIdle]
  /\ spurious \in 0..MaxSpurious

Running(t) == \E w \in Workers : cur[w] = t

(* Run has returned, or Discard was called *)
Resolved(t) == discards[t] > 0 \/ (runs[t] > 0 /\ ~Running(t))

(* The counter that WaitIdle reads is zero only when no submitted task is  *)
(* queued, running, or still on its way into the queue: Execute counts a   *)
(* task before the queue can see it, and Done uncounts it after Run.       *)
IdleMeansNoWork == counter = 0 => \A t \in submitted : Resolved(t)

(* When WaitIdle returns, the tasks submitted before it was called are     *)
(* resolved, and so is what the bodies of those tasks submitted.           *)
WaitIdleCovers ==
  [][\A c \in Clients :
       (pc[c] = "wz_load" /\ pc'[c] = "idle") =>
         \A t \in before[c] :
           /\ Resolved(t)
           /\ runs[t] > 0 => \A u \in Spawn[t] : Resolved(u)]_vars

(* Once the queue is closed no further task is started: Take finds nothing *)
(* to return and Put refuses, whatever clients and running tasks submit.   *)
NoStartAfterClose == [][closed => runs' = runs]_vars

(* When Stop has returned the pool is drained: no worker thread is left,   *)
(* and every task was run to the end or discarded, except one that its     *)
(* submitter is about to discard because Put refused it.                   *)
StoppedIsDrained ==
  stopped =>
    /\ \A w \in Workers : pc[w] = "exited"
    /\ items = <<>>
    /\ \A t \in submitted :
         Resolved(t) \/ \E c \in Clients :
                          arg[c] = t /\ pc[c] \in {"put", "refused"}

(* WaitIdle returns: the last Done cannot slip between the load of the     *)
(* counter and the wait without waking the waiter.                         *)
WaitIdleReturns ==
  \A c \in Clients : (pc[c] = "wz_lock") ~> (pc[c] = "idle")

(* Stop returns: every worker leaves Take, or finishes its task, and exits *)
StopReturns == (pc[Owner] = "closing") ~> stopped

(* What each task looks like to the users of the pool *)
Status ==
  [t \in Tasks |->
     IF t \notin submitted THEN "new"
     ELSE IF Running(t) THEN "running"
     ELSE IF runs[t] + discards[t] > 1 THEN "twice"
     ELSE IF runs[t] = 1 THEN "done"
     ELSE IF discards[t] = 1 THEN "discarded"
     ELSE "pending"]

Abstract == INSTANCE Executor WITH status <- Status

(* Every task handed to Execute is given exactly one of Run and Discard,   *)
(* exactly once, whatever the order of Execute, Take, Done and Stop.       *)
ImplementsExecutor == Abstract!Spec

(* ... and it is given one: no task is left behind in a queue whose        *)
(* workers all sleep, or behind a queue that is closed.                    *)
ImplementsLiveExecutor == Abstract!LiveSpec
=============================================================================
