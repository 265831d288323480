------------------------------- MODULE Strand -------------------------------
(***************************************************************************)
(* executors/strand.cpp over an arbitrary IExecutor.  A strand keeps its   *)
(* tasks in a lock-free stack and schedules ITSELF as a task of the        *)
(* underlying executor, one batch at a time; the atomic counter_ decides   *)
(* who schedules the next batch.                                           *)
(*                                                                         *)
(* counter_ is a size_t.  A batch may run a task whose submitter has not   *)
(* yet executed fetch_add, so fetch_sub may wrap below zero: counter lives *)
(* in 0..CounterMod-1 (2^64 in the code).                                  *)
(*                                                                         *)
(* The underlying executor is external to this module: it keeps the strand *)
(* in its queue, hands it to a worker (Run), or, once it is being shut     *)
(* down, calls Discard from the thread that stops it or, refusing the      *)
(* task, from the thread that called Execute (thread_pool.cpp:30-46).      *)
(***************************************************************************)
EXTENDS Integers, FiniteSets, SequencesExt

CONSTANTS
  None,
  Tasks,
  Producers,    \* the threads that submit tasks
  Workers,      \* the threads of the underlying executor
  Roots,        \* the tasks that producers submit
  Spawn,        \* Spawn[t]: what the body of t submits to the same strand
  CounterMod,   \* 2^w for the width w of size_t
  MayStop       \* whether the underlying executor may be shut down

ASSUME StrandAssumption ==
  /\ Producers \cap Workers = {}
  /\ None \notin Tasks \cup Producers \cup Workers
  /\ Roots \subseteq Tasks
  /\ Spawn \in [Tasks -> SUBSET Tasks]
  /\ IsFiniteSet(Tasks)
  /\ IsFiniteSet(Workers)
  /\ CounterMod \in Nat
  /\ Cardinality(Tasks) < CounterMod
  /\ MayStop \in BOOLEAN

VARIABLES
  stack,      \* tasks_: the lock-free stack, latest first
  counter,    \* counter_
  refs,       \* ref_count_ of the StrandImpl
  handle,     \* the Strand object (its Ref) exists
  call,       \* frame of Execute, per thread
  arg,        \* argument of Execute
  run,        \* frame of Run, per worker
  items,      \* the local list of Run
  active,     \* the task that Run is running
  completed,  \* the local counter of Run
  queued,     \* how often the strand is linked in the executor's queue
  exec,       \* the underlying executor: open, closing or closed
  submitted,  \* history: tasks passed to Execute
  counted,    \* history: tasks for which fetch_add was executed
  taken,      \* history: tasks covered by an executed fetch_sub
  ran,        \* history: tasks run to the end
  discarded,  \* history: tasks discarded
  dropped     \* history: Discard was called on the strand

svars == <<stack, counter, refs>>
wvars == <<run, items, active, completed>>
evars == <<queued, exec>>
hvars == <<submitted, counted, taken, ran, discarded, dropped>>
vars == <<svars, handle, call, arg, wvars, evars, hvars>>

AllThreads == Producers \cup Workers

(* size_t arithmetic *)
WrapAdd(c) == IF c + 1 = CounterMod THEN 0 ELSE c + 1
WrapSub(c, n) == IF n <= c THEN c - n ELSE c - n + CounterMod

Init ==
  /\ stack = <<>>
  /\ counter = 0
  /\ refs = 1
  /\ handle = TRUE
  /\ call = [th \in AllThreads |-> "out"]
  /\ arg = [th \in AllThreads |-> None]
  /\ run = [w \in Workers |-> "idle"]
  /\ items = [w \in Workers |-> <<>>]
  /\ active = [w \in Workers |-> None]
  /\ completed = [w \in Workers |-> 0]
  /\ queued = 0
  /\ exec = "open"
  /\ submitted = {}
  /\ counted = {}
  /\ taken = {}
  /\ ran = {}
  /\ discarded = {}
  /\ dropped = FALSE

Call(th, label) == call' = [call EXCEPT ![th] = label]
Run(w, label) == run' = [run EXCEPT ![w] = label]

----------------------------------------------------------------------------
(* StrandImpl::Execute *)

ExecuteCall(th, t) ==
  /\ handle
  /\ call[th] = "out"
  /\ t \notin submitted
  /\ \/ th \in Producers /\ t \in Roots
     \/ th \in Workers /\ run[th] = "task" /\ t \in Spawn[active[th]]
  /\ Call(th, "put")
  /\ arg' = [arg EXCEPT ![th] = t]
  /\ submitted' = submitted \cup {t}
  /\ UNCHANGED <<svars, handle, wvars, evars, counted, taken, ran,
                 discarded, dropped>>

(* tasks_.Put: the compare_exchange that succeeds *)
ExecutePut(th) ==
  /\ call[th] = "put"
  /\ stack' = <<arg[th]>> \o stack
  /\ Call(th, "count")
  /\ UNCHANGED <<counter, refs, handle, arg, wvars, evars, hvars>>

(* a faulty ExecuteCount, for testing the properties *)
ExecuteCountUntested(th) ==
  /\ call[th] = "count"
  /\ counter' = WrapAdd(counter)
  /\ counted' = counted \cup {arg[th]}
  /\ Call(th, "addref")
  /\ UNCHANGED <<stack, refs, handle, arg, wvars, evars, submitted, taken,
                 ran, discarded, dropped>>

(* counter_.fetch_add(1), and the test of the old value *)
ExecuteCount(th) ==
  /\ call[th] = "count"
  /\ counter' = WrapAdd(counter)
  /\ counted' = counted \cup {arg[th]}
  /\ Call(th, IF counter = 0 THEN "addref" ELSE "out")
  /\ UNCHANGED <<stack, refs, handle, arg, wvars, evars, submitted, taken,
                 ran, discarded, dropped>>

(* a faulty ExecuteAddRef, for testing the properties *)
ExecuteNoAddRef(th) ==
  /\ call[th] = "addref"
  /\ refs' = refs
  /\ Call(th, "schedule")
  /\ UNCHANGED <<stack, counter, handle, arg, wvars, evars, hvars>>

(* RunNextBatch, called from Execute: AddRef() *)
ExecuteAddRef(th) ==
  /\ call[th] = "addref"
  /\ refs' = refs + 1
  /\ Call(th, "schedule")
  /\ UNCHANGED <<stack, counter, handle, arg, wvars, evars, hvars>>

(* RunNextBatch, called from Execute: executor_.Execute(this) *)
ExecuteSchedule(th) ==
  /\ call[th] = "schedule"
  /\ exec /= "closing"
  /\ IF exec = "open"
       THEN queued' = queued + 1 /\ Call(th, "out")
       ELSE Call(th, "discard") /\ UNCHANGED queued
  /\ UNCHANGED <<svars, handle, arg, wvars, exec, hvars>>

----------------------------------------------------------------------------
(* StrandImpl::Run *)

(* the underlying executor hands the strand to a worker *)
RunStart(w) ==
  /\ run[w] = "idle"
  /\ exec = "open"
  /\ queued > 0
  /\ queued' = queued - 1
  /\ Run(w, "takeall")
  /\ UNCHANGED <<svars, handle, call, arg, items, active, completed, exec,
                 hvars>>

(* a faulty RunTakeAll, for testing the properties *)
RunTakeAllUnreversed(w) ==
  /\ run[w] = "takeall"
  /\ items' = [items EXCEPT ![w] = stack]
  /\ stack' = <<>>
  /\ completed' = [completed EXCEPT ![w] = 0]
  /\ Run(w, "loop")
  /\ UNCHANGED <<counter, refs, handle, call, arg, active, evars, hvars>>

(* tasks_.TakeAll(): exchange the stack for an empty one and reverse it *)
RunTakeAll(w) ==
  /\ run[w] = "takeall"
  /\ items' = [items EXCEPT ![w] = Reverse(stack)]
  /\ stack' = <<>>
  /\ completed' = [completed EXCEPT ![w] = 0]
  /\ Run(w, "loop")
  /\ UNCHANGED <<counter, refs, handle, call, arg, active, evars, hvars>>

RunTask(w) ==
  /\ run[w] = "loop"
  /\ items[w] /= <<>>
  /\ active' = [active EXCEPT ![w] = Head(items[w])]
  /\ items' = [items EXCEPT ![w] = Tail(@)]
  /\ Run(w, "task")
  /\ UNCHANGED <<svars, handle, call, arg, completed, evars, hvars>>

(* task->Run() returns; ++completed.  A body whose strand handle is gone   *)
(* submits nothing more.                                                   *)
RunTaskDone(w) ==
  /\ run[w] = "task"
  /\ call[w] = "out"
  /\ Spawn[active[w]] \subseteq submitted \/ ~handle
  /\ ran' = ran \cup {active[w]}
  /\ active' = [active EXCEPT ![w] = None]
  /\ completed' = [completed EXCEPT ![w] = @ + 1]
  /\ Run(w, "loop")
  /\ UNCHANGED <<svars, handle, call, arg, items, evars, submitted, counted,
                 taken, discarded, dropped>>

(* a faulty RunSub, for testing the properties *)
RunSubAtLeast(w) ==
  /\ run[w] = "loop"
  /\ items[w] = <<>>
  /\ counter' = WrapSub(counter, completed[w])
  /\ taken' = ran
  /\ Run(w, IF counter >= completed[w] THEN "addref" ELSE "release")
  /\ UNCHANGED <<stack, refs, handle, call, arg, items, active, completed,
                 evars, submitted, counted, ran, discarded, dropped>>

(* a faulty RunSub, for testing the properties *)
RunSubForgetful(w) ==
  /\ run[w] = "loop"
  /\ items[w] = <<>>
  /\ counter' = WrapSub(counter, completed[w])
  /\ taken' = ran
  /\ Run(w, "release")
  /\ UNCHANGED <<stack, refs, handle, call, arg, items, active, completed,
                 evars, submitted, counted, ran, discarded, dropped>>

(* counter_.fetch_sub(completed) > completed *)
RunSub(w) ==
  /\ run[w] = "loop"
  /\ items[w] = <<>>
  /\ counter' = WrapSub(counter, completed[w])
  /\ taken' = ran
  /\ Run(w, IF counter > completed[w] THEN "addref" ELSE "release")
  /\ UNCHANGED <<stack, refs, handle, call, arg, items, active, completed,
                 evars, submitted, counted, ran, discarded, dropped>>

(* RunNextBatch, called from Run *)
RunAddRef(w) ==
  /\ run[w] = "addref"
  /\ refs' = refs + 1
  /\ Run(w, "schedule")
  /\ UNCHANGED <<stack, counter, handle, call, arg, items, active, completed,
                 evars, hvars>>

RunSchedule(w) ==
  /\ run[w] = "schedule"
  /\ exec /= "closing"
  /\ IF exec = "open"
       THEN queued' = queued + 1 /\ Run(w, "release")
       ELSE Run(w, "discard") /\ UNCHANGED queued
  /\ UNCHANGED <<svars, handle, call, arg, items, active, completed, exec,
                 hvars>>

(* a faulty RunRelease, for testing the properties *)
RunWithoutRelease(w) ==
  /\ run[w] = "release"
  /\ refs' = refs
  /\ Run(w, "idle")
  /\ UNCHANGED <<stack, counter, handle, call, arg, items, active, completed,
                 evars, hvars>>

(* ReleaseRef(): the strand is deleted when refs reaches zero *)
RunRelease(w) ==
  /\ run[w] = "release"
  /\ refs' = refs - 1
  /\ Run(w, "idle")
  /\ UNCHANGED <<stack, counter, handle, call, arg, items, active, completed,
                 evars, hvars>>

----------------------------------------------------------------------------
(* StrandImpl::Discard: TakeAll and Discard on each task; neither the      *)
(* counter nor the reference taken by RunNextBatch is given back.          *)

DiscardTasks ==
  /\ discarded' = discarded \cup ToSet(stack)
  /\ stack' = <<>>
  /\ dropped' = TRUE
  /\ UNCHANGED <<counter, refs, submitted, counted, taken, ran>>

(* the executor refused the strand: Discard in the thread that scheduled *)
ExecuteDiscard(th) ==
  /\ call[th] = "discard"
  /\ DiscardTasks
  /\ Call(th, "out")
  /\ UNCHANGED <<handle, arg, wvars, evars>>

RunDiscard(w) ==
  /\ run[w] = "discard"
  /\ DiscardTasks
  /\ Run(w, "release")
  /\ UNCHANGED <<handle, call, arg, items, active, completed, evars>>

(* the executor is shut down: it discards what is in its queue, then       *)
(* refuses; nothing else can enter or leave its queue in between           *)
StopBegin ==
  /\ MayStop
  /\ exec = "open"
  /\ exec' = "closing"
  /\ UNCHANGED <<svars, handle, call, arg, wvars, queued, hvars>>

StopDispose ==
  /\ exec = "closing"
  /\ queued > 0
  /\ queued' = queued - 1
  /\ DiscardTasks
  /\ UNCHANGED <<handle, call, arg, wvars, exec>>

StopEnd ==
  /\ exec = "closing"
  /\ queued = 0
  /\ exec' = "closed"
  /\ UNCHANGED <<svars, handle, call, arg, wvars, queued, hvars>>

----------------------------------------------------------------------------
(* ~Strand: releases the handle's Ref.  The object may only be destroyed   *)
(* when no call of Strand::Execute is in progress.                         *)
DropHandle ==
  /\ handle
  /\ \A th \in AllThreads : call[th] = "out"
  /\ handle' = FALSE
  /\ refs' = refs - 1
  /\ UNCHANGED <<stack, counter, call, arg, wvars, evars, hvars>>

ExecuteStep(th) ==
  ExecutePut(th) \/ ExecuteCount(th) \/ ExecuteAddRef(th)
    \/ ExecuteSchedule(th) \/ ExecuteDiscard(th)

RunStep(w) ==
  RunStart(w) \/ RunTakeAll(w) \/ RunTask(w) \/ RunTaskDone(w) \/ RunSub(w)
    \/ RunAddRef(w) \/ RunSchedule(w) \/ RunDiscard(w) \/ RunRelease(w)

StopStep == StopDispose \/ StopEnd

Next ==
  \/ \E th \in AllThreads, t \in Tasks : ExecuteCall(th, t)
  \/ \E th \in AllThreads : ExecuteStep(th)
  \/ \E w \in Workers : RunStep(w)
  \/ StopBegin \/ StopStep
  \/ DropHandle

Spec == Init /\ [][Next]_vars

(* Threads inside a call proceed, and the underlying executor runs what it *)
(* was given; nobody is obliged to submit, to stop or to drop the handle.  *)
Fairness ==
  /\ \A th \in AllThreads : WF_vars(ExecuteStep(th))
  /\ \A w \in Workers :
       WF_vars(RunStep(w) \/ \E t \in Tasks : ExecuteCall(w, t))
  /\ WF_vars(StopStep)

FairSpec == Spec /\ Fairness

----------------------------------------------------------------------------
(* Properties *)

TypeOK ==
  /\ stack \in Seq(Tasks)
  /\ counter \in 0..(CounterMod - 1)
  /\ refs \in Nat
  /\ handle \in BOOLEAN
  /\ call \in [AllThreads ->
               {"out", "put", "count", "addref", "schedule", "discard"}]
  /\ arg \in [AllThreads -> Tasks \cup {None}]
  /\ run \in [Workers -> {"idle", "takeall", "loop", "task", "addref",
                          "schedule", "discard", "release"}]
  /\ items \in [Workers -> Seq(Tasks)]
  /\ active \in [Workers -> Tasks \cup {None}]
  /\ completed \in [Workers -> Nat]
  /\ queued \in Nat
  /\ exec \in {"open", "closing", "closed"}
  /\ submitted \subseteq Tasks
  /\ counted \subseteq Tasks
  /\ taken \subseteq Tasks
  /\ ran \subseteq Tasks
  /\ discarded \subseteq Tasks
  /\ dropped \in BOOLEAN

(* A batch is being executed by w: Run is between TakeAll and fetch_sub *)
InBatch(w) == run[w] \in {"takeall", "loop", "task"}

(* Two workers are never inside Run's loop at once: the tasks of a strand  *)
(* exclude each other ("asynchronous mutex") although batches are run by   *)
(* whatever worker is free and counter_ may wrap below zero.               *)
MutualExclusion ==
  \A v, w \in Workers : InBatch(v) /\ InBatch(w) => v = w

(* The strand is an intrusive list node: it is never handed to the         *)
(* underlying executor while it is still linked there.                     *)
LinkedOnce == queued <= 1

(* A batch is never empty: fetch_sub(0) > 0 would make Run reschedule      *)
(* itself for nothing.                                                     *)
NoEmptyBatch == \A w \in Workers : run[w] = "takeall" => stack /= <<>>

(* The StrandImpl outlives every access: while a thread is inside Execute  *)
(* or Run, or the executor holds a pointer to it, its refcount is not 0.   *)
InUse ==
  \/ queued > 0
  \/ \E th \in AllThreads : call[th] /= "out"
  \/ \E w \in Workers : run[w] /= "idle"

NoUseAfterFree == InUse => refs > 0

(* A dropped strand is deleted once its last batch ends, and is not        *)
(* deleted twice (unless it was discarded).                                *)
NoLeak == ~handle /\ ~InUse /\ ~dropped => refs = 0

(* The task order: what the batch still holds, then the stack reversed *)
Batch ==
  IF \E w \in Workers : InBatch(w)
  THEN items[CHOOSE w \in Workers : InBatch(w)] ELSE <<>>

Active ==
  IF \E w \in Workers : active[w] /= None
  THEN active[CHOOSE w \in Workers : active[w] /= None] ELSE None

Accepted == submitted \ {arg[th] : th \in {x \in AllThreads : call[x] = "put"}}

Serial == INSTANCE SerialExecutor
            WITH queue <- Batch \o Reverse(stack),
                 active <- Active,
                 accepted <- Accepted

(* The tasks of a strand start one at a time, in the order in which Put    *)
(* linked them, each of them once: batches are reversed once, and the next *)
(* batch never overtakes the rest of the one before.                       *)
ImplementsSerialExecutor == Serial!Spec

(* Every task submitted to a strand over a running executor is run. *)
TasksRun ==
  \A t \in Tasks : (t \in submitted) ~> (t \in ran \/ exec /= "open")

=============================================================================
