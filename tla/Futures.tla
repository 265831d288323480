------------------------------- MODULE Futures -------------------------------
(***************************************************************************)
(* futures/: contracts, the rendezvous of producer and consumer, and the   *)
(* combinators Then (synchronous and asynchronous) and Recover.            *)
(*                                                                         *)
(* The program is a pipeline of N combinators over a source contract 0,    *)
(* built by one thread while other threads fulfil promises and a pool runs *)
(* callbacks.  Combinator i subscribes to contract i - 1 and fulfils       *)
(* contract i; the future that the continuation of an asynchronous Then    *)
(* returns belongs to contract N + i.  At the end of the pipeline the      *)
(* builder blocks in WaitResult, polls IsReady and GetResult, or is a      *)
(* fiber that awaits the future and goes on in the pool.                   *)
(*                                                                         *)
(* A result is "ok" or "err".  A continuation returns one of them or       *)
(* throws.  The inline executor runs a callback in the thread that invokes *)
(* it; that call is always the last thing the thread does in the function  *)
(* it is in.                                                               *)
(***************************************************************************)
EXTENDS Threads, Naturals, Sequences, FiniteSets

CONSTANTS
  N,              \* the number of combinators
  Workers,        \* the threads of the pool
  Programs,       \* the pipelines to consider
  MayStop         \* whether the pool may be stopped

Contracts == 0..(2 * N)
Inner(i) == N + i
Fiber == 2 * N + 1          \* the fiber, as a task of the pool
AllThreads == Workers \cup {"builder", "source", "inner"}

IsProgram(p) ==
  /\ p.kind \in [1..N -> {"then", "flat", "recover"}]
  /\ p.fun \in [1..N -> {"ok", "err", "throw"}]
  /\ p.source \in {"ok", "err"}
  /\ p.inner \in {"ok", "err"}
  /\ p.via \in [Contracts -> {"inline", "pool"}]

ASSUME FuturesAssumption ==
  /\ N \in Nat
  /\ None \notin Workers \cup {"ok", "err"}
  /\ Workers \cap {"builder", "source", "inner"} = {}
  /\ \A p \in Programs : IsProgram(p)
  /\ MayStop \in BOOLEAN

VARIABLES
  prog,           \* the pipeline: kind, fun, source, inner and via
  rv,             \* Rendezvous::state_ of a contract
  result,         \* result_ of a contract
  pc,             \* what a thread is doing: an operation on a contract
  built,          \* the combinators the builder has called so far
  inners,         \* the inner contracts whose promise is still to be set
  queue,          \* the callbacks in the queue of the pool
  stopped,        \* the pool has been stopped
  fired,          \* the event of the BlockingGetter
  got,            \* what the builder got in the end
  calls,          \* history: calls of the continuation of a combinator
  runs,           \* history: runs of the callback of a contract
  gone            \* the contracts whose promise was destroyed unset

vars == <<prog, rv, result, pc, built, inners, queue, stopped, fired, got,
          calls, runs, gone>>

At(op, c) == [op |-> op, c |-> c]
Home == At("home", 0)
Goto(th, op, c) == pc' = [pc EXCEPT ![th] = At(op, c)]
Return(th) == pc' = [pc EXCEPT ![th] = Home]

Init ==
  /\ prog \in Programs
  /\ rv = [c \in Contracts |-> "Initial"]
  /\ result = [c \in Contracts |-> None]
  /\ pc = [th \in AllThreads |-> Home]
  /\ built = 0
  /\ inners = {}
  /\ queue = <<>>
  /\ stopped = FALSE
  /\ fired = FALSE
  /\ got = None
  /\ calls = [i \in 1..N |-> 0]
  /\ runs = [c \in Contracts |-> 0]
  /\ gone = {}

----------------------------------------------------------------------------
(* Rendezvous: fetch_or *)

Produced(s) == CASE s = "Initial" -> "Producer"
                 [] s = "Consumer" -> "Rendezvous"
                 [] OTHER -> "Panic"

Consumed(s) == CASE s = "Initial" -> "Consumer"
                 [] s = "Producer" -> "Rendezvous"
                 [] OTHER -> "Panic"

(* SharedState::SetResult: emplace the result, Produce *)
SetResult(th, c, r) ==
  /\ result' = [result EXCEPT ![c] = r]
  /\ rv' = [rv EXCEPT ![c] = Produced(@)]
  /\ IF rv[c] = "Consumer" THEN Goto(th, "invoke", c) ELSE Return(th)

(* a faulty SetCallback, for testing the properties *)
SetCallbackEager(th, c) ==
  /\ rv' = [rv EXCEPT ![c] = Consumed(@)]
  /\ Goto(th, "invoke", c)

(* a faulty SetCallback, for testing the properties *)
SetCallbackForgetful(th, c) ==
  /\ rv' = [rv EXCEPT ![c] = Consumed(@)]
  /\ Return(th)

(* SharedState::SetCallback: store the callback, Consume *)
SetCallback(th, c) ==
  /\ rv' = [rv EXCEPT ![c] = Consumed(@)]
  /\ IF rv[c] = "Producer" THEN Goto(th, "invoke", c) ELSE Return(th)

----------------------------------------------------------------------------
(* The threads that fulfil the promises given out by the program *)

SetSource ==
  /\ pc["source"] = Home
  /\ rv[0] \in {"Initial", "Consumer"}
  /\ SetResult("source", 0, prog.source)
  /\ UNCHANGED <<prog, built, inners, queue, stopped, fired, got, calls, runs,
                 gone>>

SetInner ==
  /\ pc["inner"] = Home
  /\ \E c \in inners :
       /\ inners' = inners \ {c}
       /\ SetResult("inner", c, prog.inner)
  /\ UNCHANGED <<prog, built, queue, stopped, fired, got, calls, runs, gone>>

----------------------------------------------------------------------------
(* The builder: Then or Recover subscribes a callback to the future so far *)

Combine ==
  /\ pc["builder"] = Home
  /\ built < N
  /\ built' = built + 1
  /\ SetCallback("builder", built)
  /\ UNCHANGED <<prog, result, inners, queue, stopped, fired, got, calls, runs,
                 gone>>

(* WaitResult: subscribe the BlockingGetter, wait for its event *)
GetSubscribe ==
  /\ pc["builder"] = Home
  /\ built = N
  /\ built' = N + 1
  /\ SetCallback("builder", N)
  /\ UNCHANGED <<prog, result, inners, queue, stopped, fired, got, calls, runs,
                 gone>>

GetWake ==
  /\ pc["builder"] = Home
  /\ built = N + 1
  /\ fired
  /\ got = None
  /\ got' = result[N]
  /\ UNCHANGED <<prog, rv, result, pc, built, inners, queue, stopped, fired,
                 calls, runs, gone>>

(* IsReady says so, to a thread or in AwaitReady of the fiber: GetResult,  *)
(* which verifies that there is a result                                   *)
Poll ==
  /\ pc["builder"] = Home
  /\ built = N
  /\ rv[N] = "Producer"
  /\ built' = N + 2
  /\ rv' = [rv EXCEPT ![N] = Consumed(@)]
  /\ got' = result[N]
  /\ UNCHANGED <<prog, result, pc, inners, queue, stopped, fired, calls, runs,
                 gone>>

(* Await in a fiber: the future is not ready, so the fiber suspends ...    *)
AwaitReady ==
  /\ pc["builder"] = Home
  /\ built = N
  /\ rv[N] = "Initial"
  /\ built' = N + 3
  /\ Goto("builder", "suspended", N)
  /\ UNCHANGED <<prog, rv, result, inners, queue, stopped, fired, got, calls,
                 runs, gone>>

(* ... and the worker it ran on subscribes the awaiter *)
AwaitSuspend ==
  /\ pc["builder"] = At("suspended", N)
  /\ SetCallback("builder", N)
  /\ UNCHANGED <<prog, result, built, inners, queue, stopped, fired, got, calls,
                 runs, gone>>

----------------------------------------------------------------------------
(* SharedState::InvokeCallback: executor_->Execute(callback_) *)

InvokeInline(th) ==
  LET c == pc[th].c IN
  /\ pc[th].op = "invoke"
  /\ prog.via[c] = "inline"
  /\ Goto(th, "run", c)
  /\ UNCHANGED <<prog, rv, result, built, inners, queue, stopped, fired, got,
                 calls, runs, gone>>

InvokePool(th) ==
  LET c == pc[th].c IN
  /\ pc[th].op = "invoke"
  /\ prog.via[c] = "pool"
  /\ ~stopped
  /\ queue' = Append(queue, c)
  /\ Return(th)
  /\ UNCHANGED <<prog, rv, result, built, inners, stopped, fired, got, calls,
                 runs, gone>>

(* The contract whose promise the callback of c owns; for the getter, the  *)
(* awaiter and the fiber none.                                             *)
Target(c) == CASE c < N -> {c + 1} [] c \in {N, Fiber} -> {} [] OTHER -> {c - N}

(* the pool discards the callback: a UniqueCallback is deleted with its    *)
(* promise, CallbackBase::Discard of the getter and of the awaiter does    *)
(* nothing                                                                 *)
InvokeDiscarded(th) ==
  LET c == pc[th].c IN
  /\ pc[th].op = "invoke"
  /\ prog.via[c] = "pool"
  /\ stopped
  /\ gone' = gone \cup Target(c)
  /\ Return(th)
  /\ UNCHANGED <<prog, rv, result, built, inners, queue, stopped, fired, got,
                 calls, runs>>

WorkerTake(w) ==
  /\ pc[w] = Home
  /\ queue /= <<>>
  /\ Goto(w, "run", Head(queue))
  /\ queue' = Tail(queue)
  /\ UNCHANGED <<prog, rv, result, built, inners, stopped, fired, got, calls,
                 runs, gone>>

StopPool ==
  /\ MayStop
  /\ ~stopped
  /\ stopped' = TRUE
  /\ queue' = <<>>
  /\ gone' = gone \cup UNION {Target(queue[k]) : k \in 1..Len(queue)}
  /\ UNCHANGED <<prog, rv, result, pc, built, inners, fired, got, calls, runs>>

----------------------------------------------------------------------------
(* The callbacks *)

Running(th, c) == pc[th] = At("run", c)

CountRun(c) == runs' = [runs EXCEPT ![c] = @ + 1]

(* The callback of combinator i needs its continuation: Then for a value,  *)
(* Recover for an error.                                                   *)
Needs(i, r) == (prog.kind[i] = "recover") <=> (r = "err")

(* The result is passed on as it is *)
RunPass(th, i) ==
  /\ Running(th, i - 1)
  /\ ~Needs(i, result[i - 1])
  /\ CountRun(i - 1)
  /\ SetResult(th, i, result[i - 1])
  /\ UNCHANGED <<prog, built, inners, queue, stopped, fired, got, calls, gone>>

(* make_result::Invoke turns an exception into an error *)
Invoked(fun) == IF fun = "ok" THEN "ok" ELSE "err"

(* Then or Recover: the continuation returns a result.  Only the           *)
(* synchronous Then catches an exception of its continuation itself.       *)
RunContinuation(th, i) ==
  /\ Running(th, i - 1)
  /\ Needs(i, result[i - 1])
  /\ \/ prog.kind[i] = "then"
     \/ prog.kind[i] = "recover" /\ prog.fun[i] /= "throw"
  /\ CountRun(i - 1)
  /\ calls' = [calls EXCEPT ![i] = @ + 1]
  /\ SetResult(th, i, Invoked(prog.fun[i]))
  /\ UNCHANGED <<prog, built, inners, queue, stopped, fired, got, gone>>

(* a faulty RunFlat, for testing the properties *)
RunFlatDirect(th, i) ==
  /\ Running(th, i - 1)
  /\ prog.kind[i] = "flat"
  /\ Needs(i, result[i - 1])
  /\ prog.fun[i] /= "throw"
  /\ CountRun(i - 1)
  /\ calls' = [calls EXCEPT ![i] = @ + 1]
  /\ SetResult(th, i, "ok")
  /\ UNCHANGED <<prog, built, inners, queue, stopped, fired, got, gone>>

(* asynchronous Then: the continuation returns a future; subscribe to it.  *)
(* Its promise is in the hands of another thread from now on.              *)
RunFlat(th, i) ==
  /\ Running(th, i - 1)
  /\ prog.kind[i] = "flat"
  /\ Needs(i, result[i - 1])
  /\ prog.fun[i] /= "throw"
  /\ CountRun(i - 1)
  /\ calls' = [calls EXCEPT ![i] = @ + 1]
  /\ inners' = inners \cup {Inner(i)}
  /\ Goto(th, "subscribe", Inner(i))
  /\ UNCHANGED <<prog, rv, result, built, queue, stopped, fired, got, gone>>

Subscribe(th) ==
  /\ pc[th].op = "subscribe"
  /\ SetCallback(th, pc[th].c)
  /\ UNCHANGED <<prog, result, built, inners, queue, stopped, fired, got, calls,
                 runs, gone>>

(* the continuation throws: UniqueCallback::Invoke swallows the exception  *)
(* and deletes the callback with the promise it owns                       *)
RunThrow(th, i) ==
  /\ Running(th, i - 1)
  /\ Needs(i, result[i - 1])
  /\ prog.kind[i] /= "then"
  /\ prog.fun[i] = "throw"
  /\ CountRun(i - 1)
  /\ calls' = [calls EXCEPT ![i] = @ + 1]
  /\ gone' = gone \cup {i}
  /\ Return(th)
  /\ UNCHANGED <<prog, rv, result, built, inners, queue, stopped, fired, got>>

(* the future returned by the continuation is ready: forward its result *)
RunForward(th, i) ==
  /\ Running(th, Inner(i))
  /\ CountRun(Inner(i))
  /\ SetResult(th, i, result[Inner(i)])
  /\ UNCHANGED <<prog, built, inners, queue, stopped, fired, got, calls, gone>>

(* BlockingGetter::Invoke *)
RunGetter(th) ==
  /\ Running(th, N)
  /\ built = N + 1
  /\ CountRun(N)
  /\ fired' = TRUE
  /\ Return(th)
  /\ UNCHANGED <<prog, rv, result, built, inners, queue, stopped, got, calls,
                 gone>>

(* FutureAwaiter::Invoke: Resume schedules the fiber; a stopped pool       *)
(* destroys it                                                             *)
RunAwaiter(th) ==
  /\ Running(th, N)
  /\ built = N + 3
  /\ CountRun(N)
  /\ queue' = IF stopped THEN queue ELSE Append(queue, Fiber)
  /\ Return(th)
  /\ UNCHANGED <<prog, rv, result, built, inners, stopped, fired, got, calls,
                 gone>>

(* the fiber goes on: Await returns the result of the awaiter *)
RunFiber(th) ==
  /\ Running(th, Fiber)
  /\ got' = result[N]
  /\ Return(th)
  /\ UNCHANGED <<prog, rv, result, built, inners, queue, stopped, fired, calls,
                 runs, gone>>

----------------------------------------------------------------------------
CallbackStep(th) ==
  \/ InvokeInline(th) \/ InvokePool(th) \/ InvokeDiscarded(th)
  \/ Subscribe(th) \/ RunGetter(th) \/ RunAwaiter(th) \/ RunFiber(th)
  \/ \E i \in 1..N : \/ RunPass(th, i) \/ RunContinuation(th, i)
                     \/ RunFlat(th, i) \/ RunThrow(th, i) \/ RunForward(th, i)

BuilderStep ==
  Combine \/ GetSubscribe \/ GetWake \/ Poll \/ AwaitReady \/ AwaitSuspend

Next ==
  \/ SetSource \/ SetInner
  \/ BuilderStep
  \/ \E th \in AllThreads : CallbackStep(th)
  \/ \E w \in Workers : WorkerTake(w)
  \/ StopPool

Spec == Init /\ [][Next]_vars

(* The threads keep running and every promise given out is fulfilled. *)
Fairness ==
  /\ WF_vars(SetSource) /\ WF_vars(SetInner) /\ WF_vars(BuilderStep)
  /\ \A th \in AllThreads : WF_vars(CallbackStep(th))
  /\ \A w \in Workers : WF_vars(WorkerTake(w))

FairSpec == Spec /\ Fairness

----------------------------------------------------------------------------
(* Properties *)

States == {"Initial", "Consumer", "Producer", "Rendezvous"}

TypeOK ==
  /\ prog \in Programs
  /\ rv \in [Contracts -> States \cup {"Panic"}]
  /\ result \in [Contracts -> {"ok", "err", None}]
  /\ pc \in [AllThreads -> [op : {"home", "invoke", "run", "subscribe", "suspended"},
                          c : Contracts \cup {Fiber}]]
  /\ built \in 0..(N + 3)
  /\ inners \subseteq Contracts
  /\ queue \in Seq(Contracts \cup {Fiber})
  /\ stopped \in BOOLEAN
  /\ fired \in BOOLEAN
  /\ got \in {"ok", "err", None}
  /\ calls \in [1..N -> Nat]
  /\ runs \in [Contracts -> Nat]
  /\ gone \subseteq 1..N

(* The callback of c is on its way: it has been handed out by the party    *)
(* that came second                                                        *)
Pending(c) ==
  Cardinality({th \in AllThreads : pc[th] \in {At("invoke", c), At("run", c)}})
    + Cardinality({k \in 1..Len(queue) : queue[k] = c})

(* A callback runs at most once, after both the result and the callback    *)
(* are in place, and there is never a second copy of it on its way; no     *)
(* promise is set and no future consumed twice (Rendezvous would panic     *)
(* with "Unexpected state").  A fiber that awaits is scheduled only by the *)
(* run of its awaiter, and once.                                           *)
RunOnce ==
  /\ \A c \in Contracts :
       /\ rv[c] /= "Panic"
       /\ runs[c] + Pending(c) <= 1
       /\ runs[c] + Pending(c) = 1 => rv[c] = "Rendezvous" /\ result[c] /= None
  /\ Pending(Fiber) <= 1
  /\ Pending(Fiber) = 1 => runs[N] = 1 /\ got = None

Ready(c) == rv[c] \in {"Producer", "Rendezvous"}

(* What combinator i makes of the result r *)
Outcome(i, r) ==
  IF ~Needs(i, r) THEN r
  ELSE IF prog.kind[i] = "flat" THEN prog.inner
  ELSE Invoked(prog.fun[i])

(* Values and errors travel through the pipeline as Then and Recover       *)
(* promise: a contract that is ready has a predecessor that is ready, its  *)
(* result is what the combinator makes of it, and the continuation was     *)
(* called once if the combinator needs it and otherwise not at all.        *)
Propagation ==
  /\ Ready(0) => result[0] = prog.source
  /\ \A i \in 1..N :
       Ready(i) =>
         /\ Ready(i - 1)
         /\ result[i] = Outcome(i, result[i - 1])
         /\ calls[i] = IF Needs(i, result[i - 1]) THEN 1 ELSE 0
  /\ got /= None => Ready(N) /\ got = result[N]

(* The end of the pipeline, thread or fiber, gets a result, unless a       *)
(* promise was lost in an exception or the pool was stopped.               *)
Completes == <>(got /= None \/ gone /= {} \/ stopped)
=============================================================================
