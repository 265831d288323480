----------------------------- MODULE Stackless -----------------------------
(***************************************************************************)
(* coroutine/stackless: C++ coroutines on a thread pool.                   *)
(*                                                                         *)
(* A coroutine is resumed on the stack of the thread that calls resume(),  *)
(* and that call returns when the coroutine suspends or ends: every thread *)
(* has a stack of coroutines, of which the last one executes.  A frame     *)
(* that is destroyed while suspended runs the destructors of its locals on *)
(* the stack of the thread that destroys it.                               *)
(*                                                                         *)
(* Of the pool (executors/thread_pool.cpp) this module keeps the queue and *)
(* that Stop discards what is queued while it holds the queue's mutex; the *)
(* thread Main submits and stops, the Workers run.                         *)
(***************************************************************************)
EXTENDS Naturals, SequencesExt

CONSTANTS Coroutine, Workers, Main

ASSUME StacklessAssumption == Main \notin Workers

VARIABLES
  pc,             \* where the body of a coroutine is
  doomed,         \* the frames that are being destroyed
  stack,          \* per thread, the coroutines it is executing, nested
  runq,           \* the dispatched coroutines in the queue of the pool
  stage           \* of the pool: "running", "closing", "joining", "stopped"

rvars == <<pc, doomed, stack, runq, stage>>

Thread == Workers \cup {Main}

RInit ==
  /\ pc = [c \in Coroutine |-> "new"]
  /\ doomed = {}
  /\ stack = [t \in Thread |-> <<>>]
  /\ runq = <<>>
  /\ stage = "running"

(* the coroutine that t executes, if any; those below it are inside a      *)
(* call of resume()                                                        *)
Executing(t) == IF stack[t] = <<>> THEN {} ELSE {Last(stack[t])}

Goto(c, label) == pc' = [pc EXCEPT ![c] = label]

Continue(c, label) ==
  Goto(c, label) /\ UNCHANGED <<doomed, stack, runq, stage>>

(* c suspends: resume() returns to what the thread was doing before *)
Suspend(t, c, label) ==
  /\ Goto(c, label)
  /\ stack' = [stack EXCEPT ![t] = Front(@)]
  /\ UNCHANGED <<doomed, runq, stage>>

(* handle.resume() in c: next goes on, c goes on at label when it returns *)
Resume(t, c, label, next, entry) ==
  /\ pc' = [pc EXCEPT ![c] = label, ![next] = entry]
  /\ stack' = [stack EXCEPT ![t] = Append(@, next)]
  /\ UNCHANGED <<doomed, runq, stage>>

(* The body has ended or the frame is unwound.  final_suspend never        *)
(* suspends, so the frame is freed in either case.                         *)
EndFrame(t, c) ==
  /\ Goto(c, IF c \in doomed THEN "destroyed" ELSE "finished")
  /\ doomed' = doomed \ {c}
  /\ stack' = [stack EXCEPT ![t] = Front(@)]
  /\ UNCHANGED <<runq, stage>>

(* co_await DispatchTo(pool): Execute, and Discard if the pool is closed.  *)
(* Put needs the queue's mutex, which Stop holds while it is closing.      *)
Dispatch(t, c, label, unwind) ==
  /\ stage /= "closing"
  /\ IF stage = "running"
       THEN /\ runq' = Append(runq, c)
            /\ stack' = [stack EXCEPT ![t] = Front(@)]
            /\ Goto(c, label)
            /\ UNCHANGED doomed
       ELSE /\ doomed' = doomed \cup {c}
            /\ Goto(c, unwind)
            /\ UNCHANGED <<stack, runq>>
  /\ UNCHANGED stage

(* FireAndForget(coroutine()) in Main: the Task gives up its handle before *)
(* it is destroyed, and the body runs as far as its first DispatchTo       *)
FireAndForget(c) ==
  /\ pc[c] = "new"
  /\ stage = "running" /\ stack[Main] = <<>>
  /\ runq' = Append(runq, c)
  /\ Goto(c, "body")
  /\ UNCHANGED <<doomed, stack, stage>>

(* a worker takes the next task: DispatchAwaiter::Run *)
RunNext(w) ==
  /\ stack[w] = <<>> /\ runq /= <<>>
  /\ stage /= "closing"
  /\ stack' = [stack EXCEPT ![w] = <<Head(runq)>>]
  /\ runq' = Tail(runq)
  /\ UNCHANGED <<pc, doomed, stage>>

----------------------------------------------------------------------------
(* ThreadPool::Stop, with DispatchAwaiter::Discard as the disposer *)

StopCall ==
  /\ stage = "running" /\ stack[Main] = <<>>
  /\ stage' = "closing"
  /\ UNCHANGED <<pc, doomed, stack, runq>>

StopDiscard(c, unwind) ==
  /\ stage = "closing" /\ stack[Main] = <<>> /\ runq /= <<>>
  /\ c = Head(runq)
  /\ runq' = Tail(runq)
  /\ doomed' = doomed \cup {c}
  /\ Goto(c, unwind)
  /\ stack' = [stack EXCEPT ![Main] = <<c>>]
  /\ UNCHANGED stage

StopClose ==
  /\ stage = "closing" /\ stack[Main] = <<>> /\ runq = <<>>
  /\ stage' = "joining"
  /\ UNCHANGED <<pc, doomed, stack, runq>>

StopJoin ==
  /\ stage = "joining"
  /\ \A w \in Workers : stack[w] = <<>>
  /\ stage' = "stopped"
  /\ UNCHANGED <<pc, doomed, stack, runq>>

----------------------------------------------------------------------------
(* A coroutine executes in one place: it is on one stack, once, and is not *)
(* queued meanwhile.                                                       *)
OneActivation ==
  /\ \A t \in Thread : IsInjective(stack[t])
  /\ \A t, u \in Thread :
       t /= u => ToSet(stack[t]) \cap ToSet(stack[u]) = {}
  /\ \A t \in Thread : ToSet(stack[t]) \cap ToSet(runq) = {}
=============================================================================
