----------------------------- MODULE Coroutines -----------------------------
(***************************************************************************)
(* coroutine/: stackful coroutines, and the Coroutine, Generator and       *)
(* Processor built on them, nested in every way on one thread.             *)
(*                                                                         *)
(* A frame is Main or the routine of an object.  CoroutineImpl keeps two   *)
(* contexts: context_ is where Resume switches to, external_ where Suspend *)
(* and the end of the routine switch to; a switch stores the frame that    *)
(* executes in one of them.  Which object a static Suspend, Send or        *)
(* Receive is about is told by a thread-local pointer alone.  A routine    *)
(* suspends only the object it is the routine of.                          *)
(*                                                                         *)
(* An exception that leaves a Resume is caught by the routine that called  *)
(* it or ends that routine too; Main catches all.  A Generator or          *)
(* Processor whose routine throws leaves its pointer behind, and a routine *)
(* that has caught the exception may then find an object that has ended,   *)
(* or is gone: what it does with that is not modelled.                     *)
(***************************************************************************)
EXTENDS Threads, Naturals, Sequences, FiniteSets

CONSTANTS
  Coro, Gen, Proc,     \* the objects of the three classes
  Main,
  MaxValues            \* bound: values sent in all

Objects == Coro \cup Gen \cup Proc
Frame == Objects \cup {Main}

ASSUME CoroutineAssumption ==
  /\ None \notin Frame /\ Main \notin Objects
  /\ Coro \cap (Gen \cup Proc) = {} /\ Gen \cap Proc = {}
  /\ MaxValues \in Nat

VARIABLES
  exec,                \* the frame that executes, None after a stale pointer was used
  context, external,   \* CoroutineImpl::context_ and external_
  completed, thrown,   \* objects with completed_, with an exception_
  current,             \* the thread-local pointers, by class
  busy,                \* the call in which a frame has switched away
  value, hasNext,      \* value_ and has_next_value_
  given, received      \* history: the number of values sent, the values received

switchVars == <<exec, context, external, completed, thrown>>
dataVars == <<value, hasNext, given, received>>
coroutineVars == <<switchVars, current, busy, dataVars>>

NoCall == [of |-> None, prev |-> None]

CoroutinesInit ==
  /\ exec = Main
  /\ context = [c \in Objects |-> c] /\ external = [c \in Objects |-> None]
  /\ completed = {} /\ thrown = {}
  /\ current = [k \in {"coroutine", "generator", "processor"} |-> None]
  /\ busy = [f \in Frame |-> NoCall]
  /\ value = [c \in Objects |-> 0] /\ hasNext = [c \in Objects |-> FALSE]
  /\ given = [c \in Objects |-> 0] /\ received = [c \in Objects |-> << >>]

Class(c) == IF c \in Coro THEN "coroutine"
            ELSE IF c \in Gen THEN "generator" ELSE "processor"

(* the executing frame is at a statement of its own *)
Free == exec /= None /\ busy[exec].of = None

(* the thread-local pointer is to an object that has not ended *)
Alive(k) == current[k] /= None /\ current[k] \notin thrown

Sendable ==
  Cardinality({x \in Objects \X (1..MaxValues) : x[2] <= given[x[1]]}) < MaxValues

(* c has been resumed and has not switched back *)
Active(c) == \E f \in Frame : busy[f].of = c /\ f /= c

----------------------------------------------------------------------------
(* CoroutineImpl *)

(* Resume, and the pointer of the class set to c before it *)
Resume(c) ==
  /\ Free
  /\ c \notin completed /\ ~Active(c) /\ exec /= c
  /\ current' = [current EXCEPT ![Class(c)] = c]
  /\ busy' = [busy EXCEPT ![exec] = [of |-> c, prev |-> current[Class(c)]]]
  /\ external' = [external EXCEPT ![c] = exec]
  /\ exec' = context[c]
  /\ UNCHANGED <<context, completed, thrown>>

Suspend(c) ==
  /\ context' = [context EXCEPT ![c] = exec]
  /\ exec' = external[c]
  /\ UNCHANGED <<external, completed, thrown, current>>

(* the end of Run: the routine of f returns, or throws *)
Exit(f, throws) ==
  /\ completed' = completed \cup {f}
  /\ thrown' = IF throws THEN thrown \cup {f} ELSE thrown
  /\ exec' = external[f]
  /\ UNCHANGED <<context, external>>

RoutineEnds ==
  /\ exec /= Main /\ Free
  /\ \E throws \in BOOLEAN : Exit(exec, throws)
  /\ UNCHANGED <<current, busy, dataVars>>

(* back from SwitchTo in the Resume of c, which is the call of exec *)
Back(c) ==
  /\ exec /= None /\ c /= None
  /\ busy[exec] = [of |-> c, prev |-> busy[exec].prev] /\ exec /= c

Restored(c) == [current EXCEPT ![Class(c)] = busy[exec].prev]
Done == busy' = [busy EXCEPT ![exec] = NoCall]

(* a faulty Unwound, for testing the properties *)
NotUnwound(c) == current

(* rethrow_exception: Defer restores the pointer of a Coroutine; a         *)
(* Generator or Processor leaves its own behind                            *)
Unwound(c) == IF c \in Coro THEN Restored(c) ELSE current

(* nobody in the routine catches it *)
Rethrow(c) ==
  /\ Back(c) /\ c \in thrown
  /\ current' = Unwound(c)
  /\ Done
  /\ exec /= Main /\ Exit(exec, TRUE)
  /\ UNCHANGED dataVars

(* the caller catches it and goes on *)
Catch(c) ==
  /\ Back(c) /\ c \in thrown
  /\ current' = Unwound(c)
  /\ Done
  /\ UNCHANGED <<switchVars, dataVars>>

(* A routine calls Suspend, Send or Receive and finds a stale pointer. *)
LosesWay ==
  /\ exec \in Objects /\ Free
  /\ ~Alive(Class(exec))
  /\ exec' = None
  /\ UNCHANGED <<context, external, completed, thrown, current, busy, dataVars>>

----------------------------------------------------------------------------
(* Coroutine *)

CoroutineResume(c) == Resume(c) /\ UNCHANGED dataVars

CoroutineSuspend ==
  /\ exec \in Coro /\ Free /\ Alive("coroutine")
  /\ Suspend(current["coroutine"])
  /\ UNCHANGED <<busy, dataVars>>

ResumeReturns(c) ==
  /\ c \in Coro /\ Back(c) /\ c \notin thrown
  /\ current' = Restored(c)
  /\ Done
  /\ UNCHANGED <<switchVars, dataVars>>

----------------------------------------------------------------------------
(* Generator *)

(* Receive: GenerateNextValue *)
GeneratorReceive(g) == Resume(g) /\ UNCHANGED dataVars

ReceiveReturns(g) ==
  /\ g \in Gen /\ Back(g) /\ g \notin thrown
  /\ current' = Restored(g)
  /\ Done
  /\ received' = IF g \in completed THEN received
                 ELSE [received EXCEPT ![g] = Append(@, value[g])]
  /\ UNCHANGED <<switchVars, value, hasNext, given>>

(* Send in a routine: SetValue of the current generator *)
GeneratorSend ==
  LET g == current["generator"] IN
  /\ exec \in Gen /\ Free /\ Sendable /\ Alive("generator")
  /\ given' = [given EXCEPT ![exec] = @ + 1]
  /\ value' = [value EXCEPT ![g] = given[exec] + 1]
  /\ Suspend(g)
  /\ UNCHANGED <<busy, hasNext, received>>

----------------------------------------------------------------------------
(* Processor *)

(* Send, or Close with nullopt: SetValue *)
ProcessorSend(p) ==
  /\ Sendable
  /\ Resume(p)
  /\ given' = [given EXCEPT ![p] = @ + 1]
  /\ value' = [value EXCEPT ![p] = given[p] + 1]
  /\ hasNext' = [hasNext EXCEPT ![p] = TRUE]
  /\ UNCHANGED received

SendReturns(p) ==
  /\ p \in Proc /\ Back(p) /\ p \notin thrown
  /\ current' = Restored(p)
  /\ Done
  /\ UNCHANGED <<switchVars, dataVars>>

(* Receive in a routine: GetCurrentProcessor *)
ProcessorReceive ==
  /\ exec \in Proc /\ Free /\ Alive("processor")
  /\ busy' = [busy EXCEPT ![exec] = [NoCall EXCEPT !.of = current["processor"]]]
  /\ UNCHANGED <<switchVars, current, dataVars>>

(* while (!processor->HasNext()) processor->Suspend(); *)
Receiving(p) == exec \in Proc /\ busy[exec].of = p /\ p = exec

ReceiveLoop(p) ==
  /\ Receiving(p) /\ ~hasNext[p]
  /\ Suspend(p)
  /\ UNCHANGED <<busy, dataVars>>

(* a faulty TakeValue, for testing the properties *)
TakeValueAgain(p) ==
  /\ Receiving(p) /\ hasNext[p]
  /\ received' = [received EXCEPT ![p] = Append(@, value[p])]
  /\ Done
  /\ UNCHANGED <<switchVars, current, value, hasNext, given>>

TakeValue(p) ==
  /\ Receiving(p) /\ hasNext[p]
  /\ received' = [received EXCEPT ![p] = Append(@, value[p])]
  /\ hasNext' = [hasNext EXCEPT ![p] = FALSE]
  /\ Done
  /\ UNCHANGED <<switchVars, current, value, given>>

----------------------------------------------------------------------------
(* Main stops when it likes. *)
MainEnds == exec = Main /\ Free /\ UNCHANGED coroutineVars

Lost == exec = None /\ UNCHANGED coroutineVars

CoroutinesNext ==
  \/ \E c \in Coro : CoroutineResume(c) \/ ResumeReturns(c)
  \/ \E g \in Gen : GeneratorReceive(g) \/ ReceiveReturns(g)
  \/ \E p \in Proc : \/ ProcessorSend(p) \/ SendReturns(p)
                     \/ ReceiveLoop(p) \/ TakeValue(p)
  \/ CoroutineSuspend \/ GeneratorSend \/ ProcessorReceive \/ RoutineEnds
  \/ \E c \in Objects : Rethrow(c) \/ Catch(c)
  \/ LosesWay \/ Lost \/ MainEnds

CoroutinesSpec == CoroutinesInit /\ [][CoroutinesNext]_coroutineVars

----------------------------------------------------------------------------
(* Properties *)

(* what a throwing Generator or Processor may have left in the pointer *)
Stale(k) == IF k = "coroutine" THEN {} ELSE {c \in thrown : Class(c) = k}

(* The thread-local pointer of its class names the routine that executes,  *)
(* at any depth of nesting and whoever throws or catches there, and Main   *)
(* finds the pointers clear again: always so for Coroutine, whose Resume   *)
(* restores the pointer on every way out; for Generator and Processor or   *)
(* else the pointer names one of their class whose routine has thrown, so  *)
(* that no Send or Receive reaches another routine that is still alive.    *)
(* Switches go to live frames only.                                        *)
PointersFollow ==
  /\ exec \notin completed
  /\ exec \in Objects /\ busy[exec].of \in {None, exec} =>
       current[Class(exec)] \in {exec} \cup Stale(Class(exec))
  /\ exec = Main /\ Free => \A k \in DOMAIN current : current[k] \in {None} \cup Stale(k)

(* The pointer that GetCurrentProcessor verifies, "Not a processor         *)
(* context", is set in the routines of processors, to their own, and null  *)
(* in Main.                                                                *)
ProcessorContext ==
  /\ exec \in Proc /\ Free => current["processor"] = exec
  /\ exec = Main /\ Free => current["processor"] = None

(* Values pass one at a time: the next one is sent only when the previous  *)
(* one has been received, so none is lost, repeated or overtaken.          *)
Delivery ==
  \A c \in Gen \cup Proc :
    /\ \A i \in DOMAIN received[c] : received[c][i] = i
    /\ c \notin completed => Len(received[c]) \in {given[c] - 1, given[c]}
=============================================================================
