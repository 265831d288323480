--------------------------- MODULE FiberWaitGroup ---------------------------
(***************************************************************************)
(* fibers/sync/wait_group.h over fibers/sync/oneshotevent.h: doers call    *)
(* Done, the last of them fires the event; waiters call Wait.              *)
(*                                                                         *)
(* The word state_ of the event is NoWaiters, Signaled, or the address of  *)
(* the newest EventAwaiter of a list.  An awaiter lives on the stack of    *)
(* its fiber and is named by it.                                           *)
(*                                                                         *)
(* The program around the wait group, its parent, adds every doer before   *)
(* it starts it, and all of them before it starts a waiter.  With AddFirst *)
(* it makes all the calls of Add before it starts the first doer.          *)
(***************************************************************************)
EXTENDS Fibers

CONSTANTS
  Doers,          \* the fibers that call Done; the others call Wait
  AddFirst

ASSUME WaitGroupAssumption ==
  /\ Doers \subseteq Fiber
  /\ AddFirst \in BOOLEAN
  /\ (Fiber \cup {None}) \cap {"NoWaiters", "Signaled"} = {}

VARIABLES
  counter,        \* WaitGroup::counter_
  signaled,       \* state_ of the event is Signaled
  listed,         \* the nodes linked from state_, newest first
  seen,           \* the value of state_ loaded by TryEnqueue for a fiber
  firing,         \* the local list of a fiber inside Fire
  added           \* the doers for which Add was called

evars == <<signaled, listed>>
groupVars == <<fvars, counter, evars, seen, firing, added>>

GroupInit ==
  /\ FInit
  /\ counter = 0
  /\ signaled = FALSE
  /\ listed = <<>>
  /\ seen = [f \in Fiber |-> None]
  /\ firing = [f \in Fiber |-> <<>>]
  /\ added = {}

(* state_, as load and compare_exchange see it *)
EventWord ==
  IF signaled THEN "Signaled"
  ELSE IF listed = <<>> THEN "NoWaiters"
  ELSE Head(listed)

----------------------------------------------------------------------------
(* The parent *)

Add(d) ==
  /\ d \notin added
  /\ added' = added \cup {d}
  /\ counter' = counter + 1
  /\ UNCHANGED <<fvars, evars, seen, firing>>

GroupGo(f) ==
  /\ f \in Doers => f \in added
  /\ (f \notin Doers \/ AddFirst) => added = Doers
  /\ Go(f)
  /\ UNCHANGED <<counter, evars, seen, firing, added>>

GroupRun(w) == Run(w) /\ UNCHANGED <<counter, evars, seen, firing, added>>

GroupFinish(w, f) ==
  /\ InFiber(w, f, "waited") \/ InFiber(w, f, "did")
  /\ Complete(w, f)
  /\ UNCHANGED <<counter, evars, seen, firing, added>>

----------------------------------------------------------------------------
(* WaitGroup::Done and OneShotEvent::Fire *)

(* a faulty Done, for testing the properties *)
DoneEarly(w, f) ==
  /\ f \in Doers
  /\ InFiber(w, f, "body")
  /\ counter' = counter - 1
  /\ Continue(w, f, IF counter = 2 THEN "fire" ELSE "did")
  /\ UNCHANGED <<evars, seen, firing, added>>

Done(w, f) ==
  /\ f \in Doers
  /\ InFiber(w, f, "body")
  /\ counter' = counter - 1
  /\ Continue(w, f, IF counter = 1 THEN "fire" ELSE "did")
  /\ UNCHANGED <<evars, seen, firing, added>>

(* compare_exchange from NoWaiters to Signaled, or nothing to do *)
FireFast(w, f) ==
  /\ InFiber(w, f, "fire")
  /\ EventWord \in {"NoWaiters", "Signaled"}
  /\ signaled' = TRUE
  /\ Continue(w, f, "did")
  /\ UNCHANGED <<counter, listed, seen, firing, added>>

(* the compare_exchange found a waiter *)
FireSlow(w, f) ==
  /\ InFiber(w, f, "fire")
  /\ EventWord \notin {"NoWaiters", "Signaled"}
  /\ Continue(w, f, "take")
  /\ UNCHANGED <<counter, evars, seen, firing, added>>

(* a faulty FireTake, for testing the properties *)
FireTakeOldest(w, f) ==
  /\ InFiber(w, f, "take")
  /\ firing' = [firing EXCEPT ![f] = <<listed[Len(listed)]>>]
  /\ listed' = <<>>
  /\ signaled' = TRUE
  /\ Continue(w, f, "wake")
  /\ UNCHANGED <<counter, seen, added>>

(* exchange(Signaled) and CreateWaiterList *)
FireTake(w, f) ==
  /\ InFiber(w, f, "take")
  /\ firing' = [firing EXCEPT ![f] = listed]
  /\ listed' = <<>>
  /\ signaled' = TRUE
  /\ Continue(w, f, "wake")
  /\ UNCHANGED <<counter, seen, added>>

(* PopFront, then Schedule: the awaiter is gone once its fiber runs *)
FireWake(w, f) ==
  /\ InFiber(w, f, "wake")
  /\ firing[f] /= <<>>
  /\ Schedule(Head(firing[f]))
  /\ firing' = [firing EXCEPT ![f] = Tail(@)]
  /\ UNCHANGED <<pc, stopped, at, this, counter, evars, seen, added>>

FireEnd(w, f) ==
  /\ InFiber(w, f, "wake")
  /\ firing[f] = <<>>
  /\ Continue(w, f, "did")
  /\ UNCHANGED <<counter, evars, seen, firing, added>>

----------------------------------------------------------------------------
(* OneShotEvent::WaitAsync, and TryEnqueue after the fiber switched out *)

WaitReady(w, f) ==
  /\ f \notin Doers
  /\ InFiber(w, f, "body")
  /\ signaled
  /\ Continue(w, f, "waited")
  /\ UNCHANGED <<counter, evars, seen, firing, added>>

WaitSuspend(w, f) ==
  /\ f \notin Doers
  /\ InFiber(w, f, "body")
  /\ ~signaled
  /\ Suspend(w, f, "wait")
  /\ UNCHANGED <<counter, evars, seen, firing, added>>

TryEnqueueLoad(w, f) ==
  /\ InAwaiter(w, f, "wait")
  /\ seen[f] = None
  /\ seen' = [seen EXCEPT ![f] = EventWord]
  /\ UNCHANGED <<fvars, counter, evars, firing, added>>

(* Signaled: do not suspend after all *)
TryEnqueueSignaled(w, f) ==
  /\ InAwaiter(w, f, "wait")
  /\ seen[f] = "Signaled"
  /\ seen' = [seen EXCEPT ![f] = None]
  /\ ReturnNext(w, f)
  /\ UNCHANGED <<counter, evars, firing, added>>

(* a faulty TryEnqueueCas, for testing the properties *)
TryEnqueueUnchecked(w, f) ==
  /\ InAwaiter(w, f, "wait")
  /\ seen[f] \notin {None, "Signaled"}
  /\ seen' = [seen EXCEPT ![f] = None]
  /\ listed' = <<f>> \o listed /\ ReturnInvalid(w)
  /\ UNCHANGED <<counter, signaled, firing, added>>

TryEnqueueCas(w, f) ==
  /\ InAwaiter(w, f, "wait")
  /\ seen[f] \notin {None, "Signaled"}
  /\ seen' = [seen EXCEPT ![f] = None]
  /\ IF EventWord = seen[f] THEN listed' = <<f>> \o listed /\ ReturnInvalid(w)
                       ELSE UNCHANGED <<fvars, listed>>
  /\ UNCHANGED <<counter, signaled, firing, added>>

WaitReturn(w, f) ==
  /\ InFiber(w, f, "wait")
  /\ Continue(w, f, "waited")
  /\ UNCHANGED <<counter, evars, seen, firing, added>>

----------------------------------------------------------------------------
(* All fibers have ended: the only way in which the system may stop. *)
GroupQuiescent ==
  /\ \A f \in Fiber : pc[f] = "finished"
  /\ UNCHANGED groupVars

DoneStep(w, f) ==
  \/ Done(w, f) \/ FireFast(w, f) \/ FireSlow(w, f) \/ FireTake(w, f)
  \/ FireWake(w, f) \/ FireEnd(w, f)

WaitStep(w, f) ==
  \/ WaitReady(w, f) \/ WaitSuspend(w, f) \/ TryEnqueueLoad(w, f)
  \/ TryEnqueueSignaled(w, f) \/ TryEnqueueCas(w, f) \/ WaitReturn(w, f)

GroupWorker(w) ==
  \/ GroupRun(w)
  \/ \E f \in Fiber : DoneStep(w, f) \/ WaitStep(w, f) \/ GroupFinish(w, f)

ParentStep == (\E d \in Doers : Add(d)) \/ (\E f \in Fiber : GroupGo(f))

GroupNext ==
  \/ ParentStep
  \/ \E w \in Workers : GroupWorker(w)
  \/ GroupQuiescent

GroupSpec == GroupInit /\ [][GroupNext]_groupVars

(* The workers keep running, and the parent starts all its fibers. *)
GroupFairness ==
  /\ \A w \in Workers : WF_groupVars(GroupWorker(w))
  /\ WF_groupVars(ParentStep)

GroupFairSpec == GroupSpec /\ GroupFairness

----------------------------------------------------------------------------
(* Properties *)

GroupTypeOK ==
  /\ FTypeOK
  /\ pc \in [Fiber -> {"new", "body", "fire", "take", "wake", "did", "wait",
                       "waited", "finished"}]
  /\ counter \in Nat
  /\ signaled \in BOOLEAN
  /\ listed \in Seq(Fiber)
  /\ seen \in [Fiber -> Fiber \cup {None, "NoWaiters", "Signaled"}]
  /\ firing \in [Fiber -> Seq(Fiber)]
  /\ added \subseteq Doers

GroupMember(f, s) == \E i \in 1..Len(s) : s[i] = f

(* No waiter is lost and none is woken twice: a fiber inside Wait is in    *)
(* exactly one of these places: TryEnqueue still runs, it is linked from   *)
(* state_, Fire is about to wake it, or it is scheduled or running again.  *)
NoLostWaiter ==
  \A f \in Fiber :
    LET places == << \E w \in Workers : InAwaiter(w, f, "wait"),
                     GroupMember(f, listed) /\ ~signaled,
                     \E d \in Doers : GroupMember(f, firing[d]),
                     state[f] \in {"Queued", "Running"} >>
    IN pc[f] = "wait" =>
         \E i \in 1..4 : places[i] /\ \A j \in 1..4 : places[j] => j = i

(* Wait returns only after every Done that was announced by Add, and from  *)
(* then on no Done and no Fire touches the wait group: the parent may      *)
(* destroy it, and whatever the doers use, as soon as its Wait returns.    *)
WaitCovers ==
  \A f \in Fiber \ Doers :
    pc[f] \in {"waited", "finished"} =>
      \A d \in Doers : pc[d] \in {"wake", "did", "finished"}

(* Every Wait returns: a waiter that races Fire is woken or sees Signaled. *)
WaitReturns ==
  \A f \in Fiber \ Doers : (pc[f] = "body") ~> (pc[f] = "waited")
=============================================================================
