------------------------------ MODULE Handoff ------------------------------
(***************************************************************************)
(* The thread primitives and the reference-counted pointers together.      *)
(*                                                                         *)
(* The parent creates an object, hands a Ref to every thread it starts,    *)
(* and all of them copy, move, assign and drop their Refs as they like.    *)
(* They meet at a barrier.  Then a producer makes shared objects and puts  *)
(* SharedPtrs into a queue, consumers take them, and the parent, when the  *)
(* producer has fired an event, closes the queue.  They meet at the same   *)
(* barrier again.                                                          *)
(***************************************************************************)
EXTENDS Ref, SharedPtr, CyclicBarrier, UnboundedBlockingQueue, SequencesExt

CONSTANTS
  Parent, Producer, Consumer, \* two threads and a set of threads
  MaxPuts                     \* bound: the calls of Put

ASSUME HandoffAssumption ==
  /\ Participant = {Parent, Producer} \cup Consumer
  /\ Parent /= Producer /\ {Parent, Producer} \cap Consumer = {}
  /\ IsFiniteSet(Consumer) /\ IsFiniteSet(RefSlot) /\ IsFiniteSet(Slot)
  /\ \A s \in RefSlot \cup Slot : s[1] \in Participant
  /\ MaxPuts \in Nat

VARIABLES
  stage,          \* per thread: "new", "refs", "first" (barrier), "work",
                  \* "item" (has taken one), "second" (barrier), "end"
  leaving,        \* the threads that destroy the locals of a scope
  fired, waiting, \* OneShotEvent: fired_, and whether the parent waits
  puts

programVars == <<stage, leaving, fired, waiting, puts>>
handoffVars == <<refVars, sharedVars, barrierVars, queueVars, programVars>>

HandoffInit ==
  /\ RefInit /\ SharedInit /\ BarrierInit /\ QueueInit
  /\ stage = [t \in Participant |-> IF t = Parent THEN "refs" ELSE "new"]
  /\ leaving = {}
  /\ fired = FALSE /\ waiting = FALSE
  /\ puts = 0

RefOf(t) == {s \in RefSlot : s[1] = t}
SlotOf(t) == {s \in Slot : s[1] = t}

(* what ends the work of a thread: for a consumer, that Take has returned  *)
(* nullopt                                                                 *)
WorkOver(t) ==
  CASE t = Parent -> closed
    [] t = Producer -> fired
    [] OTHER -> TakeClosed(t)

(* t leaves its scope, all locals destroyed *)
Scope(t, s) == stage[t] = s /\ t \notin leaving
Emptied(t, s) ==
  /\ stage[t] = s /\ t \in leaving
  /\ \A r \in RefOf(t) : ref[r] = None
  /\ \A u \in SlotOf(t) : cb[u] = None
Enter(t, s) == stage' = [stage EXCEPT ![t] = s] /\ leaving' = leaving \ {t}

Leave(t) ==
  /\ stage[t] \in {"refs", "item"} \/ (stage[t] = "work" /\ WorkOver(t))
  /\ t = Parent => \A u \in Participant : stage[u] /= "new"
  /\ t \notin leaving
  /\ leaving' = leaving \cup {t}
  /\ UNCHANGED <<refVars, sharedVars, barrierVars, queueVars, stage, fired,
                 waiting, puts>>

(* a destructor *)
Destroy(t) ==
  /\ t \in leaving
  /\ \/ UNCHANGED sharedVars /\ \E s \in RefOf(t) : ResetRef(s)
     \/ UNCHANGED refVars /\ \E s \in SlotOf(t) : ResetShared(s)
  /\ UNCHANGED <<barrierVars, queueVars, programVars>>

----------------------------------------------------------------------------
(* Before the barrier *)

(* std::thread copies the Ref of the parent for the new thread *)
Spawn(t) ==
  /\ Scope(Parent, "refs") /\ stage[t] = "new"
  /\ \E s \in RefOf(Parent), r \in RefOf(t) : CopyRef(r, s)
  /\ Enter(t, "refs")
  /\ UNCHANGED <<sharedVars, barrierVars, queueVars, fired, waiting, puts>>

LocalRef(t) ==
  /\ Scope(t, "refs")
  /\ \E s, r \in RefOf(t) :
       \/ t = Parent /\ New(s)
       \/ ref[r] /= None /\ (CopyRef(s, r) \/ AssignRef(s, r))
       \/ MoveRef(s, r) \/ MoveAssignRef(s, r) \/ ResetRef(s)
  /\ UNCHANGED <<sharedVars, barrierVars, queueVars, programVars>>

ArriveFirst(t) ==
  /\ Emptied(t, "refs")
  /\ Enter(t, "first")
  /\ Arrive(t)
  /\ UNCHANGED <<refVars, sharedVars, queueVars, fired, waiting, puts>>

----------------------------------------------------------------------------
(* Between the crossings *)

LocalShared(t) ==
  /\ Scope(t, IF t = Producer THEN "work" ELSE "item")
  /\ \E s, u \in SlotOf(t) :
       \/ t = Producer /\ MakeShared(s)
       \/ cb[u] /= None /\ (CopyShared(s, u) \/ AssignShared(s, u))
       \/ s /= u /\ MoveShared(s, u)
       \/ ResetShared(s)
  /\ UNCHANGED <<refVars, barrierVars, queueVars, programVars>>

(* Put(std::move(s)); a closed queue destroys the argument *)
Produce ==
  /\ Scope(Producer, "work") /\ puts < MaxPuts
  /\ \E s \in SlotOf(Producer) :
       /\ cb[s] /= None
       /\ \/ Put(cb[s]) /\ Set(s, None) /\ UNCHANGED <<global, blocks>>
          \/ PutClosed /\ ResetShared(s)
  /\ puts' = puts + 1
  /\ UNCHANGED <<refVars, barrierVars, stage, leaving, fired, waiting>>

Consume(t) ==
  /\ Scope(t, "work")
  /\ TakeItem(t)
  /\ \E s \in SlotOf(t) : Set(s, Head(buffer))
  /\ Enter(t, "item")
  /\ UNCHANGED <<global, blocks, refVars, barrierVars, fired, waiting, puts>>

NextItem(t) ==
  /\ Emptied(t, "item")
  /\ Enter(t, "work")
  /\ UNCHANGED <<refVars, sharedVars, barrierVars, queueVars, fired, waiting,
                 puts>>

ConsumeWait(t) ==
  /\ Scope(t, "work")
  /\ TakeWait(t)
  /\ UNCHANGED <<sharedVars, refVars, barrierVars, programVars>>

(* OneShotEvent::Fire *)
Fire ==
  /\ stage[Producer] = "work" /\ ~fired
  /\ fired' = TRUE /\ waiting' = FALSE
  /\ UNCHANGED <<sharedVars, refVars, barrierVars, queueVars, stage, leaving, puts>>

(* OneShotEvent::Wait *)
EventWait ==
  /\ stage[Parent] = "work" /\ ~fired /\ ~waiting
  /\ waiting' = TRUE
  /\ UNCHANGED <<sharedVars, refVars, barrierVars, queueVars, stage, leaving, fired, puts>>

(* Close or Shutdown: the SharedPtrs in the buffer are destroyed *)
CloseQueue ==
  /\ stage[Parent] = "work" /\ fired /\ ~waiting /\ ~closed
  /\ Shut
  /\ global' = [b \in Block |->
       global[b] - Cardinality({i \in DOMAIN buffer : buffer[i] = b})]
  /\ blocks' = {b \in blocks : global'[b] /= 0}
  /\ UNCHANGED <<cb, refVars, barrierVars, programVars>>

ArriveSecond(t) ==
  /\ Emptied(t, "work")
  /\ Enter(t, "second")
  /\ Arrive(t)
  /\ UNCHANGED <<refVars, sharedVars, queueVars, fired, waiting, puts>>

----------------------------------------------------------------------------
Cross(t) ==
  /\ Recheck(t)
  /\ IF t \in atBarrier'
       THEN UNCHANGED <<stage, leaving>>
       ELSE Enter(t, IF stage[t] = "first" THEN "work" ELSE "end")
  /\ UNCHANGED <<refVars, sharedVars, queueVars, fired, waiting, puts>>

(* a condition variable may wake a thread without reason *)
Spurious(t) ==
  /\ \/ SpuriousWakeup(t) /\ UNCHANGED <<queueVars, waiting>>
     \/ SpuriousTake(t) /\ UNCHANGED <<barrierVars, waiting>>
     \/ t = Parent /\ waiting /\ waiting' = FALSE
        /\ UNCHANGED <<barrierVars, queueVars>>
  /\ UNCHANGED <<refVars, sharedVars, stage, leaving, fired, puts>>

Finished == (\A t \in Participant : stage[t] = "end") /\ UNCHANGED handoffVars

(* what a thread does in its own time, and what it must do *)
LocalStep(t) == LocalRef(t) \/ LocalShared(t)

Progress(t) ==
  \/ t \in Consumer /\ (Consume(t) \/ ConsumeWait(t) \/ NextItem(t))
  \/ t = Parent /\ (EventWait \/ CloseQueue \/ \E u \in Participant : Spawn(u))
  \/ t = Producer /\ Fire
  \/ Leave(t) \/ Destroy(t) \/ ArriveFirst(t) \/ ArriveSecond(t) \/ Cross(t)

HandoffNext ==
  \/ \E t \in Participant : LocalStep(t) \/ Progress(t) \/ Spurious(t)
  \/ Produce
  \/ Finished

HandoffSpec == HandoffInit /\ [][HandoffNext]_handoffVars

(* Threads keep running; a scope is left at some time, and what the        *)
(* program does on the way to its end is done.                             *)
HandoffFairness == \A t \in Participant : WF_handoffVars(Progress(t))

HandoffFairSpec == HandoffSpec /\ HandoffFairness

----------------------------------------------------------------------------
(* Properties *)

(* Exactly the objects that some Ref, some SharedPtr or the queue refers   *)
(* to exist: none is deleted while a thread can reach it, whatever is      *)
(* copied, moved, assigned to itself or thrown away by Close, and none is  *)
(* forgotten.                                                              *)
PointersExact == RefsExact /\ SharedExact(ToSet(buffer))

(* Nobody passes a crossing of the barrier before everybody has arrived at *)
(* it, although the fast threads arrive at the second crossing while slow  *)
(* ones have yet to see that the first is over.                            *)
BarrierSeparates ==
  /\ (\E t \in Participant : stage[t] \in {"work", "item", "second", "end"})
       => alive = {} /\ \A t \in Participant : stage[t] \notin {"new", "refs"}
  /\ (\E t \in Participant : stage[t] = "end")
       => blocks = {} /\ \A t \in Participant : stage[t] \in {"second", "end"}

(* Every thread comes to its end: no wake-up of the barrier, the queue or  *)
(* the event is lost.                                                      *)
Terminates == <>(\A t \in Participant : stage[t] = "end")
=============================================================================
