--------------------------- MODULE StacklessSync ---------------------------
(***************************************************************************)
(* coroutine/stackless/sync: Mutex, OneShotEvent and WaitGroup, used as in *)
(* their tests.  Contenders dispatch themselves to the pool, lock the      *)
(* mutex, perhaps yield with it locked, unlock and call Done; the other    *)
(* coroutines wait for the group.                                          *)
(*                                                                         *)
(* Unlock and Fire resume a waiter in place, on the stack of the thread    *)
(* that unlocks or fires.  A Locker or EventAwaiter lives in the frame of  *)
(* its coroutine and is named by it; a state_ word is one of the named     *)
(* states or the newest awaiter of a list.                                 *)
(***************************************************************************)
EXTENDS Stackless, FiniteSets

CONSTANTS
  None,
  Contenders,     \* lock, unlock, Done; the others wait for the group
  Yielders,       \* the contenders that yield inside the critical section
  MayStop         \* whether Main calls Stop

ASSUME SyncAssumption ==
  /\ Yielders \subseteq Contenders /\ Contenders \subseteq Coroutine
  /\ MayStop \in BOOLEAN
  /\ IsFiniteSet(Contenders)
  /\ None \notin Coroutine
  /\ (Coroutine \cup {None}) \cap
       {"Unlocked", "LockedNoWaiters", "NoWaiters", "Signaled"} = {}

VARIABLES
  locked, listed, \* Mutex::state_: whether locked, and the list, newest first
  waiters,        \* Mutex::waiters_
  seen,           \* the value of a state_ word loaded for a coroutine
  counter,        \* WaitGroup::counter_
  signaled, queued, \* OneShotEvent::state_: Signaled, or the list
  firing          \* the local list of a coroutine inside Fire

mvars == <<locked, listed, waiters>>
evars == <<counter, signaled, queued, firing>>
vars == <<rvars, mvars, seen, evars>>

Init ==
  /\ RInit
  /\ locked = FALSE /\ listed = <<>> /\ waiters = <<>>
  /\ seen = [c \in Coroutine |-> None]
  /\ counter = 0 /\ signaled = FALSE /\ queued = <<>>
  /\ firing = [c \in Coroutine |-> <<>>]

Load(c, word) == seen' = [seen EXCEPT ![c] = word]
Retry(c) == Load(c, None)

Word == IF ~locked THEN "Unlocked"
        ELSE IF listed = <<>> THEN "LockedNoWaiters" ELSE Head(listed)

EventWord == IF signaled THEN "Signaled"
             ELSE IF queued = <<>> THEN "NoWaiters" ELSE Head(queued)

----------------------------------------------------------------------------
(* co_await mutex.ScopedLock(): await_ready, await_suspend *)

TryLock(t, c) ==
  /\ c \in Contenders
  /\ pc[c] = "body"
  /\ locked' = TRUE
  /\ Continue(c, IF locked THEN "enqueue" ELSE "locked")
  /\ UNCHANGED <<listed, waiters, seen, evars>>

EnqueueLoad(t, c) ==
  /\ pc[c] = "enqueue" /\ seen[c] = None
  /\ Load(c, Word)
  /\ UNCHANGED <<rvars, mvars, evars>>

EnqueueTryLock(t, c) ==
  /\ pc[c] = "enqueue" /\ seen[c] = "Unlocked"
  /\ locked' = TRUE
  /\ Retry(c)
  /\ Continue(c, IF locked THEN "enqueue" ELSE "locked")
  /\ UNCHANGED <<listed, waiters, evars>>

(* from here on another thread may resume c and free this awaiter *)
EnqueueCas(t, c) ==
  /\ pc[c] = "enqueue" /\ seen[c] \notin {None, "Unlocked"}
  /\ Retry(c)
  /\ IF Word = seen[c] THEN listed' = <<c>> \o listed /\ Suspend(t, c, "wait")
                       ELSE UNCHANGED <<rvars, listed>>
  /\ UNCHANGED <<locked, waiters, evars>>

(* the critical section, with a co_await Yield(pool) or without *)
Section(t, c) ==
  /\ pc[c] = "locked"
  /\ IF c \in Yielders THEN Dispatch(t, c, "yielded", "unlock")
                       ELSE Continue(c, "unlock")
  /\ UNCHANGED <<mvars, seen, evars>>

Resumed(t, c) ==
  /\ pc[c] = "yielded"
  /\ Continue(c, "unlock")
  /\ UNCHANGED <<mvars, seen, evars>>

----------------------------------------------------------------------------
(* The destructor of the UniqueLock: Mutex::Release *)

(* where a coroutine goes on after Unlock: a destroyed frame has ended *)
AfterUnlock(c) == IF c \in doomed THEN "end" ELSE "done"

ResumeNextWaiter(t, c, list) ==
  /\ Resume(t, c, AfterUnlock(c), Head(list), "locked")
  /\ waiters' = Tail(list)

ReleaseWaiters(t, c) ==
  /\ pc[c] = "unlock" /\ waiters /= <<>>
  /\ ResumeNextWaiter(t, c, waiters)
  /\ UNCHANGED <<locked, listed, seen, evars>>

ReleaseLoad(t, c) ==
  /\ pc[c] = "unlock" /\ waiters = <<>> /\ seen[c] = None
  /\ Load(c, Word)
  /\ UNCHANGED <<rvars, mvars, evars>>

(* a faulty ReleaseCas, for testing the properties *)
ReleaseStore(t, c) ==
  /\ pc[c] = "unlock" /\ seen[c] = "LockedNoWaiters"
  /\ Retry(c)
  /\ locked' = FALSE /\ Continue(c, AfterUnlock(c))
  /\ UNCHANGED <<listed, waiters, evars>>

ReleaseCas(t, c) ==
  /\ pc[c] = "unlock" /\ seen[c] = "LockedNoWaiters"
  /\ Retry(c)
  /\ IF Word = "LockedNoWaiters"
       THEN locked' = FALSE /\ Continue(c, AfterUnlock(c))
       ELSE UNCHANGED <<rvars, locked>>
  /\ UNCHANGED <<listed, waiters, evars>>

(* a faulty ReleaseTake, for testing the properties *)
ReleaseOpen(t, c) ==
  /\ pc[c] = "unlock" /\ seen[c] \notin {None, "LockedNoWaiters"}
  /\ Retry(c)
  /\ ResumeNextWaiter(t, c, listed)
  /\ listed' = <<>>
  /\ locked' = FALSE
  /\ UNCHANGED evars

(* exchange(LockedNoWaiters) and AppendToList: newest first *)
ReleaseTake(t, c) ==
  /\ pc[c] = "unlock" /\ seen[c] \notin {None, "LockedNoWaiters"}
  /\ Retry(c)
  /\ ResumeNextWaiter(t, c, listed)
  /\ listed' = <<>>
  /\ UNCHANGED <<locked, evars>>

----------------------------------------------------------------------------
(* WaitGroup and OneShotEvent *)

(* Main has made its call of Add, before it started the first coroutine *)
Added == counter /= 0 \/ \E c \in Coroutine : pc[c] /= "new"

Add ==
  /\ ~Added
  /\ counter' = Cardinality(Contenders)
  /\ UNCHANGED <<rvars, mvars, seen, signaled, queued, firing>>

(* a faulty Done, for testing the properties *)
DoneAny(t, c) ==
  /\ pc[c] = "done"
  /\ counter' = counter - 1
  /\ Continue(c, "fire")
  /\ UNCHANGED <<mvars, seen, signaled, queued, firing>>

Done(t, c) ==
  /\ pc[c] = "done"
  /\ counter' = counter - 1
  /\ Continue(c, IF counter = 1 THEN "fire" ELSE "end")
  /\ UNCHANGED <<mvars, seen, signaled, queued, firing>>

(* compare_exchange from NoWaiters to Signaled, or nothing to do *)
FireCas(t, c) ==
  /\ pc[c] = "fire"
  /\ LET fast == EventWord \in {"NoWaiters", "Signaled"} IN
       /\ signaled' = (fast \/ signaled)
       /\ Continue(c, IF fast THEN "end" ELSE "take")
  /\ UNCHANGED <<mvars, seen, counter, queued, firing>>

(* exchange(Signaled) and CreateWaiterList *)
FireTake(t, c) ==
  /\ pc[c] = "take"
  /\ signaled' = TRUE
  /\ firing' = [firing EXCEPT ![c] = queued]
  /\ queued' = <<>>
  /\ Continue(c, "firing")
  /\ UNCHANGED <<mvars, seen, counter>>

FireResume(t, c) ==
  /\ pc[c] = "firing" /\ firing[c] /= <<>>
  /\ Resume(t, c, "firing", Head(firing[c]), "end")
  /\ firing' = [firing EXCEPT ![c] = Tail(@)]
  /\ UNCHANGED <<mvars, seen, counter, signaled, queued>>

FireEnd(t, c) ==
  /\ pc[c] = "firing" /\ firing[c] = <<>>
  /\ Continue(c, "end")
  /\ UNCHANGED <<mvars, seen, evars>>

(* co_await wg.WaitAsync(): IsReady, TryEnqueue *)
WaitReady(t, c) ==
  /\ c \notin Contenders
  /\ pc[c] = "body"
  /\ Continue(c, IF signaled THEN "end" ELSE "enlist")
  /\ UNCHANGED <<mvars, seen, evars>>

EnlistLoad(t, c) ==
  /\ pc[c] = "enlist" /\ seen[c] = None
  /\ IF signaled THEN Continue(c, "end") /\ UNCHANGED seen
                 ELSE Load(c, EventWord) /\ UNCHANGED rvars
  /\ UNCHANGED <<mvars, evars>>

(* a faulty EnlistCas, for testing the properties *)
EnlistUnchecked(t, c) ==
  /\ pc[c] = "enlist" /\ seen[c] /= None
  /\ Retry(c)
  /\ queued' = <<c>> \o queued /\ Suspend(t, c, "parked")
  /\ UNCHANGED <<mvars, counter, signaled, firing>>

EnlistCas(t, c) ==
  /\ pc[c] = "enlist" /\ seen[c] /= None
  /\ Retry(c)
  /\ IF EventWord = seen[c]
       THEN queued' = <<c>> \o queued /\ Suspend(t, c, "parked")
       ELSE UNCHANGED <<rvars, queued>>
  /\ UNCHANGED <<mvars, counter, signaled, firing>>

----------------------------------------------------------------------------
End(t, c) ==
  /\ pc[c] = "end"
  /\ EndFrame(t, c)
  /\ UNCHANGED <<mvars, seen, evars>>

(* a faulty Unwind, for testing the properties *)
UnwindNothing(c) == "end"

(* destroy(): a frame that is suspended inside the critical section holds  *)
(* the lock                                                                *)
Unwind(c) == IF pc[c] = "yielded" THEN "unlock" ELSE "end"

Start(c) ==
  Added /\ FireAndForget(c) /\ UNCHANGED <<mvars, seen, evars>>

Stop ==
  /\ MayStop
  /\ \/ StopCall \/ StopClose \/ StopJoin
     \/ \E c \in Coroutine : StopDiscard(c, Unwind(c))
  /\ UNCHANGED <<mvars, seen, evars>>

MutexStep(t, c) ==
  \/ TryLock(t, c) \/ EnqueueLoad(t, c) \/ EnqueueTryLock(t, c)
  \/ EnqueueCas(t, c) \/ Section(t, c) \/ Resumed(t, c)
  \/ ReleaseWaiters(t, c) \/ ReleaseLoad(t, c) \/ ReleaseCas(t, c)
  \/ ReleaseTake(t, c)

EventStep(t, c) ==
  \/ Done(t, c) \/ FireCas(t, c) \/ FireTake(t, c) \/ FireResume(t, c)
  \/ FireEnd(t, c) \/ WaitReady(t, c) \/ EnlistLoad(t, c) \/ EnlistCas(t, c)

ThreadStep(t) ==
  \/ \E c \in Executing(t) : MutexStep(t, c) \/ EventStep(t, c) \/ End(t, c)
  \/ t \in Workers /\ RunNext(t) /\ UNCHANGED <<mvars, seen, evars>>

MainStep == Add \/ \E c \in Coroutine : Start(c)

(* All coroutines have ended, or the pool has. *)
Quiescent ==
  /\ stage = "stopped" \/ \A c \in Coroutine : pc[c] = "finished"
  /\ UNCHANGED vars

Next ==
  \/ MainStep \/ Stop
  \/ \E t \in Thread : ThreadStep(t)
  \/ Quiescent

Spec == Init /\ [][Next]_vars

(* The threads keep running, and Main starts all coroutines unless it      *)
(* stops the pool first; a Stop that has begun goes on.                    *)
Fairness ==
  /\ \A t \in Thread : WF_vars(ThreadStep(t))
  /\ WF_vars(MainStep)
  /\ WF_vars(stage /= "running" /\ Stop)

FairSpec == Spec /\ Fairness

----------------------------------------------------------------------------
(* Properties *)

(* c owns the mutex *)
Holds(c) == pc[c] \in {"locked", "yielded", "unlock"}

(* At most one coroutine is between the lock and the end of its unlock,    *)
(* although a waiter becomes the owner inside the Unlock of the previous   *)
(* owner, on the same thread, and a frame may be destroyed while it holds  *)
(* the lock; and a coroutine executes in one place at a time.              *)
MutualExclusion ==
  /\ \A c, d \in Contenders : Holds(c) /\ Holds(d) => c = d
  /\ (\E c \in Contenders : Holds(c)) => locked
  /\ OneActivation

(* A suspended coroutine is linked exactly once, where an Unlock or a Fire *)
(* will find it, and whatever is linked is suspended: no resume() is lost, *)
(* and none is called on a coroutine that runs or has been freed.          *)
NoLostWaiter ==
  LET lockers == listed \o waiters
      parked == ToSet(queued) \cup UNION {ToSet(firing[c]) : c \in Contenders}
  IN /\ IsInjective(lockers)
     /\ \A c \in Contenders : IsInjective(queued \o firing[c])
     /\ ToSet(lockers) = {c \in Coroutine : pc[c] = "wait"}
     /\ parked = {c \in Coroutine : pc[c] = "parked"}
     /\ lockers /= <<>> => \E c \in Contenders : Holds(c)

(* A waiter goes on only after every Done, and from then on nobody touches *)
(* the WaitGroup: it may be destroyed although the coroutine that fired it *)
(* is still below on the same stack (stackless_waitgroup_test.cpp, Goer).  *)
WaitCovers ==
  \A c \in Coroutine \ Contenders :
    (pc[c] = "end" /\ c \notin doomed) \/ pc[c] = "finished" =>
      \A d \in Contenders : pc[d] \in {"firing", "end", "finished"}

(* When the pool has stopped, nobody is left waiting for the mutex: the    *)
(* destruction of the frame that holds the lock hands it over.             *)
NoStrandedLocker ==
  stage = "stopped" => \A c \in Coroutine : pc[c] /= "wait"

(* Unless the pool is stopped every coroutine ends: each lock is granted   *)
(* and each wait returns.                                                  *)
Completes ==
  <>(stage /= "running" \/ \A c \in Coroutine : pc[c] = "finished")

(* Stop returns (thread_pool.h:39, "Pending tasks will be discarded"). *)
StopReturns == (stage = "closing") ~> (stage = "stopped")
=============================================================================
