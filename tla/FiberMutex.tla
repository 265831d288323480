----------------------------- MODULE FiberMutex -----------------------------
(***************************************************************************)
(* fibers/sync/mutex.h: the lock-free mutex of fibers.  The atomic word    *)
(* state_ is Unlocked, LockedNoWaiters, or the address of the newest node  *)
(* of a list of waiters; waiters_ is a list that only the owner touches.   *)
(* A Locker enqueues itself after its fiber has switched out.  Unlock      *)
(* hands the mutex to the next waiter without unlocking it: the unlocking  *)
(* fiber is rescheduled and its worker continues with the waiter.          *)
(*                                                                         *)
(* A node is the Locker on the stack of a fiber and is named by the fiber. *)
(***************************************************************************)
EXTENDS Fibers

CONSTANTS
  MaxLocks,       \* bound: calls of Lock and TryLock
  MaxYields,      \* bound: calls of Yield
  MayStop         \* whether the executor may be stopped

ASSUME MutexAssumption ==
  /\ MaxLocks \in Nat
  /\ MaxYields \in Nat
  /\ MayStop \in BOOLEAN
  /\ Fiber \cap {"Unlocked", "LockedNoWaiters"} = {}

VARIABLES
  locked,         \* state_ is not Unlocked
  stacked,        \* the nodes linked from state_, newest first
  waiters,        \* waiters_
  loaded,         \* the value of state_ loaded on behalf of a fiber
  next_,          \* next_ of the Unlocker on the stack of a fiber
  nxt,            \* the copy of next_ that OnCompleted returns
  locks,          \* calls of Lock and TryLock so far
  yields          \* calls of Yield so far

mvars == <<locked, stacked, waiters>>
lvars == <<loaded, next_, nxt>>
bvars == <<locks, yields>>
mutexVars == <<fvars, mvars, lvars, bvars>>

MutexInit ==
  /\ FInit
  /\ locked = FALSE
  /\ stacked = <<>>
  /\ waiters = <<>>
  /\ loaded = [f \in Fiber |-> None]
  /\ next_ = [f \in Fiber |-> None]
  /\ nxt = [w \in Workers |-> None]
  /\ locks = 0
  /\ yields = 0

(* state_, as load and compare_exchange see it *)
MutexWord ==
  IF ~locked THEN "Unlocked"
  ELSE IF stacked = <<>> THEN "LockedNoWaiters"
  ELSE Head(stacked)

----------------------------------------------------------------------------
(* The body of a fiber: it locks, yields and ends as it likes, but unlocks *)
(* only what it has locked, and does so before it ends.                    *)

MutexGo(f) == Go(f) /\ UNCHANGED <<mvars, lvars, bvars>>

MutexRun(w) == Run(w) /\ UNCHANGED <<mvars, lvars, bvars>>

CountLock ==
  /\ locks < MaxLocks
  /\ locks' = locks + 1

YieldBody(w, f) ==
  /\ yields < MaxYields
  /\ yields' = yields + 1
  /\ \/ InFiber(w, f, "body") /\ YieldSuspend(w, f, "yield_body")
     \/ InFiber(w, f, "critical") /\ YieldSuspend(w, f, "yield_critical")
  /\ UNCHANGED <<mvars, lvars, locks>>

YieldCompleted(w, f) ==
  /\ InAwaiter(w, f, "yield_body") \/ InAwaiter(w, f, "yield_critical")
  /\ YieldSchedule(w, f)
  /\ UNCHANGED <<mvars, lvars, bvars>>

YieldReturn(w, f) ==
  /\ \/ InFiber(w, f, "yield_body") /\ Continue(w, f, "body")
     \/ InFiber(w, f, "yield_critical") /\ Continue(w, f, "critical")
  /\ UNCHANGED <<mvars, lvars, bvars>>

MutexFinish(w, f) ==
  /\ InFiber(w, f, "body")
  /\ Complete(w, f)
  /\ UNCHANGED <<mvars, lvars, bvars>>

----------------------------------------------------------------------------
(* TryLock, and the fast path of Lock *)

TryLock(w, f) ==
  /\ InFiber(w, f, "body")
  /\ CountLock
  /\ locked' = TRUE
  /\ Continue(w, f, IF locked THEN "body" ELSE "critical")
  /\ UNCHANGED <<stacked, waiters, lvars, yields>>

LockFast(w, f) ==
  /\ InFiber(w, f, "body")
  /\ ~locked
  /\ CountLock
  /\ locked' = TRUE
  /\ Continue(w, f, "critical")
  /\ UNCHANGED <<stacked, waiters, lvars, yields>>

(* the fast path fails: suspend with a Locker *)
LockSlow(w, f) ==
  /\ InFiber(w, f, "body")
  /\ locked
  /\ CountLock
  /\ Suspend(w, f, "lock_wait")
  /\ UNCHANGED <<mvars, lvars, yields>>

----------------------------------------------------------------------------
(* Locker::AwaitSuspend: TryLockOrEnqueue, after the fiber switched out *)

LockerLoad(w, f) ==
  /\ InAwaiter(w, f, "lock_wait")
  /\ loaded[f] = None
  /\ loaded' = [loaded EXCEPT ![f] = MutexWord]
  /\ UNCHANGED <<fvars, mvars, next_, nxt, bvars>>

(* a faulty LockerTryLock, for testing the properties *)
LockerStore(w, f) ==
  /\ InAwaiter(w, f, "lock_wait")
  /\ loaded[f] = "Unlocked"
  /\ loaded' = [loaded EXCEPT ![f] = None]
  /\ locked' = TRUE /\ ReturnNext(w, f)
  /\ UNCHANGED <<stacked, waiters, next_, nxt, bvars>>

(* state_ was Unlocked: TryLock; on success the fiber itself is next *)
LockerTryLock(w, f) ==
  /\ InAwaiter(w, f, "lock_wait")
  /\ loaded[f] = "Unlocked"
  /\ loaded' = [loaded EXCEPT ![f] = None]
  /\ IF locked THEN UNCHANGED <<fvars, locked>>
               ELSE locked' = TRUE /\ ReturnNext(w, f)
  /\ UNCHANGED <<stacked, waiters, next_, nxt, bvars>>

(* a faulty LockerEnqueue, for testing the properties *)
LockerEnqueueResumed(w, f) ==
  /\ InAwaiter(w, f, "lock_wait")
  /\ loaded[f] \notin {None, "Unlocked"}
  /\ loaded' = [loaded EXCEPT ![f] = None]
  /\ IF MutexWord = loaded[f] THEN stacked' = <<f>> \o stacked /\ ReturnNext(w, f)
                       ELSE UNCHANGED <<fvars, stacked>>
  /\ UNCHANGED <<locked, waiters, next_, nxt, bvars>>

(* state_ was locked: link the node in front of what was loaded.  The      *)
(* compare_exchange compares addresses: the node it finds again may have   *)
(* been taken from the list and linked anew in the meantime.               *)
LockerEnqueue(w, f) ==
  /\ InAwaiter(w, f, "lock_wait")
  /\ loaded[f] \notin {None, "Unlocked"}
  /\ loaded' = [loaded EXCEPT ![f] = None]
  /\ IF MutexWord = loaded[f] THEN stacked' = <<f>> \o stacked /\ ReturnInvalid(w)
                       ELSE UNCHANGED <<fvars, stacked>>
  /\ UNCHANGED <<locked, waiters, next_, nxt, bvars>>

(* Suspend returns in the fiber that has been given the mutex *)
LockReturn(w, f) ==
  /\ InFiber(w, f, "lock_wait")
  /\ Continue(w, f, "critical")
  /\ UNCHANGED <<mvars, lvars, bvars>>

----------------------------------------------------------------------------
(* Release *)

(* a faulty ResumeNextWaiter, for testing the properties *)
ResumeNewestWaiter(w, f, list) ==
  /\ waiters' = <<>>
  /\ next_' = [next_ EXCEPT ![f] = Head(list)]
  /\ Suspend(w, f, "unlock_wait")

(* ResumeNextWaiter: pop the next waiter and suspend with an Unlocker *)
ResumeNextWaiter(w, f, list) ==
  /\ waiters' = Tail(list)
  /\ next_' = [next_ EXCEPT ![f] = Head(list)]
  /\ Suspend(w, f, "unlock_wait")

ReleaseNext(w, f) ==
  /\ InFiber(w, f, "critical")
  /\ waiters /= <<>>
  /\ ResumeNextWaiter(w, f, waiters)
  /\ UNCHANGED <<locked, stacked, loaded, nxt, bvars>>

ReleaseLoad(w, f) ==
  /\ \/ InFiber(w, f, "critical") /\ waiters = <<>>
     \/ InFiber(w, f, "release") /\ loaded[f] = None
  /\ loaded' = [loaded EXCEPT ![f] = MutexWord]
  /\ Continue(w, f, "release")
  /\ UNCHANGED <<mvars, next_, nxt, bvars>>

(* a faulty ReleaseUnlock, for testing the properties *)
ReleaseUnlockStale(w, f) ==
  /\ InFiber(w, f, "release")
  /\ loaded[f] = "LockedNoWaiters"
  /\ loaded' = [loaded EXCEPT ![f] = None]
  /\ locked' = FALSE /\ stacked' = <<>> /\ Continue(w, f, "body")
  /\ UNCHANGED <<waiters, next_, nxt, bvars>>

ReleaseUnlock(w, f) ==
  /\ InFiber(w, f, "release")
  /\ loaded[f] = "LockedNoWaiters"
  /\ loaded' = [loaded EXCEPT ![f] = None]
  /\ IF MutexWord = "LockedNoWaiters"
       THEN locked' = FALSE /\ Continue(w, f, "body")
       ELSE UNCHANGED <<fvars, locked>>
  /\ UNCHANGED <<stacked, waiters, next_, nxt, bvars>>

(* exchange(LockedNoWaiters), AppendToList(head), ResumeNextWaiter *)
ReleaseTake(w, f) ==
  /\ InFiber(w, f, "release")
  /\ loaded[f] \in Fiber
  /\ loaded' = [loaded EXCEPT ![f] = None]
  /\ stacked' = <<>>
  /\ ResumeNextWaiter(w, f, stacked)
  /\ UNCHANGED <<locked, nxt, bvars>>

(* Unlocker::OnCompleted: copy next_, then schedule the unlocking fiber,   *)
(* which may run on another worker at once and destroy the Unlocker        *)
UnlockerSchedule(w, f) ==
  /\ InAwaiter(w, f, "unlock_wait")
  /\ nxt' = [nxt EXCEPT ![w] = next_[f]]
  /\ Schedule(f)
  /\ WorkerAt(w, "transfer", f)
  /\ UNCHANGED <<pc, stopped, mvars, loaded, next_, bvars>>

(* ... and return the copy: Run goes on with the new owner *)
UnlockerTransfer(w) ==
  /\ at[w] = "transfer"
  /\ ReturnNext(w, nxt[w])
  /\ nxt' = [nxt EXCEPT ![w] = None]
  /\ UNCHANGED <<mvars, loaded, next_, bvars>>

(* Suspend returns in the fiber that called Unlock: the Unlocker is gone *)
UnlockReturn(w, f) ==
  /\ InFiber(w, f, "unlock_wait")
  /\ next_' = [next_ EXCEPT ![f] = None]
  /\ Continue(w, f, "body")
  /\ UNCHANGED <<mvars, loaded, nxt, bvars>>

----------------------------------------------------------------------------
StopExecutor ==
  /\ MayStop
  /\ Stop
  /\ UNCHANGED <<mvars, lvars, bvars>>

(* Nothing is left to do: every fiber that was started has ended or was    *)
(* discarded, except fibers suspended behind an owner that was discarded.  *)
MutexQuiescent ==
  /\ \A w \in Workers : at[w] = "idle"
  /\ \A f \in Fiber : state[f] = "None" \/ (stopped /\ state[f] = "Suspended")
  /\ UNCHANGED mutexVars

LockStep(w, f) ==
  \/ TryLock(w, f) \/ LockFast(w, f) \/ LockSlow(w, f)
  \/ LockerLoad(w, f) \/ LockerTryLock(w, f) \/ LockerEnqueue(w, f)
  \/ LockReturn(w, f)

UnlockStep(w, f) ==
  \/ ReleaseNext(w, f) \/ ReleaseLoad(w, f) \/ ReleaseUnlock(w, f)
  \/ ReleaseTake(w, f) \/ UnlockerSchedule(w, f) \/ UnlockReturn(w, f)

BodyStep(w, f) ==
  YieldBody(w, f) \/ YieldCompleted(w, f) \/ YieldReturn(w, f) \/ MutexFinish(w, f)

MutexWorker(w) ==
  \/ MutexRun(w)
  \/ UnlockerTransfer(w)
  \/ \E f \in Fiber : LockStep(w, f) \/ UnlockStep(w, f) \/ BodyStep(w, f)

MutexNext ==
  \/ \E f \in Fiber : MutexGo(f)
  \/ \E w \in Workers : MutexWorker(w)
  \/ StopExecutor
  \/ MutexQuiescent

MutexSpec == MutexInit /\ [][MutexNext]_mutexVars

(* Each worker keeps taking steps while it can; nobody has to start fibers *)
MutexFairness == \A w \in Workers : WF_mutexVars(MutexWorker(w))

MutexFairSpec == MutexSpec /\ MutexFairness

----------------------------------------------------------------------------
(* Properties *)

MutexTypeOK ==
  /\ FTypeOK
  /\ pc \in [Fiber -> {"new", "body", "yield_body", "critical", "finished",
       "yield_critical", "lock_wait", "release", "unlock_wait"}]
  /\ locked \in BOOLEAN
  /\ stacked \in Seq(Fiber)
  /\ waiters \in Seq(Fiber)
  /\ loaded \in [Fiber -> Fiber \cup {None, "Unlocked", "LockedNoWaiters"}]
  /\ next_ \in [Fiber -> Fiber \cup {None}]
  /\ nxt \in [Workers -> Fiber \cup {None}]
  /\ locks \in 0..MaxLocks
  /\ yields \in 0..MaxYields

(* f is between Lock and Unlock *)
Inside(f) == pc[f] \in {"critical", "yield_critical", "release"}

(* f owns the mutex: it is inside, or the mutex is on its way to f *)
Granted(f) ==
  \/ \E w \in Workers : InFiber(w, f, "lock_wait")
  \/ \E w \in Workers : at[w] = "transfer" /\ nxt[w] = f
  \/ \E w \in Workers, g \in Fiber :
       InAwaiter(w, g, "unlock_wait") /\ next_[g] = f

Owns(f) == Inside(f) \/ Granted(f)

MutexMember(f, s) == \E i \in 1..Len(s) : s[i] = f

(* A locked mutex has exactly one owner and an open one has none, whatever *)
(* workers run the fibers and wherever a Locker, a Release or a hand-over  *)
(* is interrupted: Release never opens the mutex between two owners and    *)
(* never leaves it locked behind the last one.                             *)
MutualExclusion ==
  /\ \A f, g \in Fiber : Owns(f) /\ Owns(g) => f = g
  /\ locked <=> \E f \in Fiber : Owns(f)

(* No waiter is lost and none is resumed twice: a fiber inside Lock is in  *)
(* exactly one of these places: its Locker is still being enqueued, it is  *)
(* linked once from state_ or from waiters_, or it has been granted the    *)
(* mutex; and then the mutex is locked, with an owner to serve it.         *)
NoLostLocker ==
  \A f \in Fiber :
    LET places == << \E w \in Workers : InAwaiter(w, f, "lock_wait"),
                     MutexMember(f, stacked), MutexMember(f, waiters), Granted(f) >>
    IN /\ pc[f] = "lock_wait" =>
            \E i \in 1..4 : places[i] /\ \A j \in 1..4 : places[j] => j = i
       /\ places[2] \/ places[3] =>
            pc[f] = "lock_wait" /\ locked /\ \E g \in Fiber : Owns(g)

(* Every Lock returns, if the owners unlock and the executor keeps         *)
(* running: the mutex serves a batch of waiters completely before it looks *)
(* at those that came later.                                               *)
LockGranted ==
  \A f \in Fiber : (pc[f] = "lock_wait") ~> (pc[f] = "critical" \/ stopped)
=============================================================================
