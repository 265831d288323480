---------------------------- MODULE FiberCondVar ----------------------------
(***************************************************************************)
(* fibers/sync/condvar.cpp over fibers/sync/detail/futex.h, used the way   *)
(* tests/fibers/condvar_test.cpp uses it: a semaphore, which every fiber   *)
(* acquires, keeps over a Yield and releases.  Acquire waits in a loop for *)
(* a permit; Release adds one and notifies, both under the mutex.  (The    *)
(* Event of the same test notifies all, so a notification wakes one waiter *)
(* or all of them.)                                                        *)
(*                                                                         *)
(* The mutex is the one of FiberMutex, reduced to what it promises: an     *)
(* owner, and suspended waiters to one of which Unlock hands it over.      *)
(*                                                                         *)
(* FutexAwaiter::AwaitSuspend ends with lock_.unlock() on a std::unique_   *)
(* lock inside the awaiter.  That call is two accesses: it releases the    *)
(* spin lock, then clears the flag owns in the awaiter.  Nothing keeps the *)
(* fiber from being woken and from leaving ParkIfEqual between the two:    *)
(* its destructor then unlocks the spin lock once more, whoever holds it   *)
(* by now.  The history variable overtaken says that this has happened.    *)
(* From there on the queue of the futex is a data race; here each access   *)
(* to it stays atomic.                                                     *)
(***************************************************************************)
EXTENDS Fibers, FiniteSets

CONSTANT Permits  \* the permits the semaphore starts with

ASSUME CondVarAssumption == IsFiniteSet(Fiber) /\ Permits \in Nat

VARIABLES
  owner,          \* the fiber that owns the mutex
  blocked,        \* the fibers suspended in Lock
  permits,        \* permits_ of the semaphore
  spin,           \* spinlock_ is locked
  parked,         \* waiters_ of the futex
  epoch,          \* epoch of the futex
  key,            \* the epoch a fiber has read in PrepareWait
  owns,           \* the flag of the unique_lock in the fiber's FutexAwaiter
  woken,          \* the local list of a fiber inside WakeOne or WakeAll
  died,           \* the process has been terminated
  overtaken       \* history: an awaiter was destroyed in the middle of unlock()

ownerVars == <<owner, blocked>>
futexVars == <<spin, parked, epoch>>
localVars == <<key, owns, woken>>
fate == <<died, overtaken>>
condVarVars == <<fvars, ownerVars, permits, futexVars, localVars, fate>>

CondVarInit ==
  /\ FInit
  /\ owner = None
  /\ blocked = {}
  /\ permits = Permits
  /\ spin = FALSE
  /\ parked = <<>>
  /\ epoch = 0
  /\ key = [f \in Fiber |-> 0]
  /\ owns = [f \in Fiber |-> FALSE]
  /\ woken = [f \in Fiber |-> <<>>]
  /\ died = FALSE
  /\ overtaken = FALSE

CondVarGo(f) == Go(f) /\ UNCHANGED <<ownerVars, permits, futexVars, localVars, fate>>

CondVarRun(w) == Run(w) /\ UNCHANGED <<ownerVars, permits, futexVars, localVars, fate>>

----------------------------------------------------------------------------
(* The mutex *)

(* Lock: f goes on at label as its owner, or waits for it at label *)
LockAt(w, f, label) ==
  /\ IF owner = None
       THEN owner' = f /\ UNCHANGED blocked /\ Continue(w, f, label)
       ELSE /\ blocked' = blocked \cup {f}
            /\ UNCHANGED owner
            /\ Become(f, "Suspended")
            /\ Goto(f, label)
            /\ WorkerAt(w, "idle", None)
            /\ UNCHANGED <<runq, stopped, stacks>>
  /\ UNCHANGED <<permits, futexVars, localVars, fate>>

(* Unlock: hand the mutex to some waiter; f goes on at label *)
UnlockAt(w, f, label) ==
  /\ IF blocked = {}
       THEN owner' = None /\ UNCHANGED blocked /\ Continue(w, f, label)
       ELSE \E g \in blocked :
              /\ owner' = g
              /\ blocked' = blocked \ {g}
              /\ Schedule(g)
              /\ Goto(f, label)
              /\ UNCHANGED <<stopped, at, this>>
  /\ UNCHANGED <<permits, futexVars, localVars, fate>>

----------------------------------------------------------------------------
(* Semaphore::Acquire *)

Lock(w, f) ==
  \/ InFiber(w, f, "body") /\ LockAt(w, f, "check")
  \/ InFiber(w, f, "relock") /\ LockAt(w, f, "check")
  \/ InFiber(w, f, "leave") /\ LockAt(w, f, "permit")

AcquirePermit(w, f) ==
  /\ InFiber(w, f, "check")
  /\ permits > 0
  /\ permits' = permits - 1
  /\ Continue(w, f, "unlock")
  /\ UNCHANGED <<ownerVars, futexVars, localVars, fate>>

(* CondVar::Wait: PrepareWait reads the epoch before the mutex is unlocked *)
WaitPrepare(w, f) ==
  /\ InFiber(w, f, "check")
  /\ permits = 0
  /\ key' = [key EXCEPT ![f] = epoch]
  /\ Continue(w, f, "wait_unlock")
  /\ UNCHANGED <<ownerVars, permits, futexVars, owns, woken, fate>>

SpinLock(w, f, from, to) ==
  /\ InFiber(w, f, from)
  /\ ~spin
  /\ spin' = TRUE
  /\ Continue(w, f, to)
  /\ UNCHANGED <<ownerVars, permits, parked, epoch, localVars, fate>>

(* ParkIfEqual *)
ParkLock(w, f) == SpinLock(w, f, "park", "park_check")

(* a faulty ParkEqual, for testing the properties *)
ParkAnyway(w, f) ==
  /\ InFiber(w, f, "park_check")
  /\ Continue(w, f, "park_link")
  /\ UNCHANGED <<ownerVars, permits, futexVars, localVars, fate>>

(* the epoch is still the same *)
ParkEqual(w, f) ==
  /\ InFiber(w, f, "park_check")
  /\ epoch = key[f]
  /\ Continue(w, f, "park_link")
  /\ UNCHANGED <<ownerVars, permits, futexVars, localVars, fate>>

(* move the lock into the awaiter, link it and suspend *)
ParkLink(w, f) ==
  /\ InFiber(w, f, "park_link")
  /\ parked' = Append(parked, f)
  /\ owns' = [owns EXCEPT ![f] = TRUE]
  /\ Suspend(w, f, "parked")
  /\ UNCHANGED <<ownerVars, permits, spin, epoch, key, woken, fate>>

ParkUnequal(w, f) ==
  /\ InFiber(w, f, "park_check")
  /\ epoch /= key[f]
  /\ spin' = FALSE
  /\ Continue(w, f, "relock")
  /\ UNCHANGED <<ownerVars, permits, parked, epoch, localVars, fate>>

(* FutexAwaiter::AwaitSuspend: handle_ is set, and the first half of       *)
(* lock_.unlock()                                                          *)
ParkUnlock(w, f) ==
  /\ InAwaiter(w, f, "parked")
  /\ owns[f]
  /\ spin' = FALSE
  /\ WorkerAt(w, "transfer", f)
  /\ UNCHANGED <<state, pc, runq, stopped, stacks, ownerVars, permits, parked, epoch,
                 localVars, fate>>

(* ... which throws if the lock is not owned *)
UnlockThrows(w, f) == InAwaiter(w, f, "parked") /\ ~owns[f]

(* ... and the second half, in an awaiter that may be gone by now, or be   *)
(* the next one of the same fiber                                          *)
ParkDisown(w) ==
  /\ at[w] = "transfer"
  /\ owns' = [owns EXCEPT ![this[w]] = FALSE]
  /\ ReturnInvalid(w)
  /\ UNCHANGED <<ownerVars, permits, futexVars, key, woken, fate>>

(* Suspend returns; the awaiter's unique_lock is destroyed *)
ParkReturn(w, f) ==
  /\ InFiber(w, f, "parked")
  /\ spin' = (spin /\ ~owns[f])
  /\ owns' = [owns EXCEPT ![f] = FALSE]
  /\ overtaken' = (overtaken \/ owns[f])
  /\ Continue(w, f, "relock")
  /\ UNCHANGED <<ownerVars, permits, parked, epoch, key, woken, died>>

(* self::Yield, with the permit *)
AccessYield(w, f) ==
  /\ InFiber(w, f, "access")
  /\ YieldSuspend(w, f, "leave")
  /\ UNCHANGED <<ownerVars, permits, futexVars, localVars, fate>>

AccessScheduled(w, f) ==
  /\ InAwaiter(w, f, "leave")
  /\ YieldSchedule(w, f)
  /\ UNCHANGED <<ownerVars, permits, futexVars, localVars, fate>>

----------------------------------------------------------------------------
(* Semaphore::Release *)

ReleasePermit(w, f) ==
  /\ InFiber(w, f, "permit")
  /\ permits' = permits + 1
  /\ Continue(w, f, "notify")
  /\ UNCHANGED <<ownerVars, futexVars, localVars, fate>>

(* WakeOne and WakeAll: raise the epoch and take waiters from the list,    *)
(* under the spin lock; resume them after it                               *)
WakeLock(w, f) == SpinLock(w, f, "notify", "wake")

WakeTake(w, f, list, rest) ==
  /\ InFiber(w, f, "wake")
  /\ epoch' = epoch + 1
  /\ woken' = [woken EXCEPT ![f] = list]
  /\ parked' = rest
  /\ spin' = FALSE
  /\ Continue(w, f, "resume")
  /\ UNCHANGED <<ownerVars, permits, key, owns, fate>>

FirstOf(s) == SubSeq(s, 1, IF s = <<>> THEN 0 ELSE 1)

(* a faulty WakeOne, for testing the properties *)
WakeOneForgetful(w, f) ==
  WakeTake(w, f, <<>>, SubSeq(parked, 2, Len(parked)))

WakeOne(w, f) ==
  WakeTake(w, f, FirstOf(parked), SubSeq(parked, 2, Len(parked)))

WakeAll(w, f) == WakeTake(w, f, parked, <<>>)

(* handle_ of the awaiter of f is not set before AwaitSuspend *)
HandleUnset(f) == \E w \in Workers : InAwaiter(w, f, "parked")

(* item->Resume() *)
WakeResume(w, f) ==
  /\ InFiber(w, f, "resume")
  /\ woken[f] /= <<>>
  /\ ~HandleUnset(Head(woken[f]))
  /\ Schedule(Head(woken[f]))
  /\ woken' = [woken EXCEPT ![f] = Tail(@)]
  /\ UNCHANGED <<pc, stopped, at, this, ownerVars, permits, futexVars, key, owns, fate>>

ResumesInvalid(w, f) ==
  InFiber(w, f, "resume") /\ woken[f] /= <<>> /\ HandleUnset(Head(woken[f]))

(* Fiber::Run is noexcept, and an invalid handle has no fiber: the process *)
(* is terminated.                                                          *)
FutexCrash(w, f) ==
  /\ UnlockThrows(w, f) \/ ResumesInvalid(w, f)
  /\ died' = TRUE
  /\ UNCHANGED <<fvars, ownerVars, permits, futexVars, localVars, overtaken>>

WakeEnd(w, f) ==
  /\ InFiber(w, f, "resume")
  /\ woken[f] = <<>>
  /\ Continue(w, f, "release_unlock")
  /\ UNCHANGED <<ownerVars, permits, futexVars, localVars, fate>>

(* the mutex is unlocked at the end of Acquire and of Release, and in Wait *)
Unlock(w, f) ==
  \/ InFiber(w, f, "unlock") /\ UnlockAt(w, f, "access")
  \/ InFiber(w, f, "wait_unlock") /\ UnlockAt(w, f, "park")
  \/ InFiber(w, f, "release_unlock") /\ UnlockAt(w, f, "done")

CondVarFinish(w, f) ==
  /\ InFiber(w, f, "done")
  /\ Complete(w, f)
  /\ UNCHANGED <<ownerVars, permits, futexVars, localVars, fate>>

----------------------------------------------------------------------------
AcquireStep(w, f) ==
  \/ Lock(w, f) \/ AcquirePermit(w, f) \/ WaitPrepare(w, f) \/ Unlock(w, f)
  \/ ParkLock(w, f) \/ ParkEqual(w, f) \/ ParkUnequal(w, f) \/ ParkLink(w, f)
  \/ ParkUnlock(w, f) \/ ParkReturn(w, f)
  \/ AccessYield(w, f) \/ AccessScheduled(w, f)

ReleaseStep(w, f) ==
  \/ ReleasePermit(w, f) \/ WakeLock(w, f) \/ WakeOne(w, f) \/ WakeAll(w, f)
  \/ WakeResume(w, f) \/ WakeEnd(w, f) \/ CondVarFinish(w, f)

CondVarWorker(w) ==
  /\ ~died
  /\ \/ CondVarRun(w)
     \/ ParkDisown(w)
     \/ \E f \in Fiber : AcquireStep(w, f) \/ ReleaseStep(w, f) \/ FutexCrash(w, f)

(* Every fiber has been started, and the executor has nothing to do:       *)
(* WaitIdle returns.                                                       *)
Idle ==
  /\ \A f \in Fiber : pc[f] /= "new"
  /\ \A w \in Workers : at[w] = "idle"
  /\ runq = <<>>

CondVarEnd == (Idle \/ died) /\ UNCHANGED condVarVars

CondVarNext ==
  \/ \E f \in Fiber : ~died /\ CondVarGo(f)
  \/ \E w \in Workers : CondVarWorker(w)
  \/ CondVarEnd

CondVarSpec == CondVarInit /\ [][CondVarNext]_condVarVars

(* The workers keep running and every fiber is started. *)
CondVarFairness ==
  /\ \A w \in Workers : WF_condVarVars(CondVarWorker(w))
  /\ \A f \in Fiber : WF_condVarVars(~died /\ CondVarGo(f))

CondVarFairSpec == CondVarSpec /\ CondVarFairness

----------------------------------------------------------------------------
(* Properties *)

CondVarTypeOK ==
  /\ FTypeOK
  /\ pc \in [Fiber -> {"new", "body", "check", "wait_unlock", "park",
       "park_check", "park_link", "parked", "relock", "unlock", "access",
       "leave", "permit", "notify", "wake", "resume", "release_unlock",
       "done", "finished"}]
  /\ owner \in Fiber \cup {None}
  /\ blocked \subseteq Fiber
  /\ permits \in Nat
  /\ spin \in BOOLEAN
  /\ parked \in Seq(Fiber)
  /\ epoch \in Nat
  /\ key \in [Fiber -> Nat]
  /\ owns \in [Fiber -> BOOLEAN]
  /\ woken \in [Fiber -> Seq(Fiber)]
  /\ died \in BOOLEAN
  /\ overtaken \in BOOLEAN

(* f is between the locking and the unlocking of spinlock_, in the code of *)
(* ParkIfEqual or WakeOne or in the FutexAwaiter                           *)
InFutex(f) ==
  \/ pc[f] \in {"park_check", "park_link", "wake"}
  \/ \E w \in Workers : InAwaiter(w, f, "parked")

(* Unless an awaiter was destroyed in the middle of unlock(), the queue    *)
(* and the epoch of the futex are touched by one fiber at a time, and      *)
(* spinlock_ is locked exactly as long, although a fiber passes the lock   *)
(* on to its awaiter when it suspends.                                     *)
SpinExclusion ==
  ~overtaken =>
    /\ \A f, g \in Fiber : InFutex(f) /\ InFutex(g) => f = g
    /\ spin <=> \E f \in Fiber : InFutex(f)

(* A fiber that is going to look for a permit without being notified again *)
Awake(f) ==
  \/ pc[f] \in {"new", "body", "check", "relock"}
  \/ pc[f] \in {"wait_unlock", "park", "park_check"} /\ key[f] /= epoch
  \/ pc[f] = "parked" /\ (state[f] \in {"Queued", "Running"}
                            \/ \E g \in Fiber : \E i \in 1..Len(woken[g]) :
                                 woken[g][i] = f)

(* No wake-up is lost, unless an awaiter was destroyed in the middle of    *)
(* unlock(): as long as a fiber sleeps or is falling asleep in Wait, every *)
(* free permit has somebody who will look for it, a fiber in Acquire that  *)
(* is awake or a fiber in Release that has yet to notify.  Nor is the      *)
(* process terminated by the futex.                                        *)
NoLostWakeup ==
  LET asleep == {f \in Fiber :
                   pc[f] \in {"wait_unlock", "park", "park_check", "park_link",
                              "parked"} /\ ~Awake(f)}
      awake == {f \in Fiber : Awake(f)}
      notifying == {f \in Fiber : pc[f] \in {"notify", "wake"}}
  IN ~overtaken =>
       /\ ~died
       /\ asleep /= {} => permits <= Cardinality(awake) + Cardinality(notifying)

(* Every Acquire returns, and every fiber ends, unless an awaiter was      *)
(* destroyed in the middle of unlock().                                    *)
AcquireReturns ==
  \A f \in Fiber : (pc[f] = "check") ~> (pc[f] = "finished" \/ overtaken)

(* The test of the semaphore: after WaitIdle every fiber has had access. *)
EveryAccess == Idle => \A f \in Fiber : pc[f] = "finished"
=============================================================================
