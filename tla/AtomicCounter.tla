--------------------------- MODULE AtomicCounter ---------------------------
(***************************************************************************)
(* concurrency/atomic_counter.h: an atomic counter of outstanding work     *)
(* with a blocking WaitZero.  The counter is changed without the mutex;    *)
(* the mutex only orders the notification of Done against the load and the *)
(* wait of WaitZero, so WaitZero holds it over several steps.              *)
(***************************************************************************)
EXTENDS Integers, Threads

VARIABLES
  counter,      \* counter_
  clock,        \* the thread that holds mutex_ between two steps, or None
  cwait         \* the threads blocked in all_done_.wait()

cvars == <<counter, clock, cwait>>

CInit ==
  /\ counter = 0
  /\ clock = None
  /\ cwait = {}

(* Add: fetch_add(1) *)
Add ==
  /\ counter' = counter + 1
  /\ UNCHANGED <<clock, cwait>>

(* Done: whether the value that fetch_sub returns is 1 *)
LastDone == counter = 1

(* Done: fetch_sub(1) *)
DoneSub ==
  /\ counter' = counter - 1
  /\ UNCHANGED <<clock, cwait>>

(* a faulty DoneNotify, for testing the properties *)
DoneNotifyWithoutLock ==
  /\ cwait' = {}
  /\ UNCHANGED <<counter, clock>>

(* Done: lock, notify_all, unlock *)
DoneNotify ==
  /\ clock = None
  /\ cwait' = {}
  /\ UNCHANGED <<counter, clock>>

(* WaitZero: take the mutex, at the start or when wait() returns *)
WaitZeroLock(th) ==
  /\ th \notin cwait
  /\ clock = None
  /\ clock' = th
  /\ UNCHANGED <<counter, cwait>>

(* a faulty WaitZeroReturn, for testing the properties *)
WaitZeroReturnUnchecked(th) ==
  /\ clock = th
  /\ clock' = None
  /\ UNCHANGED <<counter, cwait>>

(* WaitZero: the load sees zero, release the mutex and return *)
WaitZeroReturn(th) ==
  /\ clock = th
  /\ counter = 0
  /\ clock' = None
  /\ UNCHANGED <<counter, cwait>>

(* WaitZero: the load sees outstanding work *)
WaitZeroBusy(th) ==
  /\ clock = th
  /\ counter > 0
  /\ UNCHANGED cvars

(* WaitZero: release the mutex and block in all_done_.wait(lock) *)
WaitZeroBlock(th) ==
  /\ clock = th
  /\ clock' = None
  /\ cwait' = cwait \cup {th}
  /\ UNCHANGED counter

(* wait() returns although nobody notified *)
WaitZeroSpurious(th) ==
  /\ th \in cwait
  /\ cwait' = cwait \ {th}
  /\ UNCHANGED <<counter, clock>>
=============================================================================
