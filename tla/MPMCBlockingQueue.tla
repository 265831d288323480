------------------------- MODULE MPMCBlockingQueue -------------------------
(***************************************************************************)
(* concurrency/intrusive/blocking_queue.h: a multi-producer,               *)
(* multi-consumer unbounded blocking queue protected by mutex_, with the   *)
(* condition variable not_empty_.                                          *)
(*                                                                         *)
(* items_ and closed_ are only touched under mutex_.  Put and one turn of  *)
(* the loop of Take are critical sections that touch nothing else, so each *)
(* is one step taken when the mutex is free.  CloseImpl calls the disposer *)
(* under the mutex, so there the lock is held over several steps.          *)
(***************************************************************************)
EXTENDS Sequences, Threads

VARIABLES
  items,        \* items_, an intrusive forward list
  closed,       \* closed_
  qlock,        \* the thread that holds mutex_ between two steps, or None
  qwait         \* the threads blocked in not_empty_.wait()

qvars == <<items, closed, qlock, qwait>>

QInit ==
  /\ items = <<>>
  /\ closed = FALSE
  /\ qlock = None
  /\ qwait = {}

(* a faulty NotifyOne, for testing the properties *)
NotifyNobody == UNCHANGED qwait

(* notify_one: any one of the waiting threads, if there is one *)
NotifyOne ==
  IF qwait = {} THEN UNCHANGED qwait
  ELSE \E th \in qwait : qwait' = qwait \ {th}

(* Put that succeeds: push and notify_one *)
PutItem(item) ==
  /\ qlock = None
  /\ ~closed
  /\ items' = Append(items, item)
  /\ NotifyOne
  /\ UNCHANGED <<closed, qlock>>

(* Put that returns false *)
PutRefused ==
  /\ qlock = None
  /\ closed
  /\ UNCHANGED qvars

(* a thread inside Take that holds, or has been woken to get, the mutex *)
TakeReady(th) ==
  /\ th \notin qwait
  /\ qlock = None

(* a faulty TakeItem, for testing the properties *)
TakeItemWithoutPop(th) ==
  /\ TakeReady(th)
  /\ items /= <<>>
  /\ UNCHANGED qvars

(* Take: the loop ends, the first item is returned *)
TakeItem(th) ==
  /\ TakeReady(th)
  /\ items /= <<>>
  /\ items' = Tail(items)
  /\ UNCHANGED <<closed, qlock, qwait>>

(* Take: nothing to take and nothing will come, nullptr is returned *)
TakeNull(th) ==
  /\ TakeReady(th)
  /\ items = <<>>
  /\ closed
  /\ UNCHANGED qvars

(* Take: release the mutex and block in not_empty_.wait(lock) *)
TakeWait(th) ==
  /\ TakeReady(th)
  /\ items = <<>>
  /\ ~closed
  /\ qwait' = qwait \cup {th}
  /\ UNCHANGED <<items, closed, qlock>>

(* wait() returns although nobody notified *)
TakeSpurious(th) ==
  /\ th \in qwait
  /\ qwait' = qwait \ {th}
  /\ UNCHANGED <<items, closed, qlock>>

(* CloseImpl: take the mutex *)
CloseLock(th) ==
  /\ qlock = None
  /\ qlock' = th
  /\ UNCHANGED <<items, closed, qwait>>

(* CloseImpl: pop one item for the disposer, with the mutex held *)
ClosePop(th) ==
  /\ qlock = th
  /\ items /= <<>>
  /\ items' = Tail(items)
  /\ UNCHANGED <<closed, qlock, qwait>>

(* a faulty CloseFinish, for testing the properties *)
CloseFinishNotifyOne(th) ==
  /\ qlock = th
  /\ items = <<>>
  /\ closed' = TRUE
  /\ NotifyOne
  /\ qlock' = None
  /\ UNCHANGED items

(* CloseImpl: mark the queue closed, notify_all, release the mutex *)
CloseFinish(th) ==
  /\ qlock = th
  /\ items = <<>>
  /\ closed' = TRUE
  /\ qwait' = {}
  /\ qlock' = None
  /\ UNCHANGED items
=============================================================================
