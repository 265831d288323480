----------------------- MODULE UnboundedBlockingQueue -----------------------
(***************************************************************************)
(* concurrency/blocking_queue.h, one action per critical section.  A       *)
(* consumer that waits on not_empty_ is woken by a notification or without *)
(* reason, and then looks at the buffer again.                             *)
(***************************************************************************)
EXTENDS Naturals, Sequences

VARIABLES
  buffer,         \* buffer_
  closed,         \* closed_
  takers          \* the threads that wait on not_empty_

queueVars == <<buffer, closed, takers>>

QueueInit == buffer = <<>> /\ closed = FALSE /\ takers = {}

Put(item) ==
  /\ ~closed
  /\ buffer' = Append(buffer, item)
  /\ \/ takers = {} /\ UNCHANGED takers
     \/ \E t \in takers : takers' = takers \ {t}
  /\ UNCHANGED closed

(* Put returns false *)
PutClosed == closed /\ UNCHANGED queueVars

(* TakeLocked: the caller receives Head(buffer) *)
TakeItem(t) ==
  /\ t \notin takers /\ buffer /= <<>>
  /\ buffer' = Tail(buffer)
  /\ UNCHANGED <<closed, takers>>

(* Take returns nullopt *)
TakeClosed(t) == t \notin takers /\ buffer = <<>> /\ closed

TakeWait(t) ==
  /\ t \notin takers /\ buffer = <<>> /\ ~closed
  /\ takers' = takers \cup {t}
  /\ UNCHANGED <<buffer, closed>>

SpuriousTake(t) ==
  t \in takers /\ takers' = takers \ {t} /\ UNCHANGED <<buffer, closed>>

(* a faulty Shut, for testing the properties *)
ShutOne ==
  /\ closed' = TRUE
  /\ buffer' = <<>>
  /\ \/ takers = {} /\ UNCHANGED takers
     \/ \E t \in takers : takers' = takers \ {t}

(* Close, and Shutdown after its disposer has got every item: what was in  *)
(* the buffer is gone                                                      *)
Shut == closed' = TRUE /\ buffer' = <<>> /\ takers' = {}
=============================================================================
