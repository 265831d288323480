--------------------------- MODULE SerialExecutor ---------------------------
(***************************************************************************)
(* What a strand promises (executors/strand.h: "serial executor,           *)
(* asynchronous mutex"): tasks start one at a time, in the order in which  *)
(* they were accepted, each of them once.  If the underlying executor is   *)
(* shut down, the tasks that wait may be thrown away instead.              *)
(***************************************************************************)
EXTENDS Sequences

CONSTANTS Tasks, None

VARIABLES
  queue,      \* accepted tasks that have not been started
  active,     \* the task that is running, or None
  accepted    \* every task accepted so far

Init == queue = <<>> /\ active = None /\ accepted = {}

Accept(t) ==
  /\ t \notin accepted
  /\ accepted' = accepted \cup {t}
  /\ queue' = Append(queue, t)
  /\ UNCHANGED active

Start ==
  /\ active = None
  /\ queue /= <<>>
  /\ active' = Head(queue)
  /\ queue' = Tail(queue)
  /\ UNCHANGED accepted

Finish ==
  /\ active /= None
  /\ active' = None
  /\ UNCHANGED <<queue, accepted>>

DiscardAll ==
  /\ active = None
  /\ queue' = <<>>
  /\ UNCHANGED <<active, accepted>>

Next == (\E t \in Tasks : Accept(t)) \/ Start \/ Finish \/ DiscardAll

Spec == Init /\ [][Next]_<<queue, active, accepted>>
=============================================================================
