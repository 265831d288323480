--------------------------- MODULE LockFreeQueue ---------------------------
(***************************************************************************)
(* concurrency/lockfree/queue.h: a queue made of two lock-free stacks.     *)
(* Put pushes to main_; Take refills an empty reserve_ from main_, which   *)
(* reverses the order, and pops from reserve_.  The operations of the      *)
(* stacks are atomic here, as LockFreeStack shows (ImplementsStack); the   *)
(* callback of ConsumeAll pushes the values to reserve_ one by one.        *)
(***************************************************************************)
EXTENDS Integers, FiniteSets, SequencesExt

CONSTANTS
  Nullopt,
  Consumer,      \* the threads that call Take and TakeAll
  MaxPuts,       \* bound: calls of Put, by any thread
  MaxTakes       \* bound: calls of Take, those of TakeAll included

ASSUME QueueAssumption ==
  /\ MaxPuts \in Nat /\ MaxTakes \in Nat
  /\ Nullopt \notin 1..MaxPuts

VARIABLES
  main,          \* main_, newest first
  reserve,       \* reserve_, next to be taken first
  control,            \* control, per consumer
  batch,         \* what ConsumeAll has yet to pass to its callback
  all,           \* the consumer is inside TakeAll
  puts, takes,
  out            \* history: what Take returned

queueVars == <<main, reserve, control, batch, all, puts, takes, out>>

QueueInit ==
  /\ main = <<>> /\ reserve = <<>>
  /\ control = [c \in Consumer |-> "idle"]
  /\ batch = [c \in Consumer |-> <<>>]
  /\ all = [c \in Consumer |-> FALSE]
  /\ puts = 0 /\ takes = 0
  /\ out = <<>>

QueueGoto(c, l) == control' = [control EXCEPT ![c] = l]

(* Values are numbered in the order in which Put takes effect *)
Put ==
  /\ puts < MaxPuts
  /\ puts' = puts + 1
  /\ main' = <<puts + 1>> \o main
  /\ UNCHANGED <<reserve, control, batch, all, takes, out>>

(* a faulty TakeCheck, for testing the properties *)
TakeCheckMain(c) ==
  /\ takes < MaxTakes
  /\ takes' = takes + 1
  /\ QueueGoto(c, IF main /= <<>> THEN "consume" ELSE "pop")
  /\ UNCHANGED <<main, reserve, batch, puts, out>>

(* Take: if (reserve_.IsEmpty()) *)
TakeCheck(c) ==
  /\ takes < MaxTakes
  /\ takes' = takes + 1
  /\ QueueGoto(c, IF reserve = <<>> THEN "consume" ELSE "pop")
  /\ UNCHANGED <<main, reserve, batch, puts, out>>

TakeCall(c) ==
  /\ control[c] = "idle"
  /\ TakeCheck(c)
  /\ \E b \in BOOLEAN : all' = [all EXCEPT ![c] = b]

ConsumeAll(c) ==
  /\ control[c] = "consume"
  /\ batch' = [batch EXCEPT ![c] = main]
  /\ main' = <<>>
  /\ QueueGoto(c, "refill")
  /\ UNCHANGED <<reserve, all, puts, takes, out>>

Refill(c) ==
  /\ control[c] = "refill"
  /\ batch[c] /= <<>>
  /\ reserve' = <<Head(batch[c])>> \o reserve
  /\ batch' = [batch EXCEPT ![c] = Tail(@)]
  /\ UNCHANGED <<main, control, all, puts, takes, out>>

RefillEnd(c) ==
  /\ control[c] = "refill"
  /\ batch[c] = <<>>
  /\ QueueGoto(c, "pop")
  /\ UNCHANGED <<main, reserve, batch, all, puts, takes, out>>

(* return reserve_.TryPop(); TakeAll goes on unless it was nullopt *)
TryPop(c) ==
  /\ control[c] = "pop"
  /\ IF reserve = <<>>
       THEN out' = Append(out, Nullopt) /\ UNCHANGED reserve
       ELSE out' = Append(out, Head(reserve)) /\ reserve' = Tail(reserve)
  /\ QueueGoto(c, IF all[c] /\ reserve /= <<>> THEN "again" ELSE "idle")
  /\ UNCHANGED <<main, batch, all, puts, takes>>

TakeAgain(c) == control[c] = "again" /\ TakeCheck(c) /\ UNCHANGED all

(* The bounds are reached *)
QueueExhausted ==
  /\ puts = MaxPuts /\ takes = MaxTakes
  /\ \A c \in Consumer : control[c] \in {"idle", "again"}
  /\ UNCHANGED queueVars

QueueNext ==
  \/ Put
  \/ \E c \in Consumer :
       \/ TakeCall(c) \/ TakeAgain(c) \/ ConsumeAll(c)
       \/ Refill(c) \/ RefillEnd(c) \/ TryPop(c)
  \/ QueueExhausted

QueueSpec == QueueInit /\ [][QueueNext]_queueVars

----------------------------------------------------------------------------
(* Properties *)

(* A single consumer: the queue as it stands.  When ConsumeAll has found   *)
(* nothing, the consumer is bound to return nullopt.                       *)
TheBatch == batch[CHOOSE c \in Consumer : TRUE]

Missed ==
  \E c \in Consumer :
    control[c] \in {"refill", "pop"} /\ batch[c] = <<>> /\ reserve = <<>>

Contents == Reverse(TheBatch) \o reserve \o Reverse(main)
Returned == IF Missed THEN Append(out, Nullopt) ELSE out

Fifo ==
  INSTANCE FifoQueue WITH
    Value <- 1..MaxPuts, Empty <- Nullopt, contents <- Contents, out <- Returned

(* With one consumer, Put and Take are atomic operations of a FIFO queue,  *)
(* although a refill takes many steps during which values keep arriving:   *)
(* values are taken in the order of their Puts, none is lost or repeated,  *)
(* and Take returns nullopt only if the queue was empty during the call.   *)
ImplementsFifo == Fifo!Spec
=============================================================================
