--------------------------- MODULE LockFreeProofs ---------------------------
(***************************************************************************)
(* Proofs about the lock-free queue, and below about the lock-free stack   *)
(* that it is made of, for any number of calls.                            *)
(*                                                                         *)
(* The argument for the queue.  With one consumer, whatever ConsumeAll has *)
(* yet to pass on is older than what it has passed on, and both are older  *)
(* than main_; ConsumeAll is called with an empty reserve_ only, and the   *)
(* batch is empty outside it.  So the values in the order of their Puts    *)
(* are the batch reversed, reserve_, and main_ reversed, and the steps of  *)
(* a refill move values between the three without changing that list.      *)
(***************************************************************************)
EXTENDS SequenceFacts, LockFreeQueue, LockFreeStack, WellFoundedInduction,
        FiniteSetTheorems

Values == 1..MaxPuts

(* the queue with the consumer c *)
QueueInv(c) ==
  /\ main \in Seq(Values) /\ reserve \in Seq(Values) /\ batch \in [{c} -> Seq(Values)]
  /\ control \in [{c} -> {"idle", "consume", "refill", "pop", "again"}]
  /\ puts \in Nat
  /\ control[c] /= "refill" => batch[c] = <<>>
  /\ control[c] = "consume" => reserve = <<>>

(* the mapping, written with c *)
LEMMA QueueMapping ==
  ASSUME NEW c, Consumer = {c}
  PROVE  /\ Contents = Reverse(batch[c]) \o reserve \o Reverse(main)
         /\ Missed <=> control[c] \in {"refill", "pop"} /\ batch[c] = <<>>
                         /\ reserve = <<>>
         /\ Contents' = Reverse(batch'[c]) \o reserve' \o Reverse(main')
         /\ Missed' <=> control'[c] \in {"refill", "pop"} /\ batch'[c] = <<>>
                          /\ reserve' = <<>>
<1>1. (CHOOSE d \in Consumer : TRUE) = c
  OBVIOUS
<1>2. QED BY <1>1 DEF Contents, TheBatch, Missed

(* a step that the caller of the queue does not see *)
Hidden == UNCHANGED <<Contents, Returned>>

LEMMA ReverseType ==
  ASSUME NEW s \in Seq(Values)
  PROVE  /\ Reverse(s) \in Seq(Values)
         /\ s \o <<>> = s /\ <<>> \o s = s
         /\ Reverse(s) = <<>> <=> s = <<>>
<1>1. Reverse(s) \in Seq(Values) /\ ToSet(Reverse(s)) = ToSet(s)
  BY ReverseFacts
<1>2. Reverse(s) = <<>> <=> s = <<>>
  BY <1>1, EmptyIffNone
<1>3. QED BY <1>1, <1>2, ConcatEmptySeq

LEMMA PutRefines ==
  ASSUME NEW c, Consumer = {c}, QueueInv(c), Put
  PROVE  QueueInv(c)' /\ \E v \in Values : Fifo!Put(v)
<1>1. /\ puts < MaxPuts /\ puts' = puts + 1 /\ main' = <<puts + 1>> \o main
      /\ UNCHANGED <<reserve, control, batch, out>>
  BY DEF Put
<1>2. puts + 1 \in Values
  BY <1>1, QueueAssumption DEF QueueInv, Values
<1>3. main' \in Seq(Values)
  BY <1>1, <1>2, PushFacts DEF QueueInv
<1>4. QueueInv(c)'
  BY <1>1, <1>3 DEF QueueInv
<1>5. Contents' = Append(Contents, puts + 1)
  <2> DEFINE old == Reverse(batch[c]) \o reserve
  <2>1. Reverse(main') = Append(Reverse(main), puts + 1)
    BY <1>1, <1>2, ReversePush DEF QueueInv
  <2>2. Reverse(batch[c]) \in Seq(Values) /\ Reverse(main) \in Seq(Values)
    BY ReverseType DEF QueueInv
  <2>3. old \in Seq(Values)
    BY <2>2, ConcatProperties DEF QueueInv
  <2>4. old \o Append(Reverse(main), puts + 1) = Append(old \o Reverse(main), puts + 1)
    BY <1>2, <2>2, <2>3, ConcatAppend
  <2>5. QED BY <1>1, <2>1, <2>4, QueueMapping
<1>6. Returned' = Returned
  BY <1>1, QueueMapping DEF Returned
<1>7. QED BY <1>2, <1>4, <1>5, <1>6 DEF Fifo!Put

LEMMA TakeHidden ==
  ASSUME NEW c, Consumer = {c}, QueueInv(c), TakeCall(c) \/ TakeAgain(c)
  PROVE  QueueInv(c)' /\ Hidden
<1>1. /\ control[c] \in {"idle", "again"}
      /\ control' = [control EXCEPT ![c] = IF reserve = <<>> THEN "consume" ELSE "pop"]
      /\ UNCHANGED <<main, reserve, batch, puts, out>>
  BY DEF TakeCall, TakeAgain, TakeCheck, QueueGoto
<1>2. control'[c] = IF reserve = <<>> THEN "consume" ELSE "pop"
  BY <1>1 DEF QueueInv
<1>3. QueueInv(c)'
  BY <1>1, <1>2 DEF QueueInv
<1>4. ~Missed /\ ~Missed'
  BY <1>1, <1>2, QueueMapping
<1>5. Contents' = Contents
  BY <1>1, QueueMapping
<1>6. QED BY <1>1, <1>3, <1>4, <1>5 DEF Hidden, Returned

(* Taking over an empty main_ is when Take finds the queue empty. *)
LEMMA ConsumeAllRefines ==
  ASSUME NEW c, Consumer = {c}, QueueInv(c), ConsumeAll(c)
  PROVE  QueueInv(c)' /\ (Fifo!TakeEmpty \/ Hidden)
<1>1. /\ control[c] = "consume" /\ batch' = [batch EXCEPT ![c] = main] /\ main' = <<>>
      /\ control' = [control EXCEPT ![c] = "refill"]
      /\ UNCHANGED <<reserve, puts, out>>
  BY DEF ConsumeAll, QueueGoto
<1>2. control'[c] = "refill" /\ batch'[c] = main /\ batch[c] = <<>> /\ reserve = <<>>
  BY <1>1 DEF QueueInv
<1>3. QueueInv(c)'
  BY <1>1, <1>2 DEF QueueInv
<1>4. Reverse(main) \in Seq(Values) /\ main \in Seq(Values)
  BY ReverseType DEF QueueInv
<1>5. Contents = Reverse(main) /\ Contents' = Reverse(main)
  <2>1. <<>> \o <<>> = <<>> /\ Reverse(<<>>) = <<>>
    BY ReverseEmpty
  <2>2. Reverse(main) \o <<>> = Reverse(main) /\ <<>> \o Reverse(main) = Reverse(main)
    BY <1>4, ReverseType
  <2>3. Contents = Reverse(<<>>) \o <<>> \o Reverse(main)
    BY <1>2, QueueMapping
  <2>4. Contents' = Reverse(main) \o <<>> \o Reverse(<<>>)
    BY <1>1, <1>2, QueueMapping
  <2>5. QED BY <2>1, <2>2, <2>3, <2>4
<1>6. ~Missed /\ (Missed' <=> main = <<>>)
  BY <1>1, <1>2, QueueMapping
<1>7. CASE main = <<>>
  BY <1>1, <1>3, <1>5, <1>6, <1>7, ReverseEmpty DEF Fifo!TakeEmpty, Returned
<1>8. CASE main /= <<>>
  BY <1>1, <1>3, <1>5, <1>6, <1>8 DEF Hidden, Returned
<1>9. QED BY <1>7, <1>8

LEMMA RefillHidden ==
  ASSUME NEW c, Consumer = {c}, QueueInv(c), Refill(c)
  PROVE  QueueInv(c)' /\ Hidden
<1> DEFINE h == Head(batch[c])
           t == Tail(batch[c])
<1>1. /\ control[c] = "refill" /\ batch[c] /= <<>>
      /\ reserve' = <<h>> \o reserve
      /\ batch' = [batch EXCEPT ![c] = t]
      /\ UNCHANGED <<main, control, puts, out>>
  BY DEF Refill
<1>2. batch[c] \in Seq(Values) /\ h \in Values /\ t \in Seq(Values) /\ batch'[c] = t
  BY <1>1, PopFacts DEF QueueInv
<1>3. batch[c] = <<h>> \o t
  BY <1>1, <1>2
<1> HIDE DEF h, t
<1>4. reserve' \in Seq(Values) /\ reserve' /= <<>>
  BY <1>1, <1>2, PushFacts DEF QueueInv
<1>5. QueueInv(c)'
  BY <1>1, <1>2, <1>4 DEF QueueInv
<1>6. Reverse(t) \o reserve' = Reverse(batch[c]) \o reserve
  <2>1. Reverse(t) \in Seq(Values) /\ <<h>> \in Seq(Values)
    BY <1>2, ReverseType
  <2>2. Reverse(batch[c]) = Append(Reverse(t), h)
    BY <1>2, <1>3, ReversePush
  <2>3. Append(Reverse(t), h) = Reverse(t) \o <<h>>
    BY <1>2, <2>1, AppendIsConcat
  <2>4. Reverse(t) \o (<<h>> \o reserve) = (Reverse(t) \o <<h>>) \o reserve
    BY <2>1, ConcatAssociative DEF QueueInv
  <2>5. QED BY <1>1, <2>2, <2>3, <2>4
<1>7. Contents' = Contents
  BY <1>1, <1>2, <1>6, QueueMapping
<1>8. ~Missed /\ ~Missed'
  BY <1>1, <1>4, QueueMapping
<1>9. QED BY <1>1, <1>5, <1>7, <1>8 DEF Hidden, Returned

LEMMA RefillEndHidden ==
  ASSUME NEW c, Consumer = {c}, QueueInv(c), RefillEnd(c)
  PROVE  QueueInv(c)' /\ Hidden
<1>1. /\ control[c] = "refill" /\ batch[c] = <<>>
      /\ control' = [control EXCEPT ![c] = "pop"]
      /\ UNCHANGED <<main, reserve, batch, puts, out>>
  BY DEF RefillEnd, QueueGoto
<1>2. control'[c] = "pop"
  BY <1>1 DEF QueueInv
<1>3. QueueInv(c)'
  BY <1>1, <1>2 DEF QueueInv
<1>4. Contents' = Contents /\ (Missed' <=> Missed)
  BY <1>1, <1>2, QueueMapping
<1>5. QED BY <1>1, <1>3, <1>4 DEF Hidden, Returned

LEMMA TryPopRefines ==
  ASSUME NEW c, Consumer = {c}, QueueInv(c), TryPop(c)
  PROVE  QueueInv(c)' /\ (Fifo!Take \/ Hidden)
<1>1. /\ control[c] = "pop" /\ batch[c] = <<>>
      /\ control' = [control EXCEPT ![c] = IF all[c] /\ reserve /= <<>> THEN "again"
                                           ELSE "idle"]
      /\ UNCHANGED <<main, batch, puts>>
  BY DEF TryPop, QueueGoto, QueueInv
<1>2. control'[c] \in {"idle", "again"} /\ control' \in [{c} -> {"idle", "again"}]
  BY <1>1 DEF QueueInv
<1>3. ~Missed'
  BY <1>2, QueueMapping
<1>4. CASE reserve = <<>>
  <2>1. out' = Append(out, Nullopt) /\ UNCHANGED reserve
    BY <1>4 DEF TryPop
  <2>2. QueueInv(c)'
    BY <1>1, <1>2, <2>1 DEF QueueInv
  <2>3. Missed /\ Contents' = Contents
    BY <1>1, <1>4, <2>1, QueueMapping
  <2>4. QED BY <1>3, <2>1, <2>2, <2>3 DEF Hidden, Returned
<1>5. CASE reserve /= <<>>
  <2>1. out' = Append(out, Head(reserve)) /\ reserve' = Tail(reserve)
    BY <1>5 DEF TryPop
  <2>2. reserve \in Seq(Values) /\ reserve' \in Seq(Values)
    BY <1>5, <2>1, PopFacts DEF QueueInv
  <2>3. QueueInv(c)'
    BY <1>1, <1>2, <2>2 DEF QueueInv
  <2>4. ~Missed
    BY <1>5, QueueMapping
  <2>5. Reverse(main) \in Seq(Values)
    BY ReverseType DEF QueueInv
  <2>6. Contents = reserve \o Reverse(main) /\ Contents' = Tail(reserve) \o Reverse(main)
    <3>1. <<>> \o reserve = reserve /\ <<>> \o Tail(reserve) = Tail(reserve)
      BY <2>1, <2>2, ReverseType
    <3>2. QED BY <1>1, <2>1, <3>1, QueueMapping, ReverseEmpty
  <2>7. Fifo!Take
    BY <1>3, <1>5, <2>1, <2>2, <2>4, <2>5, <2>6, ConcatHeadTail DEF Fifo!Take, Returned
  <2>8. QED BY <2>3, <2>7
<1>6. QED BY <1>4, <1>5

LEMMA QueueStepRefines ==
  ASSUME NEW c, Consumer = {c}, QueueInv(c), [QueueNext]_queueVars
  PROVE  QueueInv(c)' /\ [Fifo!Next]_<<Contents, Returned>>
<1>1. CASE Put
  BY <1>1, PutRefines DEF Fifo!Next, Values
<1>2. CASE \E d \in Consumer : \/ TakeCall(d) \/ TakeAgain(d) \/ ConsumeAll(d)
                               \/ Refill(d) \/ RefillEnd(d) \/ TryPop(d)
  <2>1. \/ TakeCall(c) \/ TakeAgain(c) \/ ConsumeAll(c)
        \/ Refill(c) \/ RefillEnd(c) \/ TryPop(c)
    BY <1>2
  <2>2. QueueInv(c)' /\ (Fifo!Take \/ Fifo!TakeEmpty \/ Hidden)
    BY <2>1, TakeHidden, ConsumeAllRefines, RefillHidden, RefillEndHidden, TryPopRefines
  <2>3. QED BY <2>2 DEF Fifo!Next, Hidden
<1>3. CASE UNCHANGED queueVars
  <2>1. UNCHANGED <<main, reserve, control, batch, all, puts, takes, out>>
    BY <1>3 DEF queueVars
  <2>2. QueueInv(c)'
    BY <2>1 DEF QueueInv
  <2>3. Contents' = Contents /\ (Missed' <=> Missed)
    BY <2>1, QueueMapping
  <2>4. QED BY <2>1, <2>2, <2>3 DEF Returned
<1>4. QED BY <1>1, <1>2, <1>3 DEF QueueNext, QueueExhausted

(* With one consumer the queue made of two stacks is a FIFO queue whose    *)
(* Put and Take are atomic, whatever is put while Take refills reserve_.   *)
THEOREM QueueRefinement == (\E c : Consumer = {c}) => (QueueSpec => ImplementsFifo)
<1> SUFFICES ASSUME NEW c, Consumer = {c}
             PROVE  QueueSpec => ImplementsFifo
  OBVIOUS
<1>1. QueueInit => QueueInv(c) /\ Fifo!Init
  <2> SUFFICES ASSUME QueueInit PROVE QueueInv(c) /\ Fifo!Init
    OBVIOUS
  <2>1. /\ main = <<>> /\ reserve = <<>> /\ control = [d \in {c} |-> "idle"]
        /\ batch = [d \in {c} |-> <<>>] /\ puts = 0 /\ out = <<>>
    BY DEF QueueInit
  <2>2. <<>> \in Seq(Values) /\ batch[c] = <<>> /\ control[c] = "idle"
    BY <2>1
  <2>3. QueueInv(c)
    BY <2>1, <2>2 DEF QueueInv
  <2>4. <<>> \o <<>> = <<>> /\ Reverse(<<>>) = <<>>
    BY ReverseEmpty
  <2>5. Contents = <<>> /\ ~Missed
    BY <2>1, <2>2, <2>4, QueueMapping
  <2>6. QED BY <2>1, <2>3, <2>5 DEF Fifo!Init, Returned
<1>2. QueueInv(c) /\ [QueueNext]_queueVars
        => QueueInv(c)' /\ [Fifo!Next]_<<Contents, Returned>>
  BY QueueStepRefines
<1>3. QED BY <1>1, <1>2, PTL DEF QueueSpec, ImplementsFifo, Fifo!Spec

----------------------------------------------------------------------------
(***************************************************************************)
(* Proofs about the lock-free stack, for all sets of threads and addresses *)
(* and any number of calls, as long as the 16-bit stamp does not come to   *)
(* its limit.                                                              *)
(*                                                                         *)
(* The argument.  The balance of a node is the number of references that   *)
(* threads hold on it less global: what global is short of.  Each word     *)
(* that points to a node, be it head_, the next of a node that is linked   *)
(* or the local pointer of ConsumeAll, has the balance of that node for    *)
(* its stamp; acquiring raises both, releasing changes neither.  A node    *)
(* that was popped is short of its stamp less one.  A node that was given  *)
(* its stamp has the balance 0, that is global counts its references, and  *)
(* lives as long as there are any.  While a node is linked or owned,       *)
(* global is at most 0 and is lowered only: nobody deletes it.             *)
(***************************************************************************)

Refs(n) == {t \in Thread : pc[t] \in {"pop", "release"} /\ cur[t].ptr = n}

Balance == [n \in Node |-> Cardinality(Refs(n)) - global[n]]

(* sp points to the i-th node of s, with its balance, or behind the last *)
Points(bal, sp, s, i) ==
  /\ sp.ptr = IF i <= Len(s) THEN s[i] ELSE Null
  /\ i <= Len(s) => sp.stamp = bal[s[i]]

(* s is the list that starts with the word sp *)
Segment(links, bal, sp, s) ==
  /\ s \in Seq(Node) /\ IsInjective(s)
  /\ Points(bal, sp, s, 1)
  /\ \A i \in 1..Len(s) : Points(bal, links[s[i]], s, i + 1)

(* the stack, and the list that a thread drains *)
List == Trail(next, head.ptr)

Drained == [t \in Thread |-> IF pc[t] = "drain" THEN Trail(next, cur[t].ptr) ELSE <<>>]

(* the nodes that only one thread can unlink or delete *)
Held == [t \in Thread |->
           IF pc[t] \in {"push", "taken"} THEN {cur[t].ptr} ELSE ToSet(Drained[t])]

(* the stack and the lists of the threads that drain are lists of counted nodes *)
ListInv ==
  /\ Segment(next, Balance, head, List)
  /\ \A t \in Thread : pc[t] = "drain" => Segment(next, Balance, cur[t], Drained[t])

(* a node is in the stack or belongs to one thread; nobody deletes it *)
OwnerInv ==
  /\ \A t \in Thread : ToSet(List) \cap Held[t] = {}
  /\ \A t, u \in Thread : t /= u => Held[t] \cap Held[u] = {}
  /\ \A n \in ToSet(List) : n \in live /\ global[n] <= 0
  /\ \A t \in Thread : \A n \in Held[t] : n \in live /\ global[n] <= 0

(* what a thread knows of its node *)
ThreadInv ==
  \A t \in Thread :
    /\ pc[t] \in {"pop", "release"} => cur[t].ptr \in live
    /\ pc[t] = "push" =>
         /\ cur[t].stamp = 0
         /\ Balance[cur[t].ptr] = 0 /\ global[cur[t].ptr] = 0
         /\ value[cur[t].ptr] \in 1..MaxPushes
    /\ pc[t] = "taken" => Balance[cur[t].ptr] = cur[t].stamp - 1

(* the other nodes that live are those to which there are references *)
RestInv ==
  \A n \in live : \/ n \in ToSet(List)
                  \/ \E t \in Thread : n \in Held[t]
                  \/ Balance[n] = 0 /\ global[n] /= 0

(* the values of a list that can be delivered were pushed *)
ValueInv ==
  /\ \A n \in ToSet(List) : value[n] \in 1..MaxPushes
  /\ \A t \in Thread : \A n \in Held[t] : value[n] \in 1..MaxPushes

StackInv ==
  StackTypeOK /\ ListInv /\ OwnerInv /\ ThreadInv /\ RestInv /\ ValueInv

----------------------------------------------------------------------------
(* Lists of nodes *)

(* Every set of natural numbers that is not empty has a least member. *)
LEMMA LeastNat ==
  ASSUME NEW T \in SUBSET Nat, T /= {}
  PROVE  \E n \in T : \A m \in T : n <= m
<1> DEFINE R == OpToRel(<, Nat)
<1>1. IsWellFoundedOn(R, Nat)
  BY ONLY NatLessThanWellFounded, Zenon
<1>2. R = {ss \in Nat \X Nat : ss[1] < ss[2]}
  BY DEF OpToRel
<1> HIDE DEF R
<1>3. PICK n \in T : \A m \in T : ~(<<m, n>> \in R)
  BY <1>1, WFMin
<1>4. ASSUME NEW m \in T
      PROVE  n <= m
  <2>1. m \in Nat /\ n \in Nat
    OBVIOUS
  <2>2. m < n => <<m, n>> \in R
    BY <1>2, <2>1
  <2>3. QED BY <1>3, <2>1, <2>2
<1>5. QED BY <1>3, <1>4

(* If some function satisfies the equations of Walk, Walk does. *)
LEMMA WalkEquation ==
  ASSUME NEW links, NEW p, NEW w,
         w = [i \in Nat |-> IF i = 0 THEN p
                            ELSE IF w[i - 1] = Null THEN Null ELSE links[w[i - 1]].ptr]
  PROVE  \A i \in Nat : Walk(links, p)[i] =
           IF i = 0 THEN p
           ELSE IF Walk(links, p)[i - 1] = Null THEN Null
                ELSE links[Walk(links, p)[i - 1]].ptr
<1> DEFINE P(f) == f = [i \in Nat |-> IF i = 0 THEN p
                          ELSE IF f[i - 1] = Null THEN Null ELSE links[f[i - 1]].ptr]
<1>1. Walk(links, p) = CHOOSE f : P(f)
  BY DEF Walk
<1>2. P(w)
  OBVIOUS
<1>3. P(Walk(links, p))
  <2> HIDE DEF P
  <2> QED BY <1>1, <1>2
<1>4. QED BY <1>3

(* Walk finds the nodes of a list, and Null after them. *)
LEMMA WalkOfSegment ==
  ASSUME NEW links, NEW bal, NEW sp, NEW s, Segment(links, bal, sp, s)
  PROVE  \A i \in Nat : Walk(links, sp.ptr)[i] = IF i < Len(s) THEN s[i + 1] ELSE Null
<1> DEFINE w == [i \in Nat |-> IF i < Len(s) THEN s[i + 1] ELSE Null]
           f == Walk(links, sp.ptr)
<1>1. /\ Len(s) \in Nat /\ \A i \in 1..Len(s) : s[i] \in Node
      /\ \A i \in 1..Len(s) : s[i] /= Null
  BY StackAssumption, LenProperties, ElementOfSeq DEF Segment
<1>2. \A i \in Nat : w[i] = IF i = 0 THEN sp.ptr
                            ELSE IF w[i - 1] = Null THEN Null ELSE links[w[i - 1]].ptr
  <2>1. TAKE i \in Nat
  <2>2. CASE i = 0
    BY <1>1, <2>2 DEF Segment, Points
  <2>3. CASE i > 0 /\ i - 1 < Len(s)
    <3>1. i \in 1..Len(s) /\ i - 1 \in Nat /\ w[i - 1] = s[i]
      BY <1>1, <2>3
    <3>2. links[s[i]].ptr = IF i + 1 <= Len(s) THEN s[i + 1] ELSE Null
      BY <3>1 DEF Segment, Points
    <3>3. QED BY <1>1, <2>3, <3>1, <3>2
  <2>4. CASE i > 0 /\ ~(i - 1 < Len(s))
    <3>1. i - 1 \in Nat /\ w[i - 1] = Null /\ ~(i < Len(s))
      BY <1>1, <2>4
    <3>2. QED BY <2>4, <3>1
  <2>5. QED BY <2>2, <2>3, <2>4
<1>3. w = [i \in Nat |-> IF i = 0 THEN sp.ptr
             ELSE IF w[i - 1] = Null THEN Null ELSE links[w[i - 1]].ptr]
  BY <1>2
<1> HIDE DEF w
<1>4. \A i \in Nat : f[i] = IF i = 0 THEN sp.ptr
                            ELSE IF f[i - 1] = Null THEN Null ELSE links[f[i - 1]].ptr
  BY <1>3, WalkEquation
<1> HIDE DEF f
<1>5. \A i \in Nat : f[i] = w[i]
  <2> DEFINE T == {i \in Nat : f[i] /= w[i]}
  <2> SUFFICES ASSUME T /= {} PROVE FALSE
    OBVIOUS
  <2>1. PICK i \in T : \A j \in T : i <= j
    BY LeastNat
  <2>2. i /= 0
    BY <1>2, <1>4, <2>1
  <2>3. i - 1 \in Nat /\ i - 1 \notin T
    BY <2>1, <2>2
  <2>4. f[i - 1] = w[i - 1]
    BY <2>3
  <2>5. QED BY <1>2, <1>4, <2>1, <2>2, <2>4
<1>6. QED BY <1>5 DEF w, f

(* A list without repetitions is not longer than there are nodes. *)
LEMMA SegmentLength ==
  ASSUME NEW s \in Seq(Node), IsInjective(s)
  PROVE  Len(s) <= Cardinality(Node)
<1>1. Len(s) \in Nat /\ DOMAIN s = 1..Len(s) /\ s \in [1..Len(s) -> Node]
  BY LenProperties
<1>2. s \in Injection(1..Len(s), Node)
  BY <1>1 DEF Injection
<1>3. Cardinality(1..Len(s)) <= Cardinality(Node)
  BY <1>2, StackAssumption, FS_Injection
<1>4. Cardinality(1..Len(s)) = Len(s)
  <2>1. Cardinality(1..Len(s)) = IF 1 > Len(s) THEN 0 ELSE Len(s) - 1 + 1
    <3>1. 1 \in Int /\ Len(s) \in Int
      BY <1>1
    <3>2. QED BY <3>1, FS_Interval, Zenon
  <2>2. QED BY <1>1, <2>1
<1>5. QED BY <1>3, <1>4

(* What is linked to a word is a list, if there is one, and no other. *)
LEMMA SegmentTrail ==
  ASSUME NEW links, NEW bal, NEW sp, NEW s, Segment(links, bal, sp, s)
  PROVE  Trail(links, sp.ptr) = s
<1> DEFINE f == Walk(links, sp.ptr)
           N == Cardinality(Node)
           P(i) == /\ f[i] = Null \/ i = N
                   /\ \A j \in 0..(i - 1) : f[j] /= Null
<1>1. /\ s \in Seq(Node) /\ Len(s) \in Nat /\ Len(s) <= N /\ N \in Nat
      /\ \A i \in 1..Len(s) : s[i] /= Null
      /\ s = [i \in 1..Len(s) |-> s[i]]
  BY StackAssumption, LenProperties, ElementOfSeq, SegmentLength, FS_CardinalityType
     DEF Segment
<1>2. \A i \in Nat : f[i] = IF i < Len(s) THEN s[i + 1] ELSE Null
  BY WalkOfSegment
<1> HIDE DEF f
<1>3. P(Len(s))
  BY <1>1, <1>2
<1>4. ASSUME NEW i \in 0..N, P(i)
      PROVE  i = Len(s)
  <2>1. ~(i < Len(s))
    <3> SUFFICES ASSUME i < Len(s) PROVE FALSE
      OBVIOUS
    <3>1. f[i] = s[i + 1] /\ i + 1 \in 1..Len(s)
      BY <1>1, <1>2
    <3>2. QED BY <1>1, <1>4, <3>1
  <2>2. ~(i > Len(s))
    BY <1>1, <1>2, <1>4
  <2>3. QED BY <1>1, <2>1, <2>2
<1>5. (CHOOSE i \in 0..N : P(i)) = Len(s)
  <2>1. Len(s) \in 0..N
    BY <1>1
  <2> HIDE DEF P
  <2>2. QED BY <1>3, <1>4, <2>1
<1>6. Trail(links, sp.ptr) = [i \in 1..Len(s) |-> f[i - 1]]
  BY <1>5 DEF Trail, f
<1>7. \A i \in 1..Len(s) : f[i - 1] = s[i]
  BY <1>1, <1>2
<1>8. QED BY <1>1, <1>6, <1>7

(* A list is not changed by what happens to other nodes. *)
LEMMA SegmentFrame ==
  ASSUME NEW links, NEW bal, NEW sp, NEW s, Segment(links, bal, sp, s),
         NEW links2, NEW bal2,
         \A n \in ToSet(s) : links2[n] = links[n] /\ bal2[n] = bal[n]
  PROVE  Segment(links2, bal2, sp, s)
<1>1. Len(s) \in Nat /\ \A i \in 1..Len(s) : s[i] \in ToSet(s)
  BY LenProperties DEF Segment, ToSet
<1>2. QED BY <1>1 DEF Segment, Points

LEMMA SegmentEmpty ==
  ASSUME NEW links, NEW bal, NEW sp, NEW s
  PROVE  /\ Segment(links, bal, sp, s) => (sp.ptr = Null <=> s = <<>>)
         /\ sp.ptr = Null => Segment(links, bal, sp, <<>>)
<1>1. ASSUME Segment(links, bal, sp, s)
      PROVE  sp.ptr = Null <=> s = <<>>
  <2>1. Len(s) \in Nat /\ (Len(s) = 0 <=> s = <<>>) /\ \A i \in 1..Len(s) : s[i] \in Node
    BY <1>1, LenProperties, EmptySeq, ElementOfSeq DEF Segment
  <2>2. QED BY <1>1, <2>1, StackAssumption DEF Segment, Points
<1>2. sp.ptr = Null => Segment(links, bal, sp, <<>>)
  <2>1. <<>> \in Seq(Node) /\ Len(<<>>) = 0 /\ IsInjective(<<>>)
    BY EmptyFacts
  <2>2. QED BY <2>1 DEF Segment, Points
<1>3. QED BY <1>1, <1>2

(* The word of the first node leads to the rest. *)
LEMMA SegmentTail ==
  ASSUME NEW links, NEW bal, NEW sp, NEW s, Segment(links, bal, sp, s), s /= <<>>
  PROVE  /\ Head(s) = sp.ptr /\ bal[sp.ptr] = sp.stamp
         /\ Segment(links, bal, links[sp.ptr], Tail(s))
<1> DEFINE t == Tail(s)
<1>1. /\ s \in Seq(Node) /\ Len(s) \in Nat /\ Len(s) >= 1
      /\ Head(s) = s[1] /\ t \in Seq(Node) /\ Len(t) = Len(s) - 1
      /\ \A i \in 1..Len(t) : t[i] = s[i + 1]
  BY HeadTailProperties, LenProperties, EmptySeq DEF Segment
<1>2. IsInjective(t)
  BY <1>1, PopFacts DEF Segment
<1> HIDE DEF t
<1>3. sp.ptr = s[1] /\ sp.stamp = bal[s[1]]
  BY <1>1 DEF Segment, Points
<1>4. Points(bal, links[s[1]], t, 1)
  BY <1>1 DEF Segment, Points
<1>5. ASSUME NEW i \in 1..Len(t)
      PROVE  Points(bal, links[t[i]], t, i + 1)
  <2>1. i + 1 \in 1..Len(s) /\ t[i] = s[i + 1]
    BY <1>1
  <2>2. Points(bal, links[s[i + 1]], s, (i + 1) + 1)
    BY <2>1 DEF Segment
  <2>3. i + 1 <= Len(t) <=> (i + 1) + 1 <= Len(s)
    BY <1>1
  <2>4. i + 1 <= Len(t) => t[i + 1] = s[(i + 1) + 1]
    BY <1>1
  <2>5. QED BY <2>1, <2>2, <2>3, <2>4 DEF Points
<1>6. QED BY <1>1, <1>2, <1>3, <1>4, <1>5 DEF Segment, t

(* A node that is linked in front *)
LEMMA SegmentPush ==
  ASSUME NEW links, NEW bal, NEW sp, NEW s, Segment(links, bal, sp, s),
         NEW n \in Node, n \notin ToSet(s), links[n] = sp, bal[n] = 0
  PROVE  Segment(links, bal, Stamped(n, 0), <<n>> \o s)
<1> DEFINE q == <<n>> \o s
<1>1. /\ s \in Seq(Node) /\ Len(s) \in Nat /\ IsInjective(s)
  BY LenProperties DEF Segment
<1>2. q \in Seq(Node) /\ IsInjective(q)
  BY <1>1, PushFacts
<1>3. /\ Len(q) = Len(s) + 1 /\ q[1] = n
      /\ \A i \in 1..Len(s) : q[i + 1] = s[i]
  <2>1. <<n>> \in Seq(Node) /\ Len(<<n>>) = 1 /\ <<n>>[1] = n
    OBVIOUS
  <2>2. /\ Len(q) = 1 + Len(s)
        /\ \A i \in 1..(1 + Len(s)) : q[i] = IF i <= 1 THEN <<n>>[i] ELSE s[i - 1]
    BY <1>1, <2>1, ConcatProperties
  <2>3. QED BY <1>1, <2>1, <2>2
<1> HIDE DEF q
<1>4. Points(bal, Stamped(n, 0), q, 1)
  BY <1>1, <1>3 DEF Points, Stamped
<1>5. ASSUME NEW i \in 1..Len(q)
      PROVE  Points(bal, links[q[i]], q, i + 1)
  <2>1. CASE i = 1
    <3>1. Points(bal, sp, s, 1)
      BY DEF Segment
    <3>2. 1 <= Len(s) => q[2] = s[1]
      BY <1>1, <1>3
    <3>3. QED BY <1>1, <1>3, <2>1, <3>1, <3>2 DEF Points
  <2>2. CASE i /= 1
    <3>1. i - 1 \in 1..Len(s) /\ q[i] = s[i - 1]
      BY <1>1, <1>3, <2>2
    <3>2. Points(bal, links[s[i - 1]], s, (i - 1) + 1)
      BY <3>1 DEF Segment
    <3>3. (i - 1) + 1 = i
      OBVIOUS
    <3>4. i <= Len(s) => q[i + 1] = s[i]
      BY <1>1, <1>3, <3>1
    <3>5. QED BY <1>1, <1>3, <3>1, <3>2, <3>3, <3>4 DEF Points
  <2>3. QED BY <2>1, <2>2
<1>6. QED BY <1>2, <1>4, <1>5 DEF Segment, q

(* A reference is acquired to the first node. *)
LEMMA SegmentBump ==
  ASSUME NEW links, NEW bal, NEW sp, NEW s, Segment(links, bal, sp, s), s /= <<>>,
         NEW sp2, sp2.ptr = sp.ptr, sp2.stamp = sp.stamp + 1,
         NEW bal2, bal2[sp.ptr] = bal[sp.ptr] + 1,
         \A n \in ToSet(s) : n /= sp.ptr => bal2[n] = bal[n]
  PROVE  Segment(links, bal2, sp2, s)
<1>1. /\ s \in Seq(Node) /\ Len(s) \in Nat /\ Len(s) >= 1 /\ DOMAIN s = 1..Len(s)
      /\ \A i \in 1..Len(s) : s[i] \in ToSet(s)
  BY LenProperties, EmptySeq DEF Segment, ToSet
<1>2. sp.ptr = s[1] /\ sp.stamp = bal[s[1]]
  BY <1>1 DEF Segment, Points
<1>3. \A i \in 1..Len(s) : i /= 1 => s[i] /= s[1]
  BY <1>1 DEF Segment, IsInjective
<1>4. \A i \in 1..Len(s) : i /= 1 => bal2[s[i]] = bal[s[i]]
  BY <1>1, <1>2, <1>3
<1>5. Points(bal2, sp2, s, 1)
  BY <1>1, <1>2 DEF Points
<1>6. ASSUME NEW i \in 1..Len(s)
      PROVE  Points(bal2, links[s[i]], s, i + 1)
  <2>1. Points(bal, links[s[i]], s, i + 1)
    BY DEF Segment
  <2>2. i + 1 <= Len(s) => bal2[s[i + 1]] = bal[s[i + 1]]
    BY <1>1, <1>4
  <2>3. QED BY <2>1, <2>2 DEF Points
<1>7. QED BY <1>5, <1>6 DEF Segment

----------------------------------------------------------------------------
(* Counting references *)

(* only t moves *)
Others(t) == \A u \in Thread : u /= t => pc'[u] = pc[u] /\ cur'[u] = cur[u]

LEMMA RefsFinite ==
  ASSUME NEW n
  PROVE  /\ IsFiniteSet(Refs(n)) /\ Cardinality(Refs(n)) \in Nat
         /\ Cardinality(Refs(n)) = 0 <=> Refs(n) = {}
<1>1. Refs(n) \subseteq Thread
  BY DEF Refs
<1>2. IsFiniteSet(Refs(n))
  BY <1>1, StackAssumption, FS_Subset
<1>3. QED BY <1>2, FS_CardinalityType, FS_EmptySet

LEMMA BalanceValue ==
  ASSUME NEW n \in Node
  PROVE  /\ Balance[n] = Cardinality(Refs(n)) - global[n]
         /\ Balance'[n] = Cardinality(Refs(n)') - global'[n]
BY DEF Balance

(* How the number of references to n changes when t moves. *)
LEMMA RefsCount ==
  ASSUME NEW t \in Thread, Others(t), NEW n
  PROVE  /\ (t \in Refs(n) <=> t \in Refs(n)') => Refs(n)' = Refs(n)
         /\ t \notin Refs(n) /\ t \in Refs(n)'
              => Cardinality(Refs(n)') = Cardinality(Refs(n)) + 1
         /\ t \in Refs(n) /\ t \notin Refs(n)'
              => Cardinality(Refs(n)') = Cardinality(Refs(n)) - 1
<1>1. \A u \in Thread \ {t} : u \in Refs(n) <=> u \in Refs(n)'
  BY DEF Refs, Others
<1>2. Refs(n) \subseteq Thread /\ Refs(n)' \subseteq Thread
  BY DEF Refs
<1>3. IsFiniteSet(Refs(n)) /\ Cardinality(Refs(n)) \in Nat
  BY RefsFinite
<1>4. ASSUME t \notin Refs(n), t \in Refs(n)'
      PROVE  Cardinality(Refs(n)') = Cardinality(Refs(n)) + 1
  <2>1. Refs(n)' = Refs(n) \cup {t}
    BY <1>1, <1>2, <1>4
  <2>2. QED BY <1>3, <1>4, <2>1, FS_AddElement
<1>5. ASSUME t \in Refs(n), t \notin Refs(n)'
      PROVE  Cardinality(Refs(n)') = Cardinality(Refs(n)) - 1
  <2>1. Refs(n)' = Refs(n) \ {t}
    BY <1>1, <1>2, <1>5
  <2>2. QED BY <1>3, <1>5, <2>1, FS_RemoveElement
<1>6. QED BY <1>1, <1>2, <1>4, <1>5

(* A step of t that moves nodes between the stack, t and the allocator,    *)
(* and leaves alone what the other threads own: S, E and H are what the    *)
(* stack, the list that t drains and the nodes of t become.                *)
Moved(t, S, E, H) ==
  /\ H = IF pc'[t] \in {"push", "taken"} THEN {cur'[t].ptr} ELSE ToSet(E)
  /\ Segment(next', Balance', head', S)
  /\ IF pc'[t] = "drain" THEN Segment(next', Balance', cur'[t], E) ELSE E = <<>>
  /\ ToSet(S) \cap H = {}
  /\ \A u \in Thread : u /= t => (ToSet(S) \cup H) \cap Held[u] = {}
  /\ \A n \in ToSet(S) \cup H :
       n \in live' /\ global'[n] <= 0 /\ value'[n] \in 1..MaxPushes
  /\ \A n \in live' : \/ n \in ToSet(S) \cup H
                      \/ \E u \in Thread : u /= t /\ n \in Held[u]
                      \/ Balance'[n] = 0 /\ global'[n] /= 0

(* what the step leaves alone *)
Kept(t) ==
  /\ \A u \in Thread : u /= t => \A n \in Held[u] :
       /\ next'[n] = next[n] /\ Balance'[n] = Balance[n] /\ value'[n] = value[n]
       /\ n \in live' /\ global'[n] <= 0
       /\ pc[u] = "push" => global'[n] = global[n]
  /\ \A u \in Thread, n \in Node : u /= t /\ u \in Refs(n) => n \in live'

(* what t knows afterwards *)
Known(t) ==
  /\ pc'[t] \in {"pop", "release"} => cur'[t].ptr \in live'
  /\ pc'[t] = "push" => /\ cur'[t].stamp = 0
                        /\ Balance'[cur'[t].ptr] = 0 /\ global'[cur'[t].ptr] = 0
  /\ pc'[t] = "taken" => Balance'[cur'[t].ptr] = cur'[t].stamp - 1

LEMMA StackStep ==
  ASSUME StackInv, StackTypeOK', NEW t \in Thread, Others(t),
         NEW S2, NEW E, NEW H, Moved(t, S2, E, H), Kept(t), Known(t)
  PROVE  /\ StackInv' /\ List' = S2
         /\ Drained' = [Drained EXCEPT ![t] = E]
<1> USE DEF Moved, Kept, Known
<1>1. List' = S2
  <2>1. Trail(next', head'.ptr) = S2
    BY SegmentTrail
  <2>2. QED BY <2>1 DEF List
<1>2. ASSUME NEW u \in Thread, u /= t
      PROVE  /\ pc'[u] = "drain" => Segment(next', Balance', cur'[u], Drained[u])
             /\ Drained'[u] = Drained[u]
  <2>1. pc'[u] = pc[u] /\ cur'[u] = cur[u]
    BY <1>2 DEF Others
  <2>2. CASE pc[u] = "drain"
    <3>1. Segment(next, Balance, cur[u], Drained[u])
      BY <2>2 DEF StackInv, ListInv
    <3>2. Held[u] = ToSet(Drained[u])
      BY <2>2 DEF Held
    <3>3. \A n \in ToSet(Drained[u]) : next'[n] = next[n] /\ Balance'[n] = Balance[n]
      BY <1>2, <3>2
    <3>4. Segment(next', Balance', cur[u], Drained[u])
      BY <3>1, <3>3, SegmentFrame
    <3>5. Trail(next', cur[u].ptr) = Drained[u]
      BY <3>4, SegmentTrail
    <3>6. Drained'[u] = Trail(next', cur'[u].ptr)
      BY <2>1, <2>2 DEF Drained
    <3>7. QED BY <2>1, <3>4, <3>5, <3>6
  <2>3. CASE pc[u] /= "drain"
    BY <2>1, <2>3 DEF Drained
  <2>4. QED BY <2>2, <2>3
<1>3. Drained'[t] = E
  <2>1. CASE pc'[t] = "drain"
    <3>1. Trail(next', cur'[t].ptr) = E
      BY <2>1, SegmentTrail
    <3>2. QED BY <2>1, <3>1 DEF Drained
  <2>2. QED BY <2>1 DEF Drained
<1>4. Drained' = [Drained EXCEPT ![t] = E]
  <2>1. Drained = [u \in Thread |-> Drained[u]] /\ Drained' = [u \in Thread |-> Drained'[u]]
    BY DEF Drained
  <2>2. QED BY <1>2, <1>3, <2>1
<1>5. Held'[t] = H /\ \A u \in Thread : u /= t => Held'[u] = Held[u]
  <2>1. \A u \in Thread : Held[u] =
          IF pc[u] \in {"push", "taken"} THEN {cur[u].ptr} ELSE ToSet(Drained[u])
    BY DEF Held
  <2>2. \A u \in Thread : Held'[u] =
          IF pc'[u] \in {"push", "taken"} THEN {cur'[u].ptr} ELSE ToSet(Drained'[u])
    BY DEF Held
  <2>3. Held'[t] = H
    BY <1>3, <2>2
  <2>4. ASSUME NEW u \in Thread, u /= t
        PROVE  Held'[u] = Held[u]
    <3>1. pc'[u] = pc[u] /\ cur'[u] = cur[u] /\ Drained'[u] = Drained[u]
      BY <1>2, <2>4 DEF Others
    <3>2. Held[u] = IF pc[u] \in {"push", "taken"} THEN {cur[u].ptr} ELSE ToSet(Drained[u])
      BY <2>1
    <3>3. Held'[u] =
            IF pc'[u] \in {"push", "taken"} THEN {cur'[u].ptr} ELSE ToSet(Drained'[u])
      BY <2>2
    <3>4. CASE pc[u] \in {"push", "taken"}
      BY <3>1, <3>2, <3>3, <3>4
    <3>5. CASE pc[u] \notin {"push", "taken"}
      BY <3>1, <3>2, <3>3, <3>5
    <3>6. QED BY <3>4, <3>5
  <2>5. QED BY <2>3, <2>4
<1>6. ListInv'
  BY <1>1, <1>2, <1>3 DEF ListInv
<1>7. OwnerInv'
  <2>1. \A u \in Thread : ToSet(S2) \cap Held'[u] = {}
    BY <1>5
  <2>2. \A u, v \in Thread : u /= v => Held'[u] \cap Held'[v] = {}
    <3>1. \A u, v \in Thread : u /= v => Held[u] \cap Held[v] = {}
      BY DEF StackInv, OwnerInv
    <3>2. \A u \in Thread : u /= t => H \cap Held[u] = {}
      OBVIOUS
    <3>3. TAKE u, v \in Thread
    <3>4. CASE u = t
      BY <1>5, <3>2, <3>4
    <3>5. CASE v = t
      BY <1>5, <3>2, <3>5
    <3>6. CASE u /= t /\ v /= t
      BY <1>5, <3>1, <3>6
    <3>7. QED BY <3>4, <3>5, <3>6
  <2>3. \A u \in Thread : \A n \in Held'[u] : n \in live' /\ global'[n] <= 0
    BY <1>5
  <2>4. QED BY <1>1, <2>1, <2>2, <2>3 DEF OwnerInv
<1>8. ThreadInv'
  <2>1. ASSUME NEW u \in Thread, u /= t
        PROVE  /\ pc'[u] \in {"pop", "release"} => cur'[u].ptr \in live'
               /\ pc'[u] = "push" =>
                    /\ cur'[u].stamp = 0
                    /\ Balance'[cur'[u].ptr] = 0 /\ global'[cur'[u].ptr] = 0
                    /\ value'[cur'[u].ptr] \in 1..MaxPushes
               /\ pc'[u] = "taken" => Balance'[cur'[u].ptr] = cur'[u].stamp - 1
    <3>1. pc'[u] = pc[u] /\ cur'[u] = cur[u]
      BY <2>1 DEF Others
    <3>2. ASSUME pc[u] \in {"pop", "release"}
          PROVE  cur[u].ptr \in live'
      <4>1. cur[u].ptr \in Node
        BY <3>2 DEF StackInv, ThreadInv, StackTypeOK
      <4>2. u \in Refs(cur[u].ptr)
        BY <3>2 DEF Refs
      <4>3. QED BY <2>1, <4>1, <4>2
    <3>3. ASSUME pc[u] \in {"push", "taken"}
          PROVE  cur[u].ptr \in Held[u]
      BY <3>3 DEF Held
    <3>4. ASSUME pc[u] = "push"
          PROVE  /\ cur[u].stamp = 0
                 /\ Balance'[cur[u].ptr] = 0 /\ global'[cur[u].ptr] = 0
                 /\ value'[cur[u].ptr] \in 1..MaxPushes
      BY <2>1, <3>3, <3>4 DEF StackInv, ThreadInv
    <3>5. ASSUME pc[u] = "taken"
          PROVE  Balance'[cur[u].ptr] = cur[u].stamp - 1
      BY <2>1, <3>3, <3>5 DEF StackInv, ThreadInv
    <3>6. QED BY <3>1, <3>2, <3>4, <3>5
  <2>2. pc'[t] = "push" => value'[cur'[t].ptr] \in 1..MaxPushes
    OBVIOUS
  <2>3. QED BY <2>1, <2>2 DEF ThreadInv
<1>9. RestInv'
  BY <1>1, <1>5 DEF RestInv
<1>10. ValueInv'
  <2>1. \A u \in Thread : \A n \in Held[u] : value[n] \in 1..MaxPushes
    BY DEF StackInv, ValueInv
  <2>2. \A u \in Thread : \A n \in Held'[u] : value'[n] \in 1..MaxPushes
    BY <1>5, <2>1
  <2>3. QED BY <1>1, <2>2 DEF ValueInv
<1>11. QED BY <1>1, <1>4, <1>6, <1>7, <1>8, <1>9, <1>10 DEF StackInv

(* What the invariant says of the stack and of one thread. *)
LEMMA StackFacts ==
  ASSUME StackInv, NEW t \in Thread
  PROVE  /\ List \in Seq(Node) /\ IsInjective(List) /\ Segment(next, Balance, head, List)
         /\ ToSet(List) \subseteq live /\ live \subseteq Node
         /\ pc[t] = "drain" => /\ Segment(next, Balance, cur[t], Drained[t])
                               /\ Held[t] = ToSet(Drained[t])
         /\ pc[t] /= "drain" => Drained[t] = <<>>
         /\ pc[t] \in {"push", "taken"} => /\ Held[t] = {cur[t].ptr}
                                           /\ cur[t].ptr \in live /\ cur[t].ptr \in Node
         /\ pc[t] \notin {"push", "taken", "drain"} => Held[t] = {}
         /\ Packed(head) = head /\ Packed(cur[t]) = cur[t]
         /\ \A n \in Node : Packed(next[n]) = next[n]
<1>1. /\ Segment(next, Balance, head, List)
      /\ pc[t] = "drain" => Segment(next, Balance, cur[t], Drained[t])
      /\ pc[t] /= "drain" => Drained[t] = <<>>
  BY DEF StackInv, ListInv, Drained
<1>2. live \subseteq Node /\ ToSet(List) \subseteq live
  BY DEF StackInv, StackTypeOK, OwnerInv
<1>3. Held[t] = IF pc[t] \in {"push", "taken"} THEN {cur[t].ptr} ELSE ToSet(Drained[t])
  BY DEF Held
<1>4. pc[t] \in {"push", "taken"} => cur[t].ptr \in live
  BY <1>3 DEF StackInv, OwnerInv
<1>5. ASSUME NEW sp \in StackWord
      PROVE  Packed(sp) = sp
  <2>1. sp.stamp \in 0..(StampMod - 1) /\ StampMod \in Nat
    BY StackAssumption DEF StackWord
  <2>2. sp.stamp % StampMod = sp.stamp
    BY <2>1
  <2>3. QED BY <2>2 DEF Packed, StackWord
<1>6. /\ Packed(head) = head /\ Packed(cur[t]) = cur[t]
      /\ \A n \in Node : Packed(next[n]) = next[n]
  BY <1>5 DEF StackInv, StackTypeOK
<1>7. ToSet(<<>>) = {}
  BY EmptyFacts
<1>8. QED BY <1>1, <1>2, <1>3, <1>4, <1>6, <1>7 DEF Segment

(* What the invariant says of the nodes of the stack and of the threads. *)
LEMMA OwnerFacts ==
  ASSUME StackInv
  PROVE  /\ \A u \in Thread : ToSet(List) \cap Held[u] = {}
         /\ \A u, v \in Thread : u /= v => Held[u] \cap Held[v] = {}
         /\ \A n \in ToSet(List) :
              n \in live /\ n \in Node /\ global[n] <= 0 /\ value[n] \in 1..MaxPushes
         /\ \A u \in Thread : \A n \in Held[u] :
              n \in live /\ n \in Node /\ global[n] <= 0 /\ value[n] \in 1..MaxPushes
         /\ \A u \in Thread, n \in Node : u \in Refs(n) => n \in live
         /\ \A n \in live : \/ n \in ToSet(List)
                            \/ \E u \in Thread : n \in Held[u]
                            \/ Balance[n] = 0 /\ global[n] /= 0
BY DEF StackInv, OwnerInv, RestInv, ValueInv, StackTypeOK, Refs, ThreadInv

(* The stamp of a word fits in 16 bits, as head_ does not come to its limit. *)
LEMMA StackTypeStep ==
  ASSUME StackInv, StampFits, [StackNext]_stackVars
  PROVE  StackTypeOK'
<1>1. /\ NullPtr \in StackWord /\ \A n \in Node : Stamped(n, 0) \in StackWord
      /\ \A sp \in StackWord : /\ sp.ptr \in Node \cup {Null}
                               /\ sp.stamp \in 0..(StampMod - 1)
                               /\ sp = [ptr |-> sp.ptr, stamp |-> sp.stamp]
  BY StackAssumption DEF StackWord, NullPtr, Stamped
<1>2. /\ StackTypeOK /\ {MaxPushes, MaxPops, MaxConsumes, MaxAcquires} \subseteq Nat
  BY StackAssumption DEF StackInv
<1>3. \A t \in Thread, v \in StackResult :
        [got EXCEPT ![t] = Append(@, v)] \in [Thread -> Seq(StackResult)]
  BY <1>2, AppendProperties DEF StackTypeOK
<1>4. \A t \in Thread, l \in StackControl :
        [pc EXCEPT ![t] = l] \in [Thread -> StackControl]
  BY <1>2 DEF StackTypeOK
<1>5. {"idle", "push", "load", "acquire", "pop", "taken", "release", "consume", "drain",
       "gone"} \subseteq StackControl
  BY DEF StackControl
<1>6. \A t \in Thread, sp \in StackWord :
        [cur EXCEPT ![t] = sp] \in [Thread -> StackWord]
  BY <1>2 DEF StackTypeOK
<1>7. Empty \in StackResult /\ 1..MaxPushes \subseteq StackResult
  BY DEF StackResult
<1>8. ASSUME NEW n \in Node, NEW v \in Int, IncrementGlobal(n, v)
      PROVE  global' \in [Node -> Int] /\ live' \subseteq Node
  BY <1>2, <1>8 DEF IncrementGlobal, StackTypeOK
<1>9. ASSUME NEW t \in Thread, PushStep(t)
      PROVE  StackTypeOK'
  <2>1. CASE PushNew(t)
    <3>1. PICK n \in Node \ live :
            /\ live' = live \cup {n}
            /\ value' = [value EXCEPT ![n] = pushes + 1]
            /\ next' = [next EXCEPT ![n] = NullPtr]
            /\ global' = [global EXCEPT ![n] = 0]
            /\ Local(t, Stamped(n, 0))
      BY <2>1 DEF PushNew
    <3>2. pushes + 1 \in 1..MaxPushes
      BY <1>2, <2>1 DEF PushNew, StackTypeOK
    <3>3. cur' \in [Thread -> StackWord] /\ pc' \in [Thread -> StackControl]
      BY <1>1, <1>4, <1>5, <1>6, <2>1, <3>1 DEF PushNew, Local, Goto
    <3>4. value' \in [Node -> StackResult] /\ next' \in [Node -> StackWord]
      BY <1>1, <1>2, <1>7, <3>1, <3>2 DEF StackTypeOK
    <3>5. global' \in [Node -> Int] /\ live' \subseteq Node /\ pushes' \in 0..MaxPushes
      BY <1>2, <2>1, <3>1, <3>2 DEF PushNew, StackTypeOK
    <3>6. QED BY <1>2, <2>1, <3>3, <3>4, <3>5 DEF PushNew, StackTypeOK
  <2>2. CASE PushCas(t)
    <3>1. head' \in StackWord /\ next' \in [Node -> StackWord]
      BY <1>2, <2>2 DEF PushCas, StackTypeOK
    <3>2. pc' \in [Thread -> StackControl]
      BY <1>2, <1>4, <1>5, <2>2 DEF PushCas, Goto, StackTypeOK
    <3>3. QED BY <1>2, <2>2, <3>1, <3>2 DEF PushCas, StackTypeOK, bvars
  <2>3. QED BY <1>9, <2>1, <2>2 DEF PushStep
<1>10. ASSUME NEW t \in Thread, PopStep(t)
       PROVE  StackTypeOK'
  <2>1. CASE PopCall(t)
    <3>1. pc' \in [Thread -> StackControl] /\ pops' \in 0..MaxPops
      BY <1>2, <1>4, <1>5, <2>1 DEF PopCall, Goto, StackTypeOK
    <3>2. QED BY <1>2, <2>1, <3>1 DEF PopCall, StackTypeOK, nvars
  <2>2. CASE AcquireLoad(t)
    <3>1. pc' \in [Thread -> StackControl] /\ cur' \in [Thread -> StackWord]
      BY <1>2, <1>4, <1>5, <1>6, <2>2 DEF AcquireLoad, Goto, Local, StackTypeOK
    <3>2. QED BY <1>2, <2>2, <3>1 DEF AcquireLoad, StackTypeOK, nvars, bvars
  <2>3. CASE AcquireCas(t)
    <3>1. CASE head = Packed(cur[t])
      <4>1. cur[t] \in StackWord /\ head = cur[t]
        BY <1>2, <3>1, StackFacts DEF StackTypeOK
      <4>2. /\ cur[t].stamp + 1 \in 0..(StampMod - 1) /\ StampMod \in Nat
            /\ (cur[t].stamp + 1) % StampMod = cur[t].stamp + 1
        BY <1>1, <4>1, StackAssumption DEF StampFits
      <4>3. IncrementStamp(cur[t]) = [ptr |-> cur[t].ptr, stamp |-> cur[t].stamp + 1]
        BY <1>1, <4>1 DEF IncrementStamp
      <4>4. Packed(IncrementStamp(cur[t])) = IncrementStamp(cur[t])
        BY <4>2, <4>3 DEF Packed
      <4>5. IncrementStamp(cur[t]) \in StackWord
        BY <1>1, <4>1, <4>2, <4>3 DEF StackWord
      <4>6. acquires + 1 \in 0..MaxAcquires
        BY <1>2, <2>3 DEF AcquireCas, StackTypeOK
      <4>7. got' \in [Thread -> Seq(StackResult)] /\ pc' \in [Thread -> StackControl]
        <5>1. CASE cur[t].ptr = Null
          <6>1. /\ got' = [got EXCEPT ![t] = Append(@, Empty)]
                /\ pc' = [pc EXCEPT ![t] = "idle"]
            BY <2>3, <3>1, <5>1 DEF AcquireCas, Receive, Goto
          <6>2. QED BY <1>3, <1>4, <1>5, <1>7, <6>1
        <5>2. CASE cur[t].ptr /= Null
          BY <1>2, <1>4, <1>5, <2>3, <3>1, <5>2 DEF AcquireCas, Goto, StackTypeOK
        <5>3. QED BY <5>1, <5>2
      <4>8. head' \in StackWord /\ cur' \in [Thread -> StackWord]
            /\ acquires' \in 0..MaxAcquires
        BY <1>6, <2>3, <3>1, <4>4, <4>5, <4>6 DEF AcquireCas, Local
      <4>9. QED BY <1>2, <2>3, <4>7, <4>8 DEF AcquireCas, StackTypeOK, nvars
    <3>2. CASE head /= Packed(cur[t])
      <4>1. cur' \in [Thread -> StackWord]
        BY <1>2, <1>6, <2>3, <3>2 DEF AcquireCas, Local, StackTypeOK
      <4>2. QED BY <1>2, <2>3, <3>2, <4>1 DEF AcquireCas, StackTypeOK, nvars
    <3>3. QED BY <3>1, <3>2
  <2>4. CASE PopCas(t)
    <3>1. cur[t].ptr \in Node /\ Packed(next[cur[t].ptr]) = next[cur[t].ptr]
      BY <2>4, StackFacts DEF PopCas, StackInv, ThreadInv
    <3>2. head' \in StackWord
      BY <1>2, <2>4, <3>1 DEF PopCas, StackTypeOK
    <3>3. pc' \in [Thread -> StackControl]
      BY <1>4, <1>5, <2>4 DEF PopCas, Goto
    <3>4. QED BY <1>2, <2>4, <3>2, <3>3 DEF PopCas, StackTypeOK, nvars, bvars
  <2>5. CASE PopCasSpurious(t)
    <3>1. pc' \in [Thread -> StackControl]
      BY <1>4, <1>5, <2>5 DEF PopCasSpurious, Goto
    <3>2. QED BY <1>2, <2>5, <3>1 DEF PopCasSpurious, StackTypeOK, nvars, bvars
  <2>6. CASE PopFinish(t)
    <3>1. cur[t].ptr \in Node /\ value[cur[t].ptr] \in StackResult
      BY <1>2, <2>6, StackFacts DEF PopFinish, StackTypeOK
    <3>2. cur[t].stamp - 1 \in Int
      BY <1>1, <1>2 DEF StackTypeOK
    <3>3. /\ got' \in [Thread -> Seq(StackResult)] /\ pc' \in [Thread -> StackControl]
          /\ global' \in [Node -> Int] /\ live' \subseteq Node
      BY <1>3, <1>4, <1>5, <1>8, <2>6, <3>1, <3>2 DEF PopFinish, Receive, Goto
    <3>4. QED BY <1>2, <2>6, <3>3 DEF PopFinish, StackTypeOK, bvars
  <2>7. CASE PopRelease(t)
    <3>1. cur[t].ptr \in Node /\ -1 \in Int
      BY <1>2, <2>7 DEF PopRelease, StackTypeOK, StackInv, ThreadInv
    <3>2. /\ pc' \in [Thread -> StackControl]
          /\ global' \in [Node -> Int] /\ live' \subseteq Node
      BY <1>4, <1>5, <1>8, <2>7, <3>1 DEF PopRelease, Goto
    <3>3. QED BY <1>2, <2>7, <3>2 DEF PopRelease, StackTypeOK, bvars
  <2>8. QED BY <1>10, <2>1, <2>2, <2>3, <2>4, <2>5, <2>6, <2>7 DEF PopStep
<1>11. ASSUME NEW t \in Thread, ConsumeStep(t)
       PROVE  StackTypeOK'
  <2>1. CASE ConsumeLoad(t)
    <3>1. /\ pc' \in [Thread -> StackControl] /\ cur' \in [Thread -> StackWord]
          /\ consumes' \in 0..MaxConsumes
      BY <1>2, <1>4, <1>5, <1>6, <2>1 DEF ConsumeLoad, Goto, Local, StackTypeOK
    <3>2. QED BY <1>2, <2>1, <3>1 DEF ConsumeLoad, StackTypeOK, nvars
  <2>2. CASE ConsumeCas(t)
    <3>1. /\ pc' \in [Thread -> StackControl] /\ cur' \in [Thread -> StackWord]
          /\ head' \in StackWord
      BY <1>1, <1>2, <1>4, <1>5, <1>6, <2>2 DEF ConsumeCas, Goto, Local, StackTypeOK
    <3>2. QED BY <1>2, <2>2, <3>1 DEF ConsumeCas, StackTypeOK, nvars, bvars
  <2>3. CASE Drain(t)
    <3>1. /\ cur[t].ptr \in Node /\ value[cur[t].ptr] \in StackResult
          /\ next[cur[t].ptr] \in StackWord /\ cur[t].stamp \in Int
      BY <1>1, <1>2, <2>3 DEF Drain, StackTypeOK
    <3>2. /\ got' \in [Thread -> Seq(StackResult)] /\ cur' \in [Thread -> StackWord]
          /\ global' \in [Node -> Int] /\ live' \subseteq Node
      BY <1>3, <1>6, <1>8, <2>3, <3>1 DEF Drain, Receive, Local
    <3>3. QED BY <1>2, <2>3, <3>2 DEF Drain, StackTypeOK, bvars
  <2>4. CASE ConsumeReturn(t)
    <3>1. pc' \in [Thread -> StackControl]
      BY <1>4, <1>5, <2>4 DEF ConsumeReturn, Goto
    <3>2. QED BY <1>2, <2>4, <3>1 DEF ConsumeReturn, StackTypeOK, nvars, bvars
  <2>5. QED BY <1>11, <2>1, <2>2, <2>3, <2>4 DEF ConsumeStep
<1>12. CASE Destroy
  <2>1. pc' \in [Thread -> StackControl]
    BY <1>5, <1>12 DEF Destroy
  <2>2. QED BY <1>1, <1>2, <1>12, <2>1 DEF Destroy, StackTypeOK, bvars
<1>13. CASE UNCHANGED stackVars
  BY <1>2, <1>13 DEF StackTypeOK, stackVars, nvars, tvars, bvars
<1>14. QED BY <1>9, <1>10, <1>11, <1>12, <1>13 DEF StackNext, StackExhausted

----------------------------------------------------------------------------
(* The steps of the stack *)

(* A step that only moves t, between places where it owns no node, or      *)
(* within those where it has a reference.                                  *)
LEMMA QuietStep ==
  ASSUME StackInv, StackTypeOK', NEW t \in Thread, Others(t),
         UNCHANGED <<live, value, next, global>>,
         head' = head \/ (head.ptr = Null /\ head'.ptr = Null),
         \/ /\ Drained[t] = <<>> /\ pc[t] \notin {"push", "pop", "taken", "release"}
            /\ pc'[t] \notin {"push", "pop", "taken", "release", "drain"}
         \/ pc[t] = "pop" /\ pc'[t] = "release" /\ cur'[t] = cur[t]
  PROVE  StackInv' /\ List' = List /\ Drained' = Drained
<1>1. \A n \in Node : Refs(n)' = Refs(n)
  <2>1. TAKE n \in Node
  <2>2. t \in Refs(n) <=> t \in Refs(n)'
    BY DEF Refs
  <2>3. QED BY <2>2, RefsCount
<1>2. Balance' = Balance
  BY <1>1 DEF Balance
<1>3. /\ Drained[t] = <<>> /\ Drained = [Drained EXCEPT ![t] = <<>>] /\ ToSet(<<>>) = {}
      /\ Held[t] = {}
  <2>1. Drained[t] = <<>> /\ ToSet(<<>>) = {}
    BY StackFacts, EmptyFacts
  <2>2. Drained = [Drained EXCEPT ![t] = <<>>]
    BY <2>1 DEF Drained
  <2>3. Held[t] = ToSet(Drained[t])
    BY DEF Held
  <2>4. QED BY <2>1, <2>2, <2>3
<1>4. Segment(next', Balance', head', List)
  <2>1. Segment(next, Balance, head, List)
    BY StackFacts
  <2>2. CASE head.ptr = Null /\ head'.ptr = Null
    BY <1>2, <2>1, <2>2, SegmentEmpty
  <2>3. QED BY <1>2, <2>1, <2>2
<1>5. Known(t)
  BY DEF Known, StackInv, ThreadInv
<1>6. Kept(t)
  BY <1>2, OwnerFacts DEF Kept
<1>7. Moved(t, List, <<>>, {})
  <2>1. pc'[t] \notin {"push", "taken", "drain"}
    OBVIOUS
  <2>2. \A n \in live' : \/ n \in ToSet(List)
                         \/ \E u \in Thread : u /= t /\ n \in Held[u]
                         \/ Balance'[n] = 0 /\ global'[n] /= 0
    BY <1>2, <1>3, OwnerFacts
  <2>3. \A u \in Thread : u /= t => (ToSet(List) \cup {}) \cap Held[u] = {}
    BY OwnerFacts
  <2>4. \A n \in ToSet(List) \cup {} :
          n \in live' /\ global'[n] <= 0 /\ value'[n] \in 1..MaxPushes
    BY OwnerFacts
  <2>5. QED BY <1>3, <1>4, <2>1, <2>2, <2>3, <2>4 DEF Moved
<1>8. StackInv' /\ List' = List /\ Drained' = [Drained EXCEPT ![t] = <<>>]
  BY <1>5, <1>6, <1>7, StackStep
<1>9. QED BY <1>3, <1>8

LEMMA OnlyPc ==
  ASSUME NEW t \in Thread, StackTypeOK, NEW l, Goto(t, l)
  PROVE  pc'[t] = l /\ \A u \in Thread : u /= t => pc'[u] = pc[u]
BY DEF Goto, StackTypeOK

LEMMA OnlyCur ==
  ASSUME NEW t \in Thread, StackTypeOK, NEW sp, Local(t, sp)
  PROVE  cur'[t] = sp /\ \A u \in Thread : u /= t => cur'[u] = cur[u]
BY DEF Local, StackTypeOK

LEMMA QuietSteps ==
  ASSUME StackInv, StackTypeOK', NEW t \in Thread,
         \/ PopCall(t) \/ AcquireLoad(t) \/ PopCasSpurious(t)
         \/ PopCas(t) /\ head /= cur[t]
         \/ AcquireCas(t) /\ (head /= cur[t] \/ cur[t].ptr = Null)
         \/ ConsumeLoad(t)
         \/ ConsumeCas(t) /\ head /= cur[t]
         \/ ConsumeReturn(t)
  PROVE  StackInv' /\ List' = List /\ Drained' = Drained
<1>1. StackTypeOK
  BY DEF StackInv
<1>2. Packed(cur[t]) = cur[t] /\ (pc[t] /= "drain" => Drained[t] = <<>>)
  BY StackFacts
<1>3. CASE PopCall(t)
  <2>1. Others(t) /\ pc'[t] = "load"
    BY <1>1, <1>3, OnlyPc DEF PopCall, Others
  <2>2. QED BY <1>2, <1>3, <2>1, QuietStep DEF PopCall, nvars
<1>4. CASE AcquireLoad(t)
  <2>1. Others(t) /\ pc'[t] = "acquire"
    BY <1>1, <1>4, OnlyPc, OnlyCur DEF AcquireLoad, Others
  <2>2. QED BY <1>2, <1>4, <2>1, QuietStep DEF AcquireLoad, nvars
<1>5. CASE PopCasSpurious(t)
  <2>1. Others(t) /\ pc'[t] = "release"
    BY <1>1, <1>5, OnlyPc DEF PopCasSpurious, Others
  <2>2. QED BY <1>5, <2>1, QuietStep DEF PopCasSpurious, nvars
<1>6. CASE PopCas(t) /\ head /= cur[t]
  <2>1. Others(t) /\ pc'[t] = "release"
    BY <1>1, <1>2, <1>6, OnlyPc DEF PopCas, Others
  <2>2. QED BY <1>2, <1>6, <2>1, QuietStep DEF PopCas, nvars
<1>7. CASE AcquireCas(t) /\ head /= cur[t]
  <2>1. Others(t) /\ pc'[t] = "acquire"
    BY <1>1, <1>2, <1>7, OnlyCur DEF AcquireCas, Others
  <2>2. QED BY <1>2, <1>7, <2>1, QuietStep DEF AcquireCas, nvars
<1>8. CASE AcquireCas(t) /\ head = cur[t] /\ cur[t].ptr = Null
  <2>1. Others(t) /\ pc'[t] = "idle"
    BY <1>1, <1>2, <1>8, OnlyPc, OnlyCur DEF AcquireCas, Others
  <2>2. head'.ptr = Null
    <3>1. cur[t] = [ptr |-> cur[t].ptr, stamp |-> cur[t].stamp]
      BY <1>1 DEF StackTypeOK, StackWord
    <3>2. Packed(IncrementStamp(cur[t])).ptr = cur[t].ptr
      BY <3>1 DEF Packed, IncrementStamp
    <3>3. QED BY <1>2, <1>8, <3>2 DEF AcquireCas
  <2>3. QED BY <1>2, <1>8, <2>1, <2>2, QuietStep DEF AcquireCas, nvars
<1>9. CASE ConsumeLoad(t)
  <2>1. Others(t) /\ pc'[t] = "consume"
    BY <1>1, <1>9, OnlyPc, OnlyCur DEF ConsumeLoad, Others
  <2>2. QED BY <1>2, <1>9, <2>1, QuietStep DEF ConsumeLoad, nvars
<1>10. CASE ConsumeCas(t) /\ head /= cur[t]
  <2>1. Others(t) /\ pc'[t] = "consume"
    BY <1>1, <1>2, <1>10, OnlyCur DEF ConsumeCas, Others
  <2>2. QED BY <1>2, <1>10, <2>1, QuietStep DEF ConsumeCas, nvars
<1>11. CASE ConsumeReturn(t)
  <2>1. Others(t) /\ pc'[t] = "idle"
    BY <1>1, <1>11, OnlyPc DEF ConsumeReturn, Others
  <2>2. Drained[t] = <<>>
    BY <1>11, StackFacts, SegmentEmpty DEF ConsumeReturn
  <2>3. QED BY <1>11, <2>1, <2>2, QuietStep DEF ConsumeReturn, nvars
<1>12. QED
  BY <1>3, <1>4, <1>5, <1>6, <1>7, <1>8, <1>9, <1>10, <1>11

(* Push: the new node is unknown to everybody else. *)
LEMMA PushNewStep ==
  ASSUME StackInv, StackTypeOK', NEW t \in Thread, PushNew(t)
  PROVE  /\ StackInv' /\ List' = List /\ Drained' = Drained
         /\ \A m \in live : value'[m] = value[m]
<1>1. StackTypeOK
  BY DEF StackInv
<1>2. PICK n \in Node \ live :
        /\ live' = live \cup {n}
        /\ value' = [value EXCEPT ![n] = pushes + 1]
        /\ next' = [next EXCEPT ![n] = NullPtr]
        /\ global' = [global EXCEPT ![n] = 0]
        /\ Local(t, Stamped(n, 0))
  BY DEF PushNew
<1>3. /\ pc[t] = "idle" /\ pc'[t] = "push" /\ Others(t) /\ head' = head
      /\ cur'[t] = Stamped(n, 0)
  BY <1>1, <1>2, OnlyPc, OnlyCur DEF PushNew, Others
<1>4. cur'[t].ptr = n /\ cur'[t].stamp = 0
  BY <1>3 DEF Stamped
<1>5. /\ live \subseteq Node /\ value'[n] = pushes + 1 /\ global'[n] = 0
      /\ \A m \in live : /\ value'[m] = value[m] /\ next'[m] = next[m]
                         /\ global'[m] = global[m] /\ m \in live'
      /\ value'[n] \in 1..MaxPushes
  BY <1>1, <1>2, StackAssumption DEF StackTypeOK, PushNew
<1>6. \A m \in Node : Refs(m)' = Refs(m)
  <2>1. TAKE m \in Node
  <2>2. t \notin Refs(m) /\ t \notin Refs(m)'
    BY <1>3 DEF Refs
  <2>3. QED BY <1>3, <2>2, RefsCount
<1>7. Refs(n) = {}
  <2>1. \A u \in Refs(n) : u \in Thread
    BY DEF Refs
  <2>2. QED BY <1>2, <2>1, OwnerFacts
<1>8. Balance'[n] = 0 /\ \A m \in live : Balance'[m] = Balance[m]
  <2>1. Balance'[n] = 0
    BY <1>5, <1>6, <1>7, BalanceValue, RefsFinite
  <2>2. \A m \in live : Balance'[m] = Balance[m]
    BY <1>5, <1>6, BalanceValue
  <2>3. QED BY <2>1, <2>2
<1>9. Segment(next', Balance', head', List)
  <2>1. Segment(next, Balance, head, List) /\ ToSet(List) \subseteq live
    BY StackFacts
  <2>2. QED BY <1>3, <1>5, <1>8, <2>1, SegmentFrame
<1>10. Drained[t] = <<>> /\ Drained = [Drained EXCEPT ![t] = <<>>] /\ Held[t] = {}
  <2>1. Drained[t] = <<>> /\ Held[t] = {}
    BY <1>3, StackFacts
  <2>2. QED BY <2>1 DEF Drained
<1>11. Known(t)
  BY <1>3, <1>4, <1>5, <1>8 DEF Known
<1>12. Kept(t)
  BY <1>5, <1>8, OwnerFacts DEF Kept
<1>13. Moved(t, List, <<>>, {n})
  <2>1. \A u \in Thread : (ToSet(List) \cup {n}) \cap Held[u] = {}
    BY <1>2, OwnerFacts
  <2>2. \A m \in ToSet(List) \cup {n} :
          m \in live' /\ global'[m] <= 0 /\ value'[m] \in 1..MaxPushes
    <3>1. n \in live' /\ global'[n] <= 0 /\ value'[n] \in 1..MaxPushes
      BY <1>2, <1>5
    <3>2. \A m \in ToSet(List) : m \in live' /\ global'[m] <= 0 /\ value'[m] \in 1..MaxPushes
      BY <1>5, OwnerFacts
    <3>3. QED BY <3>1, <3>2
  <2>3. \A m \in live' : \/ m \in ToSet(List) \cup {n}
                         \/ \E u \in Thread : u /= t /\ m \in Held[u]
                         \/ Balance'[m] = 0 /\ global'[m] /= 0
    BY <1>2, <1>5, <1>8, <1>10, OwnerFacts
  <2>4. ToSet(List) \cap {n} = {}
    BY <1>2, StackFacts
  <2>5. QED BY <1>3, <1>4, <1>9, <2>1, <2>2, <2>3, <2>4 DEF Moved
<1>14. QED BY <1>3, <1>5, <1>10, <1>11, <1>12, <1>13, StackStep

(* Push links its node, or takes the new top for the node behind. *)
LEMMA PushCasStep ==
  ASSUME StackInv, StackTypeOK', NEW t \in Thread, PushCas(t)
  PROVE  /\ StackInv' /\ Drained' = Drained
         /\ \/ List' = List /\ pc' = pc
            \/ List' = <<cur[t].ptr>> \o List /\ pc'[t] = "idle"
<1> DEFINE n == cur[t].ptr
<1>1. StackTypeOK /\ pc[t] = "push"
  BY DEF StackInv, PushCas
<1>2. /\ n \in Node /\ n \in live /\ Held[t] = {n} /\ Packed(next[n]) = next[n]
      /\ cur[t].stamp = 0 /\ Balance[n] = 0 /\ global[n] = 0 /\ value[n] \in 1..MaxPushes
  BY <1>1, StackFacts DEF StackInv, ThreadInv
<1>3. UNCHANGED <<live, value, global, cur>>
  BY DEF PushCas
<1>4. n \notin ToSet(List) /\ \A u \in Thread : u /= t => n \notin Held[u]
  BY <1>2, OwnerFacts
<1>5. Drained[t] = <<>> /\ Drained = [Drained EXCEPT ![t] = <<>>] /\ ToSet(<<>>) = {}
  <2>1. Drained[t] = <<>> /\ ToSet(<<>>) = {}
    BY <1>1, StackFacts, EmptyFacts
  <2>2. QED BY <2>1 DEF Drained
<1>6. Segment(next, Balance, head, List)
  BY StackFacts
<1>7. CASE head = next[n]
  <2>1. head' = cur[t] /\ Goto(t, "idle") /\ next' = next
    BY <1>2, <1>7 DEF PushCas
  <2>2. pc'[t] = "idle" /\ Others(t)
    BY <1>1, <1>3, <2>1, OnlyPc DEF Others
  <2>3. \A m \in Node : Refs(m)' = Refs(m)
    <3>1. TAKE m \in Node
    <3>2. t \notin Refs(m) /\ t \notin Refs(m)'
      BY <1>1, <2>2 DEF Refs
    <3>3. QED BY <2>2, <3>2, RefsCount
  <2>4. Balance' = Balance
    BY <1>3, <2>3 DEF Balance
  <2>5. Segment(next', Balance', head', <<n>> \o List)
    <3>1. Segment(next, Balance, Stamped(n, 0), <<n>> \o List)
      BY <1>2, <1>4, <1>6, <1>7, SegmentPush
    <3>2. Stamped(n, 0) = cur[t]
      BY <1>1, <1>2 DEF Stamped, StackTypeOK, StackWord
    <3>3. QED BY <2>1, <2>4, <3>1, <3>2
  <2>6. ToSet(<<n>> \o List) = {n} \cup ToSet(List)
    BY <1>2, PushFacts, StackFacts
  <2>7. Known(t)
    BY <2>2 DEF Known
  <2>8. Kept(t)
    BY <1>3, <2>1, <2>4, OwnerFacts DEF Kept
  <2>9. Moved(t, <<n>> \o List, <<>>, {})
    <3>1. \A u \in Thread : u /= t => ({n} \cup ToSet(List)) \cap Held[u] = {}
      BY <1>4, OwnerFacts
    <3>2. \A m \in {n} \cup ToSet(List) :
            m \in live' /\ global'[m] <= 0 /\ value'[m] \in 1..MaxPushes
      BY <1>2, <1>3, OwnerFacts
    <3>3. \A m \in live' : \/ m \in {n} \cup ToSet(List)
                           \/ \E u \in Thread : u /= t /\ m \in Held[u]
                           \/ Balance'[m] = 0 /\ global'[m] /= 0
      BY <1>2, <1>3, <2>4, OwnerFacts
    <3>4. QED BY <1>5, <2>2, <2>5, <2>6, <3>1, <3>2, <3>3 DEF Moved
  <2>10. QED BY <1>5, <2>2, <2>7, <2>8, <2>9, StackStep
<1>8. CASE head /= next[n]
  <2>1. head' = head /\ pc' = pc /\ next' = [next EXCEPT ![n] = head]
    BY <1>2, <1>8 DEF PushCas
  <2>2. Others(t)
    BY <1>3, <2>1 DEF Others
  <2>3. Balance' = Balance
    BY <1>3, <2>1 DEF Balance, Refs
  <2>4. \A m \in live : m /= n => next'[m] = next[m]
    BY <1>1, <2>1 DEF StackTypeOK
  <2>5. Segment(next', Balance', head', List)
    <3>1. \A m \in ToSet(List) : next'[m] = next[m]
      BY <1>4, <2>4, OwnerFacts
    <3>2. QED BY <1>6, <2>1, <2>3, <3>1, SegmentFrame
  <2>6. Known(t)
    BY <1>1, <1>2, <1>3, <2>1, <2>3 DEF Known
  <2>7. Kept(t)
    BY <1>3, <1>4, <2>3, <2>4, OwnerFacts DEF Kept
  <2>8. Moved(t, List, <<>>, {n})
    <3>1. \A u \in Thread : u /= t => (ToSet(List) \cup {n}) \cap Held[u] = {}
      BY <1>4, OwnerFacts
    <3>2. \A m \in ToSet(List) \cup {n} :
            m \in live' /\ global'[m] <= 0 /\ value'[m] \in 1..MaxPushes
      BY <1>2, <1>3, OwnerFacts
    <3>3. \A m \in live' : \/ m \in ToSet(List) \cup {n}
                           \/ \E u \in Thread : u /= t /\ m \in Held[u]
                           \/ Balance'[m] = 0 /\ global'[m] /= 0
      BY <1>2, <1>3, <2>3, OwnerFacts
    <3>4. ToSet(List) \cap {n} = {}
      BY <1>4
    <3>5. QED BY <1>1, <1>3, <1>4, <2>1, <2>5, <3>1, <3>2, <3>3, <3>4 DEF Moved
  <2>9. QED BY <1>5, <2>1, <2>2, <2>6, <2>7, <2>8, StackStep
<1>9. QED BY <1>7, <1>8

(* TryPop acquires a reference to the top node. *)
LEMMA AcquireStep ==
  ASSUME StackInv, StackTypeOK', StampFits, NEW t \in Thread, AcquireCas(t),
         head = cur[t], cur[t].ptr /= Null
  PROVE  StackInv' /\ List' = List /\ Drained' = Drained /\ pc'[t] = "pop" /\ got' = got
<1> PICK n : n = cur[t].ptr
  OBVIOUS
<1>1. StackTypeOK /\ pc[t] = "acquire" /\ Packed(cur[t]) = cur[t]
  BY StackFacts DEF StackInv, AcquireCas
<1>2. /\ head' = Packed(IncrementStamp(cur[t])) /\ Local(t, IncrementStamp(cur[t]))
      /\ Goto(t, "pop") /\ got' = got
      /\ UNCHANGED <<live, value, next, global>>
  BY <1>1 DEF AcquireCas, nvars
<1>3. /\ pc'[t] = "pop" /\ cur'[t] = IncrementStamp(cur[t]) /\ Others(t)
  BY <1>1, <1>2, OnlyPc, OnlyCur DEF Others
<1>4. /\ head' = IncrementStamp(cur[t]) /\ head'.ptr = n /\ cur'[t].ptr = n
      /\ head'.stamp = head.stamp + 1
  <2>1. cur[t] = [ptr |-> n, stamp |-> cur[t].stamp] /\ cur[t].stamp \in 0..(StampMod - 1)
    BY <1>1 DEF StackTypeOK, StackWord
  <2>2. IncrementStamp(cur[t]) = [ptr |-> n, stamp |-> cur[t].stamp + 1]
    BY <2>1 DEF IncrementStamp
  <2>3. (cur[t].stamp + 1) % StampMod = cur[t].stamp + 1
    BY <2>1, StackAssumption DEF StampFits
  <2>4. Packed(IncrementStamp(cur[t])) = IncrementStamp(cur[t])
    BY <2>2, <2>3 DEF Packed
  <2>5. QED BY <1>2, <1>3, <2>2, <2>4
<1>5. Segment(next, Balance, head, List) /\ List /= <<>> /\ n \in Node
  BY <1>1, StackFacts, SegmentEmpty DEF StackTypeOK, StackWord
<1>6. n \in ToSet(List) /\ n \in live
  <2>1. Head(List) = n
    BY <1>5, SegmentTail
  <2>2. QED BY <1>5, <2>1, PopFacts, StackFacts
<1>7. Balance'[n] = Balance[n] + 1 /\ \A m \in Node : m /= n => Balance'[m] = Balance[m]
  <2>1. t \notin Refs(n) /\ t \in Refs(n)'
    BY <1>1, <1>3, <1>4 DEF Refs
  <2>2. Cardinality(Refs(n)') = Cardinality(Refs(n)) + 1
    BY <1>3, <2>1, RefsCount
  <2>3. Balance'[n] = Balance[n] + 1
    <3>1. Cardinality(Refs(n)) \in Nat /\ global[n] \in Int
      BY <1>1, <1>5, RefsFinite DEF StackTypeOK
    <3>2. QED BY <1>2, <1>5, <2>2, <3>1, BalanceValue
  <2>4. ASSUME NEW m \in Node, m /= n
        PROVE  Balance'[m] = Balance[m]
    <3>1. t \notin Refs(m) /\ t \notin Refs(m)'
      BY <1>1, <1>3, <1>4, <2>4 DEF Refs
    <3>2. QED BY <1>2, <1>3, <3>1, RefsCount, BalanceValue
  <2>5. QED BY <2>3, <2>4
<1>8. Segment(next', Balance', head', List)
  <2>1. \A m \in ToSet(List) : m /= head.ptr => Balance'[m] = Balance[m]
    BY <1>7, OwnerFacts
  <2>2. QED BY <1>2, <1>4, <1>5, <1>7, <2>1, SegmentBump
<1>9. Drained[t] = <<>> /\ Drained = [Drained EXCEPT ![t] = <<>>] /\ Held[t] = {}
      /\ ToSet(<<>>) = {}
  <2>1. Drained[t] = <<>> /\ Held[t] = {} /\ ToSet(<<>>) = {}
    BY <1>1, StackFacts, EmptyFacts
  <2>2. QED BY <2>1 DEF Drained
<1>10. Known(t)
  BY <1>2, <1>3, <1>4, <1>6 DEF Known
<1>11. Kept(t)
  BY <1>2, <1>6, <1>7, OwnerFacts DEF Kept
<1>12. Moved(t, List, <<>>, {})
  <2>1. \A u \in Thread : u /= t => (ToSet(List) \cup {}) \cap Held[u] = {}
    BY OwnerFacts
  <2>2. \A m \in ToSet(List) \cup {} :
          m \in live' /\ global'[m] <= 0 /\ value'[m] \in 1..MaxPushes
    BY <1>2, OwnerFacts
  <2>3. live \subseteq Node
    BY StackFacts
  <2>4. \A m \in live' : \/ m \in ToSet(List) \cup {}
                         \/ \E u \in Thread : u /= t /\ m \in Held[u]
                         \/ Balance'[m] = 0 /\ global'[m] /= 0
    BY <1>2, <1>6, <1>7, <1>9, <2>3, OwnerFacts
  <2>5. QED BY <1>3, <1>8, <1>9, <2>1, <2>2, <2>4 DEF Moved
<1>13. QED BY <1>2, <1>3, <1>9, <1>10, <1>11, <1>12, StackStep

(* TryPop unlinks the top node: the reference becomes ownership. *)
LEMMA PopCasStep ==
  ASSUME StackInv, StackTypeOK', NEW t \in Thread, PopCas(t), head = cur[t]
  PROVE  /\ StackInv' /\ List' = Tail(List) /\ Drained' = Drained
         /\ List /= <<>> /\ Head(List) = cur[t].ptr /\ pc'[t] = "taken"
<1> PICK n : n = cur[t].ptr
  OBVIOUS
<1>1. StackTypeOK /\ pc[t] = "pop" /\ Packed(cur[t]) = cur[t]
  BY StackFacts DEF StackInv, PopCas
<1>2. n \in live /\ n \in Node /\ Packed(next[n]) = next[n]
  BY <1>1, StackFacts DEF StackInv, ThreadInv
<1>3. head' = next[n] /\ Goto(t, "taken") /\ UNCHANGED <<live, value, next, global, cur>>
  BY <1>1, <1>2 DEF PopCas, nvars
<1>4. pc'[t] = "taken" /\ cur'[t] = cur[t] /\ Others(t)
  BY <1>1, <1>3, OnlyPc DEF Others
<1>5. Segment(next, Balance, head, List) /\ List /= <<>>
  <2>1. n /= Null
    BY <1>2, StackAssumption
  <2>2. QED BY <2>1, StackFacts, SegmentEmpty
<1>6. /\ Head(List) = n /\ Balance[n] = cur[t].stamp
      /\ Segment(next, Balance, next[n], Tail(List))
  BY <1>5, SegmentTail
<1>7. ToSet(List) = {n} \cup ToSet(Tail(List)) /\ n \notin ToSet(Tail(List))
  BY <1>5, <1>6, PopFacts, StackFacts
<1>8. Balance'[n] = Balance[n] - 1 /\ \A m \in Node : m /= n => Balance'[m] = Balance[m]
  <2>1. t \in Refs(n) /\ t \notin Refs(n)'
    BY <1>1, <1>4 DEF Refs
  <2>2. Cardinality(Refs(n)') = Cardinality(Refs(n)) - 1
    BY <1>4, <2>1, RefsCount
  <2>3. Balance'[n] = Balance[n] - 1
    <3>1. Cardinality(Refs(n)) \in Nat /\ global[n] \in Int
      BY <1>1, <1>2, RefsFinite DEF StackTypeOK
    <3>2. QED BY <1>2, <1>3, <2>2, <3>1, BalanceValue
  <2>4. ASSUME NEW m \in Node, m /= n
        PROVE  Balance'[m] = Balance[m]
    <3>1. t \notin Refs(m) /\ t \notin Refs(m)'
      BY <1>1, <1>4, <2>4 DEF Refs
    <3>2. QED BY <1>3, <1>4, <3>1, RefsCount, BalanceValue
  <2>5. QED BY <2>3, <2>4
<1>9. Segment(next', Balance', head', Tail(List))
  <2>1. \A m \in ToSet(Tail(List)) : Balance'[m] = Balance[m]
    BY <1>7, <1>8, OwnerFacts
  <2>2. QED BY <1>3, <1>6, <2>1, SegmentFrame
<1>10. Drained[t] = <<>> /\ Drained = [Drained EXCEPT ![t] = <<>>] /\ Held[t] = {}
  <2>1. Drained[t] = <<>> /\ Held[t] = {}
    BY <1>1, StackFacts
  <2>2. QED BY <2>1 DEF Drained
<1>11. Known(t)
  BY <1>4, <1>6, <1>8 DEF Known
<1>12. Kept(t)
  BY <1>3, <1>7, <1>8, OwnerFacts DEF Kept
<1>13. Moved(t, Tail(List), <<>>, {n})
  <2>1. \A u \in Thread : u /= t => (ToSet(Tail(List)) \cup {n}) \cap Held[u] = {}
    BY <1>7, OwnerFacts
  <2>2. \A m \in ToSet(Tail(List)) \cup {n} :
          m \in live' /\ global'[m] <= 0 /\ value'[m] \in 1..MaxPushes
    BY <1>3, <1>7, OwnerFacts
  <2>3. live \subseteq Node
    BY StackFacts
  <2>4. \A m \in live' : \/ m \in ToSet(Tail(List)) \cup {n}
                         \/ \E u \in Thread : u /= t /\ m \in Held[u]
                         \/ Balance'[m] = 0 /\ global'[m] /= 0
    BY <1>3, <1>7, <1>8, <1>10, <2>3, OwnerFacts
  <2>5. QED BY <1>4, <1>7, <1>9, <2>1, <2>2, <2>4 DEF Moved
<1>14. QED BY <1>4, <1>5, <1>6, <1>10, <1>11, <1>12, <1>13, StackStep

(* ConsumeAll takes over the whole list. *)
LEMMA ConsumeCasStep ==
  ASSUME StackInv, StackTypeOK', NEW t \in Thread, ConsumeCas(t), head = cur[t]
  PROVE  /\ StackInv' /\ List' = <<>> /\ Drained' = [Drained EXCEPT ![t] = List]
         /\ pc'[t] = "drain" /\ pc[t] = "consume"
<1>1. StackTypeOK /\ pc[t] = "consume" /\ Packed(cur[t]) = cur[t]
  BY StackFacts DEF StackInv, ConsumeCas
<1>2. /\ head' = NullPtr /\ Goto(t, "drain")
      /\ UNCHANGED <<live, value, next, global, cur>>
  BY <1>1 DEF ConsumeCas, nvars
<1>3. pc'[t] = "drain" /\ cur'[t] = head /\ Others(t)
  BY <1>1, <1>2, OnlyPc DEF Others
<1>4. \A m \in Node : Refs(m)' = Refs(m)
  <2>1. TAKE m \in Node
  <2>2. t \notin Refs(m) /\ t \notin Refs(m)'
    BY <1>1, <1>3 DEF Refs
  <2>3. QED BY <1>3, <2>2, RefsCount
<1>5. Balance' = Balance
  BY <1>2, <1>4 DEF Balance
<1>6. Segment(next', Balance', head', <<>>)
  <2>1. head'.ptr = Null
    BY <1>2 DEF NullPtr, Stamped
  <2>2. QED BY <2>1, SegmentEmpty
<1>7. Segment(next', Balance', cur'[t], List)
  BY <1>2, <1>3, <1>5, StackFacts
<1>8. Held[t] = {} /\ ToSet(<<>>) = {}
  BY <1>1, StackFacts, EmptyFacts
<1>9. Known(t)
  BY <1>3 DEF Known
<1>10. Kept(t)
  BY <1>2, <1>5, OwnerFacts DEF Kept
<1>11. Moved(t, <<>>, List, ToSet(List))
  <2>1. \A u \in Thread : u /= t => ({} \cup ToSet(List)) \cap Held[u] = {}
    BY OwnerFacts
  <2>2. \A m \in {} \cup ToSet(List) :
          m \in live' /\ global'[m] <= 0 /\ value'[m] \in 1..MaxPushes
    BY <1>2, OwnerFacts
  <2>3. \A m \in live' : \/ m \in {} \cup ToSet(List)
                         \/ \E u \in Thread : u /= t /\ m \in Held[u]
                         \/ Balance'[m] = 0 /\ global'[m] /= 0
    BY <1>2, <1>5, <1>8, OwnerFacts
  <2>4. QED BY <1>3, <1>6, <1>7, <1>8, <2>1, <2>2, <2>3 DEF Moved
<1>12. QED BY <1>1, <1>3, <1>9, <1>10, <1>11, StackStep

(* An unlinked node is given what global is short of: it is deleted now if *)
(* there are no references, and later by the last of them otherwise.       *)
LEMMA SettleStep ==
  ASSUME StackInv, StackTypeOK', NEW t \in Thread, Others(t),
         NEW n \in Node, IncrementGlobal(n, Balance[n]), UNCHANGED <<head, value, next>>,
         pc[t] \notin {"pop", "release"},
         pc'[t] \notin {"pop", "release", "push", "taken"},
         NEW E, Held[t] = {n} \cup ToSet(E), n \notin ToSet(E),
         IF pc'[t] = "drain" THEN Segment(next, Balance, cur'[t], E) ELSE E = <<>>
  PROVE  StackInv' /\ List' = List /\ Drained' = [Drained EXCEPT ![t] = E]
<1>1. /\ global \in [Node -> Int] /\ live \subseteq Node
      /\ \A m \in Node : Cardinality(Refs(m)) \in Nat
  BY RefsFinite DEF StackInv, StackTypeOK
<1>2. Balance[n] = Cardinality(Refs(n)) - global[n]
  BY BalanceValue
<1>3. global'[n] = Cardinality(Refs(n)) /\ \A m \in Node : m /= n => global'[m] = global[m]
  BY <1>1, <1>2 DEF IncrementGlobal
<1>4. /\ live' = IF Refs(n) = {} THEN live \ {n} ELSE live
      /\ Refs(n) = {} <=> global'[n] = 0
  <2>1. global[n] + Balance[n] = Cardinality(Refs(n))
    BY <1>1, <1>2
  <2>2. QED BY <1>3, <2>1, RefsFinite DEF IncrementGlobal
<1>5. \A m \in Node : Refs(m)' = Refs(m)
  <2>1. TAKE m \in Node
  <2>2. t \notin Refs(m) /\ t \notin Refs(m)'
    BY DEF Refs
  <2>3. QED BY <2>2, RefsCount
<1>6. Balance'[n] = 0 /\ \A m \in Node : m /= n => Balance'[m] = Balance[m]
  <2>1. Balance'[n] = 0
    BY <1>1, <1>3, <1>5, BalanceValue
  <2>2. \A m \in Node : m /= n => Balance'[m] = Balance[m]
    BY <1>3, <1>5, BalanceValue
  <2>3. QED BY <2>1, <2>2
<1>7. n \notin ToSet(List) /\ \A u \in Thread : u /= t => n \notin Held[u]
  BY OwnerFacts
<1>8. Segment(next', Balance', head', List)
  <2>1. \A m \in ToSet(List) : Balance'[m] = Balance[m]
    BY <1>6, <1>7, OwnerFacts
  <2>2. QED BY <2>1, StackFacts, SegmentFrame
<1>9. \A m \in ToSet(E) : m \in Node /\ m \in live /\ global[m] <= 0 /\ value[m] \in 1..MaxPushes
  BY OwnerFacts
<1>10. IF pc'[t] = "drain" THEN Segment(next', Balance', cur'[t], E) ELSE E = <<>>
  <2>1. \A m \in ToSet(E) : Balance'[m] = Balance[m]
    BY <1>6, <1>9
  <2>2. QED BY <2>1, SegmentFrame
<1>11. Known(t)
  BY DEF Known
<1>12. Kept(t)
  <2>1. \A u \in Thread, m \in Node : u \in Refs(m) => m \in live'
    BY <1>4, OwnerFacts
  <2>2. \A m \in live : m /= n => m \in live'
    BY <1>4
  <2>3. QED BY <1>3, <1>6, <1>7, <2>1, <2>2, OwnerFacts DEF Kept
<1>13. Moved(t, List, E, ToSet(E))
  <2>1. \A u \in Thread : u /= t => (ToSet(List) \cup ToSet(E)) \cap Held[u] = {}
    BY OwnerFacts
  <2>2. \A m \in ToSet(List) \cup ToSet(E) :
          m \in live' /\ global'[m] <= 0 /\ value'[m] \in 1..MaxPushes
    BY <1>3, <1>4, <1>7, <1>9, OwnerFacts
  <2>3. \A m \in live' : \/ m \in ToSet(List) \cup ToSet(E)
                         \/ \E u \in Thread : u /= t /\ m \in Held[u]
                         \/ Balance'[m] = 0 /\ global'[m] /= 0
    <3>1. TAKE m \in live'
    <3>2. m \in live /\ m \in Node
      BY <1>1, <1>4
    <3>3. CASE m = n
      BY <1>4, <1>6, <3>3
    <3>4. CASE m /= n
      BY <1>3, <1>6, <3>2, <3>4, OwnerFacts
    <3>5. QED BY <3>3, <3>4
  <2>4. ToSet(List) \cap ToSet(E) = {}
    BY OwnerFacts
  <2>5. ToSet(E) = IF pc'[t] \in {"push", "taken"} THEN {cur'[t].ptr} ELSE ToSet(E)
    OBVIOUS
  <2>6. QED BY <1>8, <1>10, <2>1, <2>2, <2>3, <2>4, <2>5 DEF Moved
<1>14. QED BY <1>11, <1>12, <1>13, StackStep

(* TryPop hands the popped node over to those who refer to it. *)
LEMMA PopFinishStep ==
  ASSUME StackInv, StackTypeOK', NEW t \in Thread, PopFinish(t)
  PROVE  /\ StackInv' /\ List' = List /\ Drained' = Drained
         /\ pc'[t] = "idle" /\ Others(t)
<1> PICK n : n = cur[t].ptr
  OBVIOUS
<1>1. StackTypeOK /\ pc[t] = "taken"
  BY DEF StackInv, PopFinish
<1>2. /\ n \in Node /\ Held[t] = {n} /\ Drained[t] = <<>> /\ ToSet(<<>>) = {}
      /\ Balance[n] = cur[t].stamp - 1
  BY <1>1, StackFacts, EmptyFacts DEF StackInv, ThreadInv
<1>3. /\ IncrementGlobal(n, Balance[n]) /\ Goto(t, "idle")
      /\ UNCHANGED <<head, value, next, cur>>
  BY <1>2 DEF PopFinish
<1>4. pc'[t] = "idle" /\ Others(t)
  BY <1>1, <1>3, OnlyPc DEF Others
<1>5. Drained = [Drained EXCEPT ![t] = <<>>]
  BY <1>2 DEF Drained
<1>6. QED BY <1>1, <1>2, <1>3, <1>4, <1>5, SettleStep

(* ConsumeAll does the same for the first node of its list. *)
LEMMA DrainStep ==
  ASSUME StackInv, StackTypeOK', NEW t \in Thread, Drain(t)
  PROVE  /\ StackInv' /\ List' = List
         /\ Drained' = [Drained EXCEPT ![t] = Tail(@)]
         /\ Drained[t] \in Seq(Node) /\ Drained[t] /= <<>>
         /\ Head(Drained[t]) = cur[t].ptr
         /\ pc'[t] = "drain" /\ Others(t)
<1> PICK n : n = cur[t].ptr
  OBVIOUS
<1>1. StackTypeOK /\ pc[t] = "drain" /\ n /= Null
  BY DEF StackInv, Drain
<1>2. /\ n \in Node /\ Segment(next, Balance, cur[t], Drained[t])
      /\ Held[t] = ToSet(Drained[t])
  BY <1>1, StackFacts DEF StackTypeOK, StackWord
<1>3. Drained[t] /= <<>> /\ Drained[t] \in Seq(Node) /\ IsInjective(Drained[t])
  BY <1>1, <1>2, SegmentEmpty DEF Segment
<1>4. /\ Head(Drained[t]) = n /\ Balance[n] = cur[t].stamp
      /\ Segment(next, Balance, next[n], Tail(Drained[t]))
  BY <1>2, <1>3, SegmentTail
<1>5. /\ ToSet(Drained[t]) = {n} \cup ToSet(Tail(Drained[t]))
      /\ n \notin ToSet(Tail(Drained[t]))
  BY <1>3, <1>4, PopFacts
<1>6. /\ IncrementGlobal(n, Balance[n]) /\ Local(t, next[n])
      /\ UNCHANGED <<head, value, next, pc>>
  BY <1>4 DEF Drain
<1>7. cur'[t] = next[n] /\ pc'[t] = "drain" /\ Others(t)
  BY <1>1, <1>6, OnlyCur DEF Others
<1>8. StackInv' /\ List' = List /\ Drained' = [Drained EXCEPT ![t] = Tail(Drained[t])]
  <2>1. IF pc'[t] = "drain" THEN Segment(next, Balance, cur'[t], Tail(Drained[t]))
        ELSE Tail(Drained[t]) = <<>>
    BY <1>4, <1>7
  <2>2. Held[t] = {n} \cup ToSet(Tail(Drained[t]))
    BY <1>2, <1>5
  <2>3. QED BY <1>1, <1>2, <1>5, <1>6, <1>7, <2>1, <2>2, SettleStep
<1>9. QED BY <1>3, <1>4, <1>7, <1>8

(* TryPop gives a reference back, and deletes the node if it was the last  *)
(* one and the node had been given its stamp.                              *)
LEMMA PopReleaseStep ==
  ASSUME StackInv, StackTypeOK', NEW t \in Thread, PopRelease(t)
  PROVE  StackInv' /\ List' = List /\ Drained' = Drained
<1> PICK n : n = cur[t].ptr
  OBVIOUS
<1>1. StackTypeOK /\ pc[t] = "release"
  BY DEF StackInv, PopRelease
<1>2. n \in live /\ n \in Node
  BY <1>1, StackFacts DEF StackInv, ThreadInv
<1>3. /\ IncrementGlobal(n, -1) /\ Goto(t, "load")
      /\ UNCHANGED <<head, value, next, cur>>
  BY DEF PopRelease
<1>4. pc'[t] = "load" /\ Others(t)
  BY <1>1, <1>3, OnlyPc DEF Others
<1>5. /\ global \in [Node -> Int] /\ live \subseteq Node
      /\ \A m \in Node : Cardinality(Refs(m)) \in Nat
  BY <1>1, RefsFinite DEF StackTypeOK
<1>6. /\ global'[n] = global[n] - 1 /\ \A m \in Node : m /= n => global'[m] = global[m]
      /\ live' = IF global[n] = 1 THEN live \ {n} ELSE live
  BY <1>2, <1>3, <1>5 DEF IncrementGlobal
<1>7. t \in Refs(n) /\ t \notin Refs(n)' /\ Cardinality(Refs(n)') = Cardinality(Refs(n)) - 1
  <2>1. t \in Refs(n) /\ t \notin Refs(n)'
    BY <1>1, <1>4 DEF Refs
  <2>2. QED BY <1>4, <2>1, RefsCount
<1>8. \A m \in Node : Balance'[m] = Balance[m]
  <2>1. Balance'[n] = Balance[n]
    BY <1>2, <1>5, <1>6, <1>7, BalanceValue
  <2>2. ASSUME NEW m \in Node, m /= n
        PROVE  Balance'[m] = Balance[m]
    <3>1. t \notin Refs(m) /\ t \notin Refs(m)'
      BY <1>1, <1>4, <2>2 DEF Refs
    <3>2. QED BY <1>4, <1>6, <2>2, <3>1, RefsCount, BalanceValue
  <2>3. QED BY <2>1, <2>2
<1>9. Cardinality(Refs(n)) >= 1
  BY <1>2, <1>5, <1>7, RefsFinite
<1>10. global[n] = 1 =>
         /\ n \notin ToSet(List) /\ \A u \in Thread : n \notin Held[u]
         /\ Refs(n) = {t}
  <2>1. SUFFICES ASSUME global[n] = 1
                 PROVE  /\ n \notin ToSet(List) /\ \A u \in Thread : n \notin Held[u]
                        /\ Refs(n) = {t}
    OBVIOUS
  <2>2. n \notin ToSet(List) /\ \A u \in Thread : n \notin Held[u]
    BY <2>1, OwnerFacts
  <2>3. Balance[n] = 0
    BY <1>2, <2>2, OwnerFacts
  <2>4. Cardinality(Refs(n)) = 1
    BY <1>2, <1>5, <2>1, <2>3, BalanceValue
  <2>5. Refs(n) \ {t} = {}
    <3>1. IsFiniteSet(Refs(n) \ {t}) /\ Cardinality(Refs(n) \ {t}) = 0
      BY <1>7, <2>4, RefsFinite, FS_RemoveElement
    <3>2. QED BY <3>1, FS_EmptySet
  <2>6. QED BY <1>7, <2>2, <2>5
<1>11. Segment(next', Balance', head', List)
  <2>1. \A m \in ToSet(List) : Balance'[m] = Balance[m]
    BY <1>8, OwnerFacts
  <2>2. QED BY <1>3, <2>1, StackFacts, SegmentFrame
<1>12. Drained[t] = <<>> /\ Drained = [Drained EXCEPT ![t] = <<>>] /\ Held[t] = {}
       /\ ToSet(<<>>) = {}
  <2>1. Drained[t] = <<>> /\ Held[t] = {} /\ ToSet(<<>>) = {}
    BY <1>1, StackFacts, EmptyFacts
  <2>2. QED BY <2>1 DEF Drained
<1>13. Known(t)
  BY <1>4 DEF Known
<1>14. Kept(t)
  <2>1. \A u \in Thread, m \in Node : u /= t /\ u \in Refs(m) => m \in live'
    BY <1>6, <1>10, OwnerFacts
  <2>2. ASSUME NEW u \in Thread, u /= t, NEW m \in Held[u]
        PROVE  /\ m \in live' /\ global'[m] <= 0
               /\ pc[u] = "push" => global'[m] = global[m]
    <3>1. m \in Node /\ m \in live /\ global[m] <= 0
      BY OwnerFacts
    <3>2. m \in live' /\ global'[m] <= 0
      BY <1>5, <1>6, <3>1
    <3>3. ASSUME pc[u] = "push"
          PROVE  m /= n
      <4>1. m = cur[u].ptr
        BY <3>3, StackFacts
      <4>2. Balance[m] = 0 /\ global[m] = 0
        BY <3>3, <4>1 DEF StackInv, ThreadInv
      <4>3. QED BY <1>5, <1>9, <3>1, <4>2, BalanceValue
    <3>4. QED BY <1>6, <3>1, <3>2, <3>3
  <2>3. QED BY <1>3, <1>8, <2>1, <2>2, OwnerFacts DEF Kept
<1>15. Moved(t, List, <<>>, {})
  <2>1. \A u \in Thread : u /= t => (ToSet(List) \cup {}) \cap Held[u] = {}
    BY OwnerFacts
  <2>2. \A m \in ToSet(List) \cup {} :
          m \in live' /\ global'[m] <= 0 /\ value'[m] \in 1..MaxPushes
    <3>1. TAKE m \in ToSet(List) \cup {}
    <3>2. m \in Node /\ m \in live /\ global[m] <= 0 /\ value[m] \in 1..MaxPushes
      BY OwnerFacts
    <3>3. QED BY <1>3, <1>5, <1>6, <3>2
  <2>3. \A m \in live' : \/ m \in ToSet(List) \cup {}
                         \/ \E u \in Thread : u /= t /\ m \in Held[u]
                         \/ Balance'[m] = 0 /\ global'[m] /= 0
    <3>1. TAKE m \in live'
    <3>2. m \in live /\ m \in Node /\ (m = n => global[n] /= 1)
      BY <1>5, <1>6
    <3>3. QED BY <1>5, <1>6, <1>8, <1>12, <3>2, OwnerFacts
  <2>4. QED BY <1>4, <1>11, <1>12, <2>1, <2>2, <2>3 DEF Moved
<1>16. QED BY <1>4, <1>12, <1>13, <1>14, <1>15, StackStep

(* The destructor finds no node but those of the list. *)
LEMMA DestroyStep ==
  ASSUME StackInv, StackTypeOK', Destroy
  PROVE  /\ StackInv' /\ List' = <<>> /\ Drained' = Drained
         /\ \A t \in Thread : pc[t] = "idle" /\ pc'[t] = "gone"
<1>1. /\ \A t \in Thread : pc[t] = "idle" /\ pc'[t] = "gone"
      /\ live' = live \ ToSet(List) /\ head' = NullPtr
      /\ UNCHANGED <<value, next, global, cur>>
  BY DEF Destroy, Chain, List
<1>2. \A n \in Node : Refs(n) = {} /\ Refs(n)' = {}
  BY <1>1 DEF Refs
<1>3. Balance' = Balance
  BY <1>1, <1>2 DEF Balance
<1>4. /\ \A t \in Thread : Drained[t] = <<>> /\ Drained'[t] = <<>>
      /\ Drained' = Drained /\ ToSet(<<>>) = {}
  BY <1>1, EmptyFacts DEF Drained
<1>5. \A t \in Thread : Held[t] = {} /\ Held'[t] = {}
  BY <1>1, <1>4 DEF Held
<1>6. Segment(next', Balance', head', <<>>) /\ List' = <<>>
  <2>1. head'.ptr = Null
    BY <1>1 DEF NullPtr, Stamped
  <2>2. Segment(next', Balance', head', <<>>)
    BY <2>1, SegmentEmpty
  <2>3. Trail(next', head'.ptr) = <<>>
    BY <2>2, SegmentTrail
  <2>4. QED BY <2>2, <2>3 DEF List
<1>7. live' = {}
  <2>1. SUFFICES ASSUME NEW n \in live, n \notin ToSet(List)
                 PROVE  FALSE
    BY <1>1
  <2>2. n \in Node /\ global \in [Node -> Int]
    BY DEF StackInv, StackTypeOK
  <2>3. Balance[n] = 0 /\ global[n] /= 0
    BY <1>5, <2>1, OwnerFacts
  <2>4. Cardinality(Refs(n)) = 0
    BY <1>2, <2>2, RefsFinite
  <2>5. QED BY <2>2, <2>3, <2>4, BalanceValue
<1>8. ListInv'
  BY <1>1, <1>6 DEF ListInv
<1>9. OwnerInv' /\ ValueInv'
  BY <1>4, <1>5, <1>6 DEF OwnerInv, ValueInv
<1>10. ThreadInv' /\ RestInv'
  BY <1>1, <1>7 DEF ThreadInv, RestInv
<1>11. QED BY <1>1, <1>4, <1>6, <1>8, <1>9, <1>10 DEF StackInv

LEMMA StackInvInit ==
  ASSUME StackInit
  PROVE  StackInv
<1>1. StackTypeOK
  BY StackAssumption DEF StackInit, StackTypeOK, StackWord, StackResult, StackControl,
                         NullPtr, Stamped
<1>2. head.ptr = Null /\ live = {} /\ \A t \in Thread : pc[t] = "idle"
  BY DEF StackInit, NullPtr, Stamped
<1>3. Segment(next, Balance, head, <<>>) /\ List = <<>>
  <2>1. Segment(next, Balance, head, <<>>)
    BY <1>2, SegmentEmpty
  <2>2. QED BY <2>1, SegmentTrail DEF List
<1>4. /\ ToSet(<<>>) = {} /\ \A t \in Thread : Drained[t] = <<>>
  BY <1>2, EmptyFacts DEF Drained
<1>5. \A t \in Thread : Held[t] = {}
  BY <1>2, <1>4 DEF Held
<1>6. ListInv
  BY <1>2, <1>3 DEF ListInv
<1>7. OwnerInv /\ ValueInv
  BY <1>3, <1>4, <1>5 DEF OwnerInv, ValueInv
<1>8. ThreadInv /\ RestInv
  BY <1>2 DEF ThreadInv, RestInv
<1>9. QED BY <1>1, <1>6, <1>7, <1>8 DEF StackInv

LEMMA StackInvStep ==
  ASSUME StackInv, StampFits, [StackNext]_stackVars
  PROVE  StackInv'
<1>1. StackTypeOK'
  BY StackTypeStep
<1>2. ASSUME NEW t \in Thread, PushStep(t)
      PROVE  StackInv'
  BY <1>1, <1>2, PushNewStep, PushCasStep DEF PushStep
<1>3. ASSUME NEW t \in Thread, PopStep(t)
      PROVE  StackInv'
  <2>1. CASE PopCall(t) \/ AcquireLoad(t) \/ PopCasSpurious(t)
    BY <1>1, <2>1, QuietSteps
  <2>2. CASE AcquireCas(t)
    BY <1>1, <2>2, QuietSteps, AcquireStep
  <2>3. CASE PopCas(t)
    BY <1>1, <2>3, QuietSteps, PopCasStep
  <2>4. CASE PopFinish(t) \/ PopRelease(t)
    BY <1>1, <2>4, PopFinishStep, PopReleaseStep
  <2>5. QED BY <1>3, <2>1, <2>2, <2>3, <2>4 DEF PopStep
<1>4. ASSUME NEW t \in Thread, ConsumeStep(t)
      PROVE  StackInv'
  <2>1. CASE ConsumeLoad(t) \/ ConsumeReturn(t)
    BY <1>1, <2>1, QuietSteps
  <2>2. CASE ConsumeCas(t)
    BY <1>1, <2>2, QuietSteps, ConsumeCasStep
  <2>3. CASE Drain(t)
    BY <1>1, <2>3, DrainStep
  <2>4. QED BY <1>4, <2>1, <2>2, <2>3 DEF ConsumeStep
<1>5. CASE Destroy
  BY <1>1, <1>5, DestroyStep
<1>6. CASE UNCHANGED stackVars
  <2>1. UNCHANGED <<head, live, value, next, global, pc, cur>>
    BY <1>6 DEF stackVars, nvars, tvars
  <2>2. Balance' = Balance /\ List' = List /\ Drained' = Drained
    BY <2>1 DEF Balance, Refs, List, Drained
  <2>3. Held' = Held
    BY <2>1, <2>2 DEF Held
  <2>4. QED BY <1>1, <2>1, <2>2, <2>3
            DEF StackInv, ListInv, OwnerInv, ThreadInv, RestInv, ValueInv
<1>7. QED BY <1>2, <1>3, <1>4, <1>5, <1>6 DEF StackNext, StackExhausted

(* While no stamp comes to its limit, the list of the stack and the lists  *)
(* that are drained are lists of nodes that live and whose stamps count    *)
(* the references to them.                                                 *)
THEOREM StackInvariance == StackSpec /\ []StampFits => []StackInv
<1>1. StackInit => StackInv
  BY StackInvInit
<1>2. StackInv /\ StampFits /\ [StackNext]_stackVars => StackInv'
  BY StackInvStep
<1>3. QED BY <1>1, <1>2, PTL DEF StackSpec

(* The words of the stack hold addresses and stamps of 16 bits. *)
THEOREM StackTypeCorrect == StackSpec /\ []StampFits => []StackTypeOK
<1>1. StackInv => StackTypeOK
  BY DEF StackInv
<1>2. QED BY <1>1, StackInvariance, PTL

(* No thread touches a node that was deleted, whatever is popped, consumed *)
(* or allocated again between its reading of head_ and its exchange.       *)
THEOREM NoUseAfterFreeHolds == StackSpec /\ []StampFits => []NoUseAfterFree
<1>1. StackInv => NoUseAfterFree
  <2> SUFFICES ASSUME StackInv PROVE NoUseAfterFree
    OBVIOUS
  <2>1. \A n \in ToSet(List) : n \in live
    BY OwnerFacts
  <2>2. ASSUME NEW t \in Thread, Uses(t)
        PROVE  cur[t].ptr \in live
    <3>1. CASE pc[t] \in {"pop", "release"}
      BY <3>1 DEF StackInv, ThreadInv
    <3>2. CASE pc[t] \in {"push", "taken"}
      BY <3>2, StackFacts
    <3>3. CASE pc[t] = "drain" /\ cur[t].ptr /= Null
      <4>1. Segment(next, Balance, cur[t], Drained[t]) /\ Held[t] = ToSet(Drained[t])
        BY <3>3, StackFacts
      <4>2. Drained[t] /= <<>> /\ Drained[t] \in Seq(Node)
        BY <3>3, <4>1, SegmentEmpty DEF Segment
      <4>3. Head(Drained[t]) = cur[t].ptr
        BY <4>1, <4>2, SegmentTail
      <4>4. cur[t].ptr \in Held[t]
        BY <4>1, <4>2, <4>3, PopFacts
      <4>5. QED BY <4>4, OwnerFacts
    <3>4. QED BY <2>2, <3>1, <3>2, <3>3 DEF Uses
  <2>3. QED BY <2>1, <2>2 DEF NoUseAfterFree, Chain, List
<1>2. QED BY <1>1, StackInvariance, PTL

(* When all calls are over, the nodes that live are those of the list: a   *)
(* node that was unlinked while others referred to it is deleted by the    *)
(* last of them.                                                           *)
THEOREM NoLeakHolds == StackSpec /\ []StampFits => []NoLeak
<1>1. StackInv => NoLeak
  <2> SUFFICES ASSUME StackInv, \A t \in Thread : pc[t] \in {"idle", "gone"}
               PROVE  live = ToSet(List)
    BY DEF NoLeak, Chain, List
  <2>1. \A t \in Thread : Held[t] = {}
    BY StackFacts
  <2>2. \A n \in Node : Refs(n) = {}
    BY DEF Refs
  <2>3. ASSUME NEW n \in live, n \notin ToSet(List)
        PROVE  FALSE
    <3>1. n \in Node /\ global \in [Node -> Int]
      BY DEF StackInv, StackTypeOK
    <3>2. Balance[n] = 0 /\ global[n] /= 0
      BY <2>1, <2>3, OwnerFacts
    <3>3. Cardinality(Refs(n)) = 0
      BY <2>2, <3>1, RefsFinite
    <3>4. QED BY <3>1, <3>2, <3>3, BalanceValue
  <2>4. ToSet(List) \subseteq live
    BY OwnerFacts
  <2>5. QED BY <2>3, <2>4
<1>2. QED BY <1>1, StackInvariance, PTL

----------------------------------------------------------------------------
(* Stamps do not come to the limit before as many references were acquired. *)

Acquired == [ptr : Node \cup {Null}, stamp : 0..acquires]

StampBound ==
  head \in Acquired /\ next \in [Node -> Acquired] /\ cur \in [Thread -> Acquired]

LEMMA StampBoundStep ==
  ASSUME StackInv, StampFits, StampBound, [StackNext]_stackVars
  PROVE  StampBound'
<1>1. /\ StackTypeOK /\ acquires \in Nat
      /\ \A sp \in Acquired : sp = [ptr |-> sp.ptr, stamp |-> sp.stamp]
                              /\ sp.stamp \in 0..acquires /\ sp.ptr \in Node \cup {Null}
      /\ NullPtr \in Acquired /\ \A n \in Node : Stamped(n, 0) \in Acquired
  BY StackAssumption DEF StackInv, StackTypeOK, Acquired, NullPtr, Stamped
<1>2. ASSUME acquires' = acquires
      PROVE  Acquired' = Acquired
  BY <1>2 DEF Acquired
<1>3. ASSUME NEW t \in Thread
      PROVE  \A sp \in Acquired : [cur EXCEPT ![t] = sp] \in [Thread -> Acquired]
  BY DEF StampBound
<1>4. ASSUME NEW n \in Node
      PROVE  \A sp \in Acquired : [next EXCEPT ![n] = sp] \in [Node -> Acquired]
  BY DEF StampBound
<1>5. ASSUME NEW t \in Thread, PushStep(t)
      PROVE  StampBound'
  <2>1. CASE PushNew(t)
    <3>1. acquires' = acquires /\ head' = head
      BY <2>1 DEF PushNew
    <3>2. next' \in [Node -> Acquired] /\ cur' \in [Thread -> Acquired]
      BY <1>1, <1>3, <1>4, <2>1 DEF PushNew, Local
    <3>3. QED BY <1>2, <3>1, <3>2 DEF StampBound
  <2>2. CASE PushCas(t)
    <3>1. acquires' = acquires /\ cur' = cur /\ cur[t].ptr \in Node
      BY <2>2, StackFacts DEF PushCas, bvars
    <3>2. head' \in Acquired
      BY <2>2 DEF PushCas, StampBound
    <3>3. next' \in [Node -> Acquired]
      BY <1>4, <2>2, <3>1 DEF PushCas, StampBound
    <3>4. QED BY <1>2, <3>1, <3>2, <3>3 DEF StampBound
  <2>3. QED BY <1>5, <2>1, <2>2 DEF PushStep
<1>6. ASSUME NEW t \in Thread, PopStep(t)
      PROVE  StampBound'
  <2>1. CASE AcquireCas(t)
    <3>1. next' = next
      BY <2>1 DEF AcquireCas, nvars
    <3>2. CASE head = cur[t]
      <4>1. /\ acquires' = acquires + 1
            /\ head' = Packed(IncrementStamp(cur[t])) /\ Local(t, IncrementStamp(cur[t]))
        BY <2>1, <3>2, StackFacts DEF AcquireCas
      <4>2. /\ cur[t] = [ptr |-> cur[t].ptr, stamp |-> cur[t].stamp]
            /\ cur[t].stamp \in 0..acquires /\ cur[t].ptr \in Node \cup {Null}
        BY <1>1 DEF StampBound
      <4>3. IncrementStamp(cur[t]) = [ptr |-> cur[t].ptr, stamp |-> cur[t].stamp + 1]
        BY <4>2 DEF IncrementStamp
      <4>4. (cur[t].stamp + 1) % StampMod = cur[t].stamp + 1
        BY <1>1, <3>2, <4>2, StackAssumption DEF StampFits
      <4>5. Packed(IncrementStamp(cur[t])) = IncrementStamp(cur[t])
        BY <4>3, <4>4 DEF Packed
      <4>6. IncrementStamp(cur[t]) \in Acquired'
        BY <1>1, <4>1, <4>2, <4>3 DEF Acquired
      <4>7. Acquired \subseteq Acquired'
        BY <1>1, <4>1 DEF Acquired
      <4>8. head' \in Acquired' /\ next' \in [Node -> Acquired']
        BY <3>1, <4>1, <4>5, <4>6, <4>7 DEF StampBound
      <4>9. cur' \in [Thread -> Acquired']
        BY <4>1, <4>6, <4>7 DEF StampBound, Local
      <4>10. QED BY <4>8, <4>9 DEF StampBound
    <3>3. CASE head /= cur[t]
      <4>1. acquires' = acquires /\ head' = head /\ Local(t, head)
        BY <2>1, <3>3, StackFacts DEF AcquireCas
      <4>2. cur' \in [Thread -> Acquired]
        BY <1>3, <4>1 DEF Local, StampBound
      <4>3. QED BY <1>2, <3>1, <4>1, <4>2 DEF StampBound
    <3>4. QED BY <3>2, <3>3
  <2>2. CASE AcquireLoad(t)
    <3>1. acquires' = acquires /\ head' = head /\ next' = next /\ Local(t, head)
      BY <2>2 DEF AcquireLoad, nvars, bvars
    <3>2. cur' \in [Thread -> Acquired]
      BY <1>3, <3>1 DEF Local, StampBound
    <3>3. QED BY <1>2, <3>1, <3>2 DEF StampBound
  <2>3. CASE PopCas(t)
    <3>1. acquires' = acquires /\ next' = next /\ cur' = cur
      BY <2>3 DEF PopCas, nvars, bvars
    <3>2. cur[t].ptr \in Node /\ Packed(next[cur[t].ptr]) = next[cur[t].ptr]
      BY <2>3, StackFacts DEF PopCas, StackInv, ThreadInv
    <3>3. head' \in Acquired
      BY <2>3, <3>2 DEF PopCas, StampBound
    <3>4. QED BY <1>2, <3>1, <3>3 DEF StampBound
  <2>4. CASE PopCall(t) \/ PopCasSpurious(t) \/ PopFinish(t) \/ PopRelease(t)
    <3>1. UNCHANGED <<acquires, head, next, cur>>
      BY <2>4 DEF PopCall, PopCasSpurious, PopFinish, PopRelease, nvars, bvars
    <3>2. QED BY <1>2, <3>1 DEF StampBound
  <2>5. QED BY <1>6, <2>1, <2>2, <2>3, <2>4 DEF PopStep
<1>7. ASSUME NEW t \in Thread, ConsumeStep(t)
      PROVE  StampBound'
  <2>1. CASE ConsumeLoad(t) \/ ConsumeCas(t)
    <3>1. acquires' = acquires /\ next' = next
      BY <2>1 DEF ConsumeLoad, ConsumeCas, nvars, bvars
    <3>2. head' \in Acquired
      BY <1>1, <2>1 DEF ConsumeLoad, ConsumeCas, StampBound
    <3>3. cur' \in [Thread -> Acquired]
      <4>1. [cur EXCEPT ![t] = head] \in [Thread -> Acquired]
        BY <1>3 DEF StampBound
      <4>2. QED BY <2>1, <4>1 DEF ConsumeLoad, ConsumeCas, StampBound, Local
    <3>4. QED BY <1>2, <3>1, <3>2, <3>3 DEF StampBound
  <2>2. CASE Drain(t)
    <3>1. acquires' = acquires /\ head' = head /\ next' = next /\ cur[t].ptr \in Node
      BY <1>1, <2>2 DEF Drain, bvars, StackTypeOK, StackWord
    <3>2. cur' \in [Thread -> Acquired]
      BY <1>3, <2>2, <3>1 DEF Drain, Local, StampBound
    <3>3. QED BY <1>2, <3>1, <3>2 DEF StampBound
  <2>3. CASE ConsumeReturn(t)
    <3>1. UNCHANGED <<acquires, head, next, cur>>
      BY <2>3 DEF ConsumeReturn, nvars, bvars
    <3>2. QED BY <1>2, <3>1 DEF StampBound
  <2>4. QED BY <1>7, <2>1, <2>2, <2>3 DEF ConsumeStep
<1>8. CASE Destroy
  <2>1. acquires' = acquires /\ head' = NullPtr /\ next' = next /\ cur' = cur
    BY <1>8 DEF Destroy, bvars
  <2>2. QED BY <1>1, <1>2, <2>1 DEF StampBound
<1>9. CASE UNCHANGED stackVars
  <2>1. UNCHANGED <<acquires, head, next, cur>>
    BY <1>9 DEF stackVars, nvars, tvars, bvars
  <2>2. QED BY <1>2, <2>1 DEF StampBound
<1>10. QED BY <1>5, <1>6, <1>7, <1>8, <1>9 DEF StackNext, StackExhausted

(* With fewer references than the word can count, StampFits is no          *)
(* assumption: the theorems above hold of every behaviour.                 *)
THEOREM StampsFit == MaxAcquires < StampMod - 1 => (StackSpec => []StampFits)
<1> SUFFICES ASSUME MaxAcquires < StampMod - 1
             PROVE  StackSpec => []StampFits
  OBVIOUS
<1>1. StackInit => StackInv /\ StampBound
  BY StackInvInit DEF StackInit, StampBound, Acquired, NullPtr, Stamped
<1>2. StackInv /\ StampBound => StampFits
  <2>1. ASSUME StackInv, StampBound
        PROVE  StampFits
    <3>1. acquires \in 0..MaxAcquires /\ head.stamp \in 0..acquires
      BY <2>1 DEF StackInv, StackTypeOK, StampBound, Acquired
    <3>2. QED BY <3>1, StackAssumption DEF StampFits
  <2>2. QED BY <2>1
<1>3. StackInv /\ StampBound /\ [StackNext]_stackVars => StackInv' /\ StampBound'
  BY <1>2, StackInvStep, StampBoundStep
<1>4. QED BY <1>1, <1>2, <1>3, PTL DEF StackSpec

----------------------------------------------------------------------------
(***************************************************************************)
(* The stack implements the abstract one: what a list holds are the values *)
(* of its nodes, and a thread has received the value of the node that it   *)
(* popped and those of the list that it drains.                            *)
(***************************************************************************)

ValuesIn(v, s) == [i \in 1..Len(s) |-> v[s[i]]]

(* what a thread has taken and not delivered *)
Yield ==
  [t \in Thread |-> IF pc[t] = "taken" THEN <<value[cur[t].ptr]>>
                    ELSE ValuesIn(value, Drained[t])]

LEMMA ValuesEmpty ==
  ASSUME NEW v
  PROVE  ValuesIn(v, <<>>) = <<>>
BY DEF ValuesIn

LEMMA ValuesType ==
  ASSUME NEW v, NEW s \in Seq(Node), \A n \in ToSet(s) : v[n] \in StackResult
  PROVE  ValuesIn(v, s) \in Seq(StackResult) /\ Len(ValuesIn(v, s)) = Len(s)
<1>1. Len(s) \in Nat /\ \A i \in 1..Len(s) : v[s[i]] \in StackResult
  BY LenProperties DEF ToSet
<1>2. QED BY <1>1 DEF ValuesIn

LEMMA ValuesFrame ==
  ASSUME NEW v, NEW w, NEW s \in Seq(Node), \A n \in ToSet(s) : w[n] = v[n]
  PROVE  ValuesIn(w, s) = ValuesIn(v, s)
<1>1. \A i \in 1..Len(s) : w[s[i]] = v[s[i]]
  BY LenProperties DEF ToSet
<1>2. QED BY <1>1 DEF ValuesIn

LEMMA ValuesPush ==
  ASSUME NEW v, NEW s \in Seq(Node), NEW n \in Node,
         v[n] \in StackResult, \A m \in ToSet(s) : v[m] \in StackResult
  PROVE  ValuesIn(v, <<n>> \o s) = <<v[n]>> \o ValuesIn(v, s)
<1> DEFINE p == <<n>> \o s
           l == ValuesIn(v, p)
           q == ValuesIn(v, s)
           r == <<v[n]>> \o q
<1>1. Len(s) \in Nat /\ <<n>> \in Seq(Node) /\ Len(<<n>>) = 1 /\ <<n>>[1] = n
      /\ <<v[n]>> \in Seq(StackResult) /\ Len(<<v[n]>>) = 1 /\ <<v[n]>>[1] = v[n]
  BY LenProperties
<1>2. /\ p \in Seq(Node) /\ Len(p) = 1 + Len(s)
      /\ \A i \in 1..(1 + Len(s)) : p[i] = IF i <= 1 THEN n ELSE s[i - 1]
  BY <1>1, ConcatProperties
<1>3. \A m \in ToSet(p) : v[m] \in StackResult
  BY PushFacts
<1>4. /\ l \in Seq(StackResult) /\ Len(l) = Len(p)
      /\ q \in Seq(StackResult) /\ Len(q) = Len(s)
  BY <1>2, <1>3, ValuesType
<1>5. /\ r \in Seq(StackResult) /\ Len(r) = 1 + Len(s)
      /\ \A i \in 1..(1 + Len(s)) : r[i] = IF i <= 1 THEN v[n] ELSE q[i - 1]
  BY <1>1, <1>4, ConcatProperties
<1>6. /\ \A i \in 1..Len(p) : l[i] = v[p[i]]
      /\ \A i \in 1..Len(s) : q[i] = v[s[i]]
  BY DEF ValuesIn
<1> HIDE DEF p, l, q, r
<1>7. ASSUME NEW i \in 1..Len(l)
      PROVE  l[i] = r[i]
  <2>1. i \in 1..(1 + Len(s)) /\ i \in 1..Len(p) /\ l[i] = v[p[i]]
    BY <1>2, <1>4, <1>6
  <2>2. CASE i <= 1
    BY <1>2, <1>5, <2>1, <2>2
  <2>3. CASE ~(i <= 1)
    <3>1. i - 1 \in 1..Len(s)
      BY <1>1, <2>1, <2>3
    <3>2. QED BY <1>2, <1>5, <1>6, <2>1, <2>3, <3>1
  <2>4. QED BY <2>2, <2>3
<1>8. QED BY <1>2, <1>4, <1>5, <1>7, SeqEqual DEF p, l, q, r

LEMMA ValuesPop ==
  ASSUME NEW v, NEW s \in Seq(Node), s /= <<>>, \A m \in ToSet(s) : v[m] \in StackResult
  PROVE  /\ ValuesIn(v, s) /= <<>> /\ Head(ValuesIn(v, s)) = v[Head(s)]
         /\ Tail(ValuesIn(v, s)) = ValuesIn(v, Tail(s))
         /\ ValuesIn(v, s) = <<v[Head(s)]>> \o ValuesIn(v, Tail(s))
<1>1. Head(s) \in Node /\ Tail(s) \in Seq(Node) /\ ToSet(s) = {Head(s)} \cup ToSet(Tail(s))
  BY PopFacts
<1>2. s = <<Head(s)>> \o Tail(s)
  BY HeadTailProperties
<1>3. ValuesIn(v, s) = <<v[Head(s)]>> \o ValuesIn(v, Tail(s))
  BY <1>1, <1>2, ValuesPush
<1>4. <<v[Head(s)]>> \in Seq(StackResult) /\ ValuesIn(v, Tail(s)) \in Seq(StackResult)
  <2>1. v[Head(s)] \in StackResult /\ \A m \in ToSet(Tail(s)) : v[m] \in StackResult
    BY <1>1
  <2>2. ValuesIn(v, Tail(s)) \in Seq(StackResult)
    BY <1>1, <2>1, ValuesType
  <2>3. QED BY <2>1, <2>2
<1>5. /\ ValuesIn(v, s) /= <<>> /\ Head(ValuesIn(v, s)) = Head(<<v[Head(s)]>>)
      /\ Tail(ValuesIn(v, s)) = Tail(<<v[Head(s)]>>) \o ValuesIn(v, Tail(s))
  BY <1>3, <1>4, ConcatHeadTail
<1>6. /\ Head(<<v[Head(s)]>>) = v[Head(s)] /\ Tail(<<v[Head(s)]>>) = <<>>
      /\ <<>> \o ValuesIn(v, Tail(s)) = ValuesIn(v, Tail(s))
  BY <1>4, ConcatEmptySeq
<1>7. QED BY <1>3, <1>5, <1>6

(* The refinement mapping in these terms. *)
LEMMA StackMapping ==
  /\ Stacked = ValuesIn(value, List)
  /\ Delivered = [t \in Thread |-> got[t] \o Yield[t]]
<1>1. Stacked = ValuesIn(value, List)
  BY DEF Stacked, ValuesOf, Chain, List, ValuesIn
<1>2. ASSUME NEW t \in Thread
      PROVE  Pending(t) = Yield[t]
  <2>1. CASE pc[t] = "taken"
    BY <2>1 DEF Pending, Yield
  <2>2. CASE pc[t] = "drain"
    BY <2>2 DEF Pending, Yield, Drained, ValuesOf, ValuesIn, Chain
  <2>3. CASE pc[t] \notin {"taken", "drain"}
    BY <2>3, ValuesEmpty DEF Pending, Yield, Drained
  <2>4. QED BY <2>1, <2>2, <2>3
<1>3. QED BY <1>1, <1>2 DEF Delivered

LEMMA StackMappingNext ==
  /\ Stacked' = ValuesIn(value', List')
  /\ Delivered' = [t \in Thread |-> got'[t] \o Yield'[t]]
<1>1. Stacked' = ValuesIn(value', List')
  BY DEF Stacked, ValuesOf, Chain, List, ValuesIn
<1>2. ASSUME NEW t \in Thread
      PROVE  Pending(t)' = Yield'[t]
  <2>1. CASE pc'[t] = "taken"
    BY <2>1 DEF Pending, Yield
  <2>2. CASE pc'[t] = "drain"
    BY <2>2 DEF Pending, Yield, Drained, ValuesOf, ValuesIn, Chain
  <2>3. CASE pc'[t] \notin {"taken", "drain"}
    BY <2>3, ValuesEmpty DEF Pending, Yield, Drained
  <2>4. QED BY <2>1, <2>2, <2>3
<1>3. QED BY <1>1, <1>2 DEF Delivered

LEMMA YieldFacts ==
  ASSUME StackInv, NEW t \in Thread
  PROVE  /\ Drained[t] \in Seq(Node)
         /\ \A n \in ToSet(Drained[t]) : n \in live /\ value[n] \in StackResult
         /\ List \in Seq(Node)
         /\ \A n \in ToSet(List) : n \in live /\ value[n] \in StackResult
         /\ pc[t] = "taken" => /\ Yield[t] = <<value[cur[t].ptr]>> /\ cur[t].ptr \in live
                               /\ value[cur[t].ptr] \in StackResult
         /\ pc[t] = "drain" => Yield[t] = ValuesIn(value, Drained[t])
         /\ pc[t] \notin {"taken", "drain"} => Yield[t] = <<>>
         /\ got[t] \in Seq(StackResult) /\ Yield[t] \in Seq(StackResult)
         /\ Delivered[t] = got[t] \o Yield[t]
<1>1. 1..MaxPushes \subseteq StackResult
  BY DEF StackResult
<1>2. Drained[t] \in Seq(Node) /\ \A n \in ToSet(Drained[t]) : n \in Held[t]
  <2>1. CASE pc[t] = "drain"
    BY <2>1, StackFacts DEF Segment
  <2>2. CASE pc[t] /= "drain"
    <3>1. Drained[t] = <<>>
      BY <2>2, StackFacts
    <3>2. <<>> \in Seq(Node) /\ ToSet(<<>>) = {}
      BY EmptyFacts
    <3>3. QED BY <3>1, <3>2
  <2>3. QED BY <2>1, <2>2
<1>3. \A n \in ToSet(Drained[t]) : n \in live /\ value[n] \in StackResult
  BY <1>1, <1>2, OwnerFacts
<1>4. List \in Seq(Node) /\ \A n \in ToSet(List) : n \in live /\ value[n] \in StackResult
  BY <1>1, StackFacts, OwnerFacts
<1>5. pc[t] = "taken" => cur[t].ptr \in live /\ value[cur[t].ptr] \in StackResult
  BY <1>1, StackFacts, OwnerFacts
<1>6. /\ pc[t] = "taken" => Yield[t] = <<value[cur[t].ptr]>>
      /\ pc[t] /= "taken" => Yield[t] = ValuesIn(value, Drained[t])
  BY DEF Yield
<1>7. pc[t] \notin {"taken", "drain"} => Yield[t] = <<>>
  BY <1>6, StackFacts, ValuesEmpty
<1>8. Yield[t] \in Seq(StackResult)
  <2>1. CASE pc[t] = "taken"
    <3>1. value[cur[t].ptr] \in StackResult /\ Yield[t] = <<value[cur[t].ptr]>>
      BY <1>5, <1>6, <2>1
    <3>2. \A v \in StackResult : <<v>> \in Seq(StackResult)
      OBVIOUS
    <3>3. QED BY <3>1, <3>2
  <2>2. CASE pc[t] /= "taken"
    BY <1>2, <1>3, <1>6, <2>2, ValuesType
  <2>3. QED BY <2>1, <2>2
<1>9. got[t] \in Seq(StackResult)
  BY DEF StackInv, StackTypeOK
<1>10. QED BY <1>2, <1>3, <1>4, <1>5, <1>6, <1>7, <1>8, <1>9, StackMapping

(* What a step of t does to the abstract state *)
LEMMA DeliveredStep ==
  ASSUME StackInv, NEW t \in Thread, Others(t), \A n \in live : value'[n] = value[n],
         NEW E, Drained' = [Drained EXCEPT ![t] = E],
         \A u \in Thread : u /= t => got'[u] = got[u]
  PROVE  /\ Delivered' = [Delivered EXCEPT ![t] = got'[t] \o Yield'[t]]
         /\ got'[t] \o Yield'[t] = got[t] \o Yield[t] => Delivered' = Delivered
         /\ List' = List => Stacked' = Stacked
<1>1. ASSUME NEW u \in Thread, u /= t
      PROVE  Yield'[u] = Yield[u]
  <2>1. /\ pc'[u] = pc[u] /\ cur'[u] = cur[u] /\ Drained'[u] = Drained[u]
        /\ Drained[u] \in Seq(Node) /\ \A n \in ToSet(Drained[u]) : value'[n] = value[n]
        /\ pc[u] = "taken" => value'[cur[u].ptr] = value[cur[u].ptr]
    BY <1>1, YieldFacts DEF Others, Drained
  <2>2. /\ Yield[u] = IF pc[u] = "taken" THEN <<value[cur[u].ptr]>>
                      ELSE ValuesIn(value, Drained[u])
        /\ Yield'[u] = IF pc'[u] = "taken" THEN <<value'[cur'[u].ptr]>>
                       ELSE ValuesIn(value', Drained'[u])
    BY DEF Yield, ValuesIn
  <2>3. ValuesIn(value', Drained[u]) = ValuesIn(value, Drained[u])
    BY <2>1, ValuesFrame
  <2>4. QED BY <2>1, <2>2, <2>3
<1>2. /\ Delivered = [u \in Thread |-> got[u] \o Yield[u]]
      /\ Delivered' = [u \in Thread |-> got'[u] \o Yield'[u]]
  BY StackMapping, StackMappingNext
<1>3. ASSUME List' = List
      PROVE  Stacked' = Stacked
  <2>1. ValuesIn(value', List) = ValuesIn(value, List)
    BY YieldFacts, ValuesFrame
  <2>2. QED BY <1>3, <2>1, StackMapping, StackMappingNext
<1>4. QED BY <1>1, <1>2, <1>3

(* a step that the abstract stack does not see *)
Silent == Stacked' = Stacked /\ Delivered' = Delivered

LEMMA SilentSteps ==
  ASSUME StackInv, StackTypeOK', StampFits, NEW t \in Thread,
         \/ PushNew(t) \/ PopCall(t) \/ AcquireLoad(t) \/ PopCasSpurious(t)
         \/ PopCas(t) /\ head /= cur[t]
         \/ AcquireCas(t) /\ (head /= cur[t] \/ cur[t].ptr /= Null)
         \/ PopRelease(t) \/ ConsumeLoad(t) \/ ConsumeReturn(t)
         \/ ConsumeCas(t) /\ head /= cur[t]
  PROVE  StackInv' /\ Silent
<1>1. StackTypeOK /\ Packed(cur[t]) = cur[t]
  BY StackFacts DEF StackInv
<1>2. StackInv' /\ List' = List /\ Drained' = Drained
  <2>1. CASE PushNew(t)
    BY <2>1, PushNewStep
  <2>2. CASE AcquireCas(t) /\ head = cur[t] /\ cur[t].ptr /= Null
    BY <2>2, AcquireStep
  <2>3. CASE PopRelease(t)
    BY <2>3, PopReleaseStep
  <2>4. QED BY <2>1, <2>2, <2>3, QuietSteps
<1>3. \A n \in live : value'[n] = value[n]
  <2>1. CASE PushNew(t)
    BY <2>1, PushNewStep
  <2>2. QED
    BY <2>1 DEF PopCall, AcquireLoad, PopCasSpurious, PopCas, AcquireCas, PopRelease,
                ConsumeLoad, ConsumeReturn, ConsumeCas, nvars
<1>4. got' = got
  BY <1>1 DEF PushNew, PopCall, AcquireLoad, PopCasSpurious, PopCas, AcquireCas, PopRelease,
              ConsumeLoad, ConsumeReturn, ConsumeCas
<1>5. Others(t)
  <2>1. CASE PushNew(t)
    BY <1>1, <2>1, OnlyPc, OnlyCur DEF PushNew, Others
  <2>2. CASE PopCall(t) \/ PopCasSpurious(t) \/ PopCas(t) \/ PopRelease(t) \/ ConsumeReturn(t)
    BY <1>1, <2>2, OnlyPc
       DEF PopCall, PopCasSpurious, PopCas, PopRelease, ConsumeReturn, Others
  <2>3. CASE AcquireLoad(t) \/ ConsumeLoad(t)
    BY <1>1, <2>3, OnlyPc, OnlyCur DEF AcquireLoad, ConsumeLoad, Others
  <2>4. CASE AcquireCas(t) \/ ConsumeCas(t)
    BY <1>1, <2>4, OnlyPc, OnlyCur DEF AcquireCas, ConsumeCas, Others
  <2>5. QED BY <2>1, <2>2, <2>3, <2>4
<1>6. pc[t] /= "taken" /\ pc'[t] /= "taken"
  <2>1. CASE PushNew(t)
    BY <1>1, <2>1, OnlyPc DEF PushNew
  <2>2. CASE PopCall(t) \/ PopCasSpurious(t) \/ PopRelease(t) \/ ConsumeReturn(t)
    BY <1>1, <2>2, OnlyPc DEF PopCall, PopCasSpurious, PopRelease, ConsumeReturn
  <2>3. CASE AcquireLoad(t) \/ ConsumeLoad(t)
    BY <1>1, <2>3, OnlyPc DEF AcquireLoad, ConsumeLoad
  <2>4. CASE AcquireCas(t) \/ ConsumeCas(t)
    BY <1>1, <2>4, OnlyPc DEF AcquireCas, ConsumeCas
  <2>5. CASE PopCas(t) /\ head /= cur[t]
    BY <1>1, <2>5, OnlyPc DEF PopCas
  <2>6. QED BY <2>1, <2>2, <2>3, <2>4, <2>5
<1>7. Yield'[t] = Yield[t]
  <2>1. Yield[t] = ValuesIn(value, Drained[t]) /\ Yield'[t] = ValuesIn(value', Drained'[t])
    BY <1>6 DEF Yield, ValuesIn
  <2>2. ValuesIn(value', Drained[t]) = ValuesIn(value, Drained[t])
    BY <1>3, YieldFacts, ValuesFrame
  <2>3. QED BY <1>2, <2>1, <2>2
<1>8. Drained' = [Drained EXCEPT ![t] = Drained[t]]
  BY <1>2 DEF Drained
<1>9. QED BY <1>2, <1>3, <1>4, <1>5, <1>7, <1>8, DeliveredStep DEF Silent

(* Push takes effect when it links its node. *)
LEMMA PushRefines ==
  ASSUME StackInv, StackTypeOK', NEW t \in Thread, PushCas(t)
  PROVE  Silent \/ \E v \in 1..MaxPushes : Abstract!Push(v)
<1>1. StackTypeOK /\ pc[t] = "push"
  BY DEF StackInv, PushCas
<1>2. /\ value' = value /\ got' = got /\ Drained' = Drained
      /\ \/ List' = List /\ pc' = pc
         \/ List' = <<cur[t].ptr>> \o List /\ pc'[t] = "idle"
  BY PushCasStep DEF PushCas
<1>3. Others(t)
  BY <1>1, OnlyPc DEF PushCas, Others
<1>4. Drained[t] = <<>> /\ Drained' = [Drained EXCEPT ![t] = <<>>]
  <2>1. Drained[t] = <<>>
    BY <1>1, StackFacts
  <2>2. QED BY <1>2, <2>1 DEF Drained
<1>5. Yield[t] = <<>> /\ Yield'[t] = <<>>
  <2>1. Yield[t] = <<>>
    BY <1>1, YieldFacts
  <2>2. pc'[t] /= "taken" /\ Drained'[t] = <<>>
    BY <1>1, <1>2, <1>4
  <2>3. Yield'[t] = ValuesIn(value', Drained'[t])
    BY <2>2 DEF Yield, ValuesIn
  <2>4. QED BY <2>1, <2>2, <2>3, ValuesEmpty
<1>6. Delivered' = Delivered /\ (List' = List => Stacked' = Stacked)
  BY <1>2, <1>3, <1>4, <1>5, DeliveredStep
<1>7. ASSUME List' = <<cur[t].ptr>> \o List
      PROVE  \E v \in 1..MaxPushes : Abstract!Push(v)
  <2>1. cur[t].ptr \in Node /\ value[cur[t].ptr] \in 1..MaxPushes
    BY <1>1, StackFacts DEF StackInv, ThreadInv
  <2>2. value[cur[t].ptr] \in StackResult
    BY <2>1 DEF StackResult
  <2>3. ValuesIn(value, <<cur[t].ptr>> \o List) = <<value[cur[t].ptr]>> \o ValuesIn(value, List)
    BY <2>1, <2>2, YieldFacts, ValuesPush
  <2>4. Stacked' = <<value[cur[t].ptr]>> \o Stacked
    BY <1>2, <1>7, <2>3, StackMapping, StackMappingNext
  <2>5. QED BY <1>6, <2>1, <2>4 DEF Abstract!Push
<1>8. QED BY <1>2, <1>6, <1>7 DEF Silent

(* TryPop takes effect when it unlinks the top node, *)
LEMMA PopRefines ==
  ASSUME StackInv, StackTypeOK', NEW t \in Thread, PopCas(t), head = cur[t]
  PROVE  Abstract!Pop(t)
<1>1. pc[t] = "pop" /\ StackTypeOK
  BY DEF PopCas, StackInv
<1>2. /\ value' = value /\ got' = got /\ cur' = cur /\ Drained' = Drained
      /\ List' = Tail(List) /\ List /= <<>> /\ Head(List) = cur[t].ptr /\ pc'[t] = "taken"
  BY PopCasStep DEF PopCas, nvars
<1>3. Others(t)
  BY <1>1, OnlyPc DEF PopCas, Others
<1>4. Drained' = [Drained EXCEPT ![t] = Drained[t]]
  BY <1>2 DEF Drained
<1>5. Yield[t] = <<>> /\ Yield'[t] = <<value[cur[t].ptr]>> /\ got[t] \in Seq(StackResult)
  <2>1. Yield[t] = <<>> /\ got[t] \in Seq(StackResult)
    BY <1>1, YieldFacts
  <2>2. QED BY <1>2, <2>1 DEF Yield
<1>6. /\ ValuesIn(value, List) /= <<>> /\ Head(ValuesIn(value, List)) = value[cur[t].ptr]
      /\ Tail(ValuesIn(value, List)) = ValuesIn(value, Tail(List))
  <2>1. List \in Seq(Node) /\ \A n \in ToSet(List) : value[n] \in StackResult
    BY YieldFacts
  <2>2. QED BY <1>2, <2>1, ValuesPop
<1>7. Stacked /= <<>> /\ Head(Stacked) = value[cur[t].ptr] /\ Stacked' = Tail(Stacked)
  BY <1>2, <1>6, StackMapping, StackMappingNext
<1>8. Delivered' = [Delivered EXCEPT ![t] = got[t] \o <<Head(Stacked)>>]
  BY <1>2, <1>3, <1>4, <1>5, <1>7, DeliveredStep
<1>9. Delivered[t] = got[t]
  BY <1>5, YieldFacts, ConcatEmptySeq
<1>10. QED BY <1>7, <1>8, <1>9 DEF Abstract!Pop, Abstract!Receive

(* or when it acquires a null pointer. *)
LEMMA PopEmptyRefines ==
  ASSUME StackInv, StackTypeOK', NEW t \in Thread, AcquireCas(t),
         head = cur[t], cur[t].ptr = Null
  PROVE  Abstract!PopEmpty(t)
<1>1. pc[t] = "acquire" /\ StackTypeOK /\ Packed(cur[t]) = cur[t]
  BY StackFacts DEF AcquireCas, StackInv
<1>2. /\ value' = value /\ got' = [got EXCEPT ![t] = Append(@, Empty)]
      /\ Goto(t, "idle") /\ Local(t, IncrementStamp(cur[t]))
  BY <1>1 DEF AcquireCas, Receive, nvars
<1>3. Others(t) /\ pc'[t] = "idle"
  BY <1>1, <1>2, OnlyPc, OnlyCur DEF Others
<1>4. List' = List /\ Drained' = Drained /\ List = <<>>
  BY QuietSteps, StackFacts, SegmentEmpty
<1>5. Drained[t] = <<>> /\ Drained' = [Drained EXCEPT ![t] = <<>>]
  <2>1. Drained[t] = <<>>
    BY <1>1, StackFacts
  <2>2. QED BY <1>4, <2>1 DEF Drained
<1>6. Yield[t] = <<>> /\ Yield'[t] = <<>> /\ got[t] \in Seq(StackResult)
  <2>1. Yield[t] = <<>> /\ got[t] \in Seq(StackResult)
    BY <1>1, YieldFacts
  <2>2. Yield'[t] = ValuesIn(value', <<>>)
    BY <1>3, <1>4, <1>5 DEF Yield, ValuesIn
  <2>3. QED BY <2>1, <2>2, ValuesEmpty
<1>7. got'[t] = Append(got[t], Empty) /\ \A u \in Thread : u /= t => got'[u] = got[u]
  BY <1>1, <1>2 DEF StackTypeOK
<1>8. /\ got'[t] = got[t] \o <<Empty>> /\ got'[t] \o <<>> = got[t] \o <<Empty>>
      /\ got[t] \o <<>> = got[t]
  <2>1. Empty \in StackResult
    BY DEF StackResult
  <2>2. got'[t] = got[t] \o <<Empty>> /\ got'[t] \in Seq(StackResult)
    BY <1>6, <1>7, <2>1, AppendIsConcat, AppendProperties
  <2>3. QED BY <1>6, <2>2, ConcatEmptySeq
<1>9. Delivered' = [Delivered EXCEPT ![t] = got[t] \o <<Empty>>] /\ Stacked' = Stacked
  <2>1. got'[t] \o Yield'[t] = got[t] \o <<Empty>>
    BY <1>6, <1>8
  <2>2. /\ Delivered' = [Delivered EXCEPT ![t] = got'[t] \o Yield'[t]]
        /\ Stacked' = Stacked
    BY <1>2, <1>3, <1>4, <1>5, <1>7, DeliveredStep
  <2>3. QED BY <2>1, <2>2
<1>10. Delivered[t] = got[t] /\ Stacked = <<>>
  BY <1>4, <1>6, <1>8, YieldFacts, StackMapping, ValuesEmpty
<1>11. QED BY <1>9, <1>10 DEF Abstract!PopEmpty, Abstract!Receive

(* The value is moved out of a popped node later. *)
LEMMA PopFinishRefines ==
  ASSUME StackInv, StackTypeOK', NEW t \in Thread, PopFinish(t)
  PROVE  Silent
<1>1. pc[t] = "taken" /\ StackTypeOK
  BY DEF PopFinish, StackInv
<1>2. /\ value' = value /\ got' = [got EXCEPT ![t] = Append(@, value[cur[t].ptr])]
      /\ Others(t) /\ pc'[t] = "idle" /\ List' = List /\ Drained' = Drained
  BY PopFinishStep DEF PopFinish, Receive
<1>3. Drained[t] = <<>> /\ Drained' = [Drained EXCEPT ![t] = <<>>]
  <2>1. Drained[t] = <<>>
    BY <1>1, StackFacts
  <2>2. QED BY <1>2, <2>1 DEF Drained
<1>4. /\ Yield[t] = <<value[cur[t].ptr]>> /\ value[cur[t].ptr] \in StackResult
      /\ got[t] \in Seq(StackResult) /\ Yield'[t] = <<>>
  <2>1. /\ Yield[t] = <<value[cur[t].ptr]>> /\ value[cur[t].ptr] \in StackResult
        /\ got[t] \in Seq(StackResult)
    BY <1>1, YieldFacts
  <2>2. Yield'[t] = ValuesIn(value', <<>>)
    BY <1>2, <1>3 DEF Yield, ValuesIn
  <2>3. QED BY <2>1, <2>2, ValuesEmpty
<1>5. /\ got'[t] = Append(got[t], value[cur[t].ptr])
      /\ \A u \in Thread : u /= t => got'[u] = got[u]
  BY <1>1, <1>2 DEF StackTypeOK
<1>6. got'[t] \o Yield'[t] = got[t] \o Yield[t]
  <2>1. got'[t] = got[t] \o <<value[cur[t].ptr]>> /\ got'[t] \in Seq(StackResult)
    <3>1. \A g \in Seq(StackResult), v \in StackResult :
            Append(g, v) = g \o <<v>> /\ Append(g, v) \in Seq(StackResult)
      BY AppendIsConcat, AppendProperties
    <3>2. QED BY <1>4, <1>5, <3>1
  <2>2. QED BY <1>4, <2>1, ConcatEmptySeq
<1>7. QED BY <1>2, <1>3, <1>5, <1>6, DeliveredStep DEF Silent

(* ConsumeAll takes effect when it empties head_. *)
LEMMA ConsumeRefines ==
  ASSUME StackInv, StackTypeOK', NEW t \in Thread, ConsumeCas(t), head = cur[t]
  PROVE  Abstract!ConsumeAll(t)
<1>1. StackTypeOK /\ Packed(cur[t]) = cur[t]
  BY StackFacts DEF StackInv
<1>2. /\ value' = value /\ got' = got /\ cur' = cur /\ Goto(t, "drain")
  BY <1>1 DEF ConsumeCas, nvars
<1>3. /\ List' = <<>> /\ Drained' = [Drained EXCEPT ![t] = List]
      /\ pc'[t] = "drain" /\ pc[t] = "consume"
  BY ConsumeCasStep
<1>4. Others(t)
  BY <1>1, <1>2, OnlyPc DEF Others
<1>5. Yield[t] = <<>> /\ Yield'[t] = Stacked /\ got[t] \in Seq(StackResult)
  <2>1. Yield[t] = <<>> /\ got[t] \in Seq(StackResult)
    BY <1>3, YieldFacts
  <2>2. Drained'[t] = List
    BY <1>3 DEF Drained
  <2>3. Yield'[t] = ValuesIn(value', Drained'[t])
    BY <1>3 DEF Yield, ValuesIn
  <2>4. QED BY <1>2, <2>1, <2>2, <2>3, StackMapping
<1>6. Delivered' = [Delivered EXCEPT ![t] = got[t] \o Stacked]
  BY <1>2, <1>3, <1>4, <1>5, DeliveredStep
<1>7. Delivered[t] = got[t]
  BY <1>5, YieldFacts, ConcatEmptySeq
<1>8. Stacked' = <<>>
  BY <1>3, StackMappingNext, ValuesEmpty
<1>9. QED BY <1>6, <1>7, <1>8 DEF Abstract!ConsumeAll, Abstract!Receive

LEMMA DrainRefines ==
  ASSUME StackInv, StackTypeOK', NEW t \in Thread, Drain(t)
  PROVE  Silent
<1> DEFINE v == value[cur[t].ptr]
           s == ValuesIn(value, Tail(Drained[t]))
<1>1. pc[t] = "drain" /\ StackTypeOK
  BY DEF Drain, StackInv
<1>2. value' = value /\ got' = [got EXCEPT ![t] = Append(@, v)]
  BY DEF Drain, Receive
<1>3. /\ List' = List /\ Drained' = [Drained EXCEPT ![t] = Tail(@)]
      /\ Drained[t] \in Seq(Node) /\ Drained[t] /= <<>>
      /\ Head(Drained[t]) = cur[t].ptr /\ pc'[t] = "drain" /\ Others(t)
  BY DrainStep
<1>4. /\ Yield[t] = ValuesIn(value, Drained[t]) /\ got[t] \in Seq(StackResult)
      /\ \A n \in ToSet(Drained[t]) : value[n] \in StackResult
  BY <1>1, YieldFacts
<1>5. Yield[t] = <<v>> \o s
  BY <1>3, <1>4, ValuesPop
<1>6. v \in StackResult /\ s \in Seq(StackResult) /\ <<v>> \in Seq(StackResult)
  <2>1. /\ Tail(Drained[t]) \in Seq(Node)
        /\ ToSet(Drained[t]) = {cur[t].ptr} \cup ToSet(Tail(Drained[t]))
    BY <1>3, PopFacts
  <2>2. v \in StackResult /\ \A n \in ToSet(Tail(Drained[t])) : value[n] \in StackResult
    BY <1>4, <2>1
  <2>3. s \in Seq(StackResult)
    BY <2>1, <2>2, ValuesType
  <2>4. QED BY <2>2, <2>3
<1>7. Yield'[t] = s
  <2>1. Drained'[t] = Tail(Drained[t])
    BY <1>3 DEF Drained
  <2>2. Yield'[t] = ValuesIn(value', Drained'[t])
    BY <1>3 DEF Yield, ValuesIn
  <2>3. QED BY <1>2, <2>1, <2>2
<1>8. got'[t] = Append(got[t], v) /\ \A u \in Thread : u /= t => got'[u] = got[u]
  BY <1>1, <1>2 DEF StackTypeOK
<1> HIDE DEF v, s
<1>9. got'[t] \o Yield'[t] = got[t] \o Yield[t]
  <2>1. got'[t] = got[t] \o <<v>>
    BY <1>4, <1>6, <1>8, AppendIsConcat
  <2>2. (got[t] \o <<v>>) \o s = got[t] \o (<<v>> \o s)
    <3>1. \A a, b, c \in Seq(StackResult) : (a \o b) \o c = a \o (b \o c)
      BY ConcatAssociative
    <3>2. QED BY <1>4, <1>6, <3>1
  <2>3. QED BY <1>5, <1>7, <2>1, <2>2
<1>10. QED BY <1>2, <1>3, <1>8, <1>9, DeliveredStep DEF Silent

LEMMA DestroyRefines ==
  ASSUME StackInv, StackTypeOK', Destroy
  PROVE  Abstract!Destroy
<1>1. value' = value /\ got' = got
  BY DEF Destroy
<1>2. /\ List' = <<>> /\ Drained' = Drained
      /\ \A t \in Thread : pc[t] = "idle" /\ pc'[t] = "gone"
  BY DestroyStep
<1>3. \A t \in Thread : Yield'[t] = Yield[t]
  BY <1>1, <1>2 DEF Yield, ValuesIn
<1>4. Delivered' = Delivered
  BY <1>1, <1>3, StackMapping, StackMappingNext
<1>5. Stacked' = <<>>
  BY <1>2, StackMappingNext, ValuesEmpty
<1>6. QED BY <1>4, <1>5 DEF Abstract!Destroy

LEMMA StackStepRefines ==
  ASSUME StackInv, StampFits, [StackNext]_stackVars
  PROVE  [Abstract!Next]_<<Stacked, Delivered>>
<1>1. StackTypeOK'
  BY StackTypeStep
<1>2. ASSUME NEW t \in Thread, PushStep(t)
      PROVE  [Abstract!Next]_<<Stacked, Delivered>>
  BY <1>1, <1>2, SilentSteps, PushRefines DEF PushStep, Silent, Abstract!Next
<1>3. ASSUME NEW t \in Thread, PopStep(t)
      PROVE  Silent \/ Abstract!Pop(t) \/ Abstract!PopEmpty(t)
  <2>1. CASE PopCall(t) \/ AcquireLoad(t) \/ PopCasSpurious(t) \/ PopRelease(t)
    BY <1>1, <2>1, SilentSteps
  <2>2. CASE AcquireCas(t)
    BY <1>1, <2>2, SilentSteps, PopEmptyRefines
  <2>3. CASE PopCas(t)
    BY <1>1, <2>3, SilentSteps, PopRefines
  <2>4. CASE PopFinish(t)
    BY <1>1, <2>4, PopFinishRefines
  <2>5. QED BY <1>3, <2>1, <2>2, <2>3, <2>4 DEF PopStep
<1>4. ASSUME NEW t \in Thread, ConsumeStep(t)
      PROVE  Silent \/ Abstract!ConsumeAll(t)
  <2>1. CASE ConsumeLoad(t) \/ ConsumeReturn(t)
    BY <1>1, <2>1, SilentSteps
  <2>2. CASE ConsumeCas(t)
    BY <1>1, <2>2, SilentSteps, ConsumeRefines
  <2>3. CASE Drain(t)
    BY <1>1, <2>3, DrainRefines
  <2>4. QED BY <1>4, <2>1, <2>2, <2>3 DEF ConsumeStep
<1>5. CASE Destroy
  BY <1>1, <1>5, DestroyRefines DEF Abstract!Next
<1>6. CASE UNCHANGED stackVars
  <2>1. UNCHANGED <<head, next, value, pc, cur, got>>
    BY <1>6 DEF stackVars, nvars, tvars
  <2>2. List' = List /\ Drained' = Drained
    BY <2>1 DEF List, Drained
  <2>3. Yield' = Yield
    BY <2>1, <2>2 DEF Yield, ValuesIn
  <2>4. QED BY <2>1, <2>2, <2>3, StackMapping, StackMappingNext
<1>7. QED
  BY <1>2, <1>3, <1>4, <1>5, <1>6 DEF StackNext, StackExhausted, Silent, Abstract!Next

(* Push, TryPop and ConsumeAll are atomic operations of a stack: every     *)
(* value is delivered once, newest first, and nullopt only when the stack  *)
(* is empty, as long as the stamp of head_ does not come to its limit.     *)
THEOREM StackRefinement == StackSpec /\ []StampFits => ImplementsStack
<1>1. StackInit => StackInv /\ Abstract!Init
  <2> SUFFICES ASSUME StackInit PROVE StackInv /\ Abstract!Init
    OBVIOUS
  <2>1. StackInv
    BY StackInvInit
  <2>2. head.ptr = Null /\ \A t \in Thread : pc[t] = "idle" /\ got[t] = <<>>
    BY DEF StackInit, NullPtr, Stamped
  <2>3. List = <<>>
    BY <2>1, <2>2, SegmentEmpty DEF StackInv, ListInv
  <2>4. Stacked = <<>>
    BY <2>3, StackMapping, ValuesEmpty
  <2>5. \A t \in Thread : Yield[t] = <<>>
    BY <2>1, <2>2, YieldFacts
  <2>6. <<>> \o <<>> = <<>>
    OBVIOUS
  <2>7. Delivered = [t \in Thread |-> <<>>]
    BY <2>2, <2>5, <2>6, StackMapping
  <2>8. QED BY <2>1, <2>4, <2>7 DEF Abstract!Init
<1>2. StackInv /\ StampFits /\ [StackNext]_stackVars
        => StackInv' /\ [Abstract!Next]_<<Stacked, Delivered>>
  BY StackInvStep, StackStepRefines
<1>3. QED BY <1>1, <1>2, PTL DEF StackSpec, ImplementsStack, Abstract!Spec
=============================================================================
