--------------------------- MODULE LockFreeStack ---------------------------
(***************************************************************************)
(* concurrency/lockfree/stack.h: a stack of heap nodes with a split        *)
(* reference count.  The head_ word packs the address of the top node and  *)
(* a 16-bit stamp, the number of references ever acquired through head_;   *)
(* Node::global collects the references given back, and receives the stamp *)
(* when the node is unlinked.  A node is deleted by whoever brings its     *)
(* global to zero, and its address may then be allocated again.            *)
(*                                                                         *)
(* A StampedPtr held in a local variable has a 64-bit stamp: only packing  *)
(* it into a word cuts it to 16 bits (stamped_ptr.h:67).                   *)
(***************************************************************************)
EXTENDS Integers, FiniteSets, SequencesExt

CONSTANTS
  Null, Empty,
  Thread,
  Node,          \* the addresses the allocator hands out
  StampMod,      \* 2^16 in the code
  MaySpurious,   \* whether compare_exchange_weak may fail spuriously
  MaxPushes,     \* bound: calls of Push
  MaxPops,       \* bound: calls of TryPop
  MaxConsumes,   \* bound: calls of ConsumeAll
  MaxAcquires    \* bound: references acquired

ASSUME StackAssumption ==
  /\ Null \notin Node
  /\ IsFiniteSet(Node) /\ IsFiniteSet(Thread)
  /\ StampMod \in Nat \ {0}
  /\ {MaxPushes, MaxPops, MaxConsumes, MaxAcquires} \subseteq Nat
  /\ Empty \notin 1..MaxPushes
  /\ MaySpurious \in BOOLEAN

VARIABLES
  head,          \* head_
  live,          \* allocated nodes
  value,         \* Node::value
  next,          \* Node::next
  global,        \* Node::global
  pc,            \* control, per thread
  cur,           \* the local StampedPtr of a thread
  got,           \* history: what the calls of a thread returned
  pushes, pops, consumes, acquires    \* calls and references so far

nvars == <<live, value, next, global>>
tvars == <<pc, cur, got>>
bvars == <<pushes, pops, consumes, acquires>>
stackVars == <<head, nvars, tvars, bvars>>

Stamped(p, s) == [ptr |-> p, stamp |-> s]
NullPtr == Stamped(Null, 0)

(* the stamp that survives Pack and Unpack *)
Packed(sp) == [sp EXCEPT !.stamp = @ % StampMod]

IncrementStamp(sp) == [sp EXCEPT !.stamp = @ + 1]

StackInit ==
  /\ head = NullPtr
  /\ live = {}
  /\ value = [n \in Node |-> Empty]
  /\ next = [n \in Node |-> NullPtr]
  /\ global = [n \in Node |-> 0]
  /\ pc = [t \in Thread |-> "idle"]
  /\ cur = [t \in Thread |-> NullPtr]
  /\ got = [t \in Thread |-> <<>>]
  /\ pushes = 0 /\ pops = 0 /\ consumes = 0 /\ acquires = 0

Goto(t, l) == pc' = [pc EXCEPT ![t] = l]
Local(t, sp) == cur' = [cur EXCEPT ![t] = sp]
Receive(t, v) == got' = [got EXCEPT ![t] = Append(@, v)]

(* Node::IncrementGlobal: the thread that reaches zero deletes the node *)
IncrementGlobal(n, val) ==
  /\ global' = [global EXCEPT ![n] = @ + val]
  /\ live' = IF global[n] + val = 0 THEN live \ {n} ELSE live

----------------------------------------------------------------------------
(* Push: the new node's next doubles as the expected value of the loop *)

PushNew(t) ==
  /\ pc[t] = "idle"
  /\ pushes < MaxPushes
  /\ \E n \in Node \ live :
       /\ live' = live \cup {n}
       /\ value' = [value EXCEPT ![n] = pushes + 1]
       /\ next' = [next EXCEPT ![n] = NullPtr]
       /\ global' = [global EXCEPT ![n] = 0]
       /\ Local(t, Stamped(n, 0))
  /\ pushes' = pushes + 1
  /\ Goto(t, "push")
  /\ UNCHANGED <<head, got, pops, consumes, acquires>>

PushCas(t) ==
  LET n == cur[t].ptr IN
  /\ pc[t] = "push"
  /\ IF head = Packed(next[n])
       THEN head' = cur[t] /\ Goto(t, "idle") /\ UNCHANGED next
       ELSE next' = [next EXCEPT ![n] = head] /\ UNCHANGED <<head, pc>>
  /\ UNCHANGED <<live, value, global, cur, got, bvars>>

----------------------------------------------------------------------------
(* TryPop *)

PopCall(t) ==
  /\ pc[t] = "idle"
  /\ pops < MaxPops
  /\ pops' = pops + 1
  /\ Goto(t, "load")
  /\ UNCHANGED <<head, nvars, cur, got, pushes, consumes, acquires>>

AcquireLoad(t) ==
  /\ pc[t] = "load"
  /\ Local(t, head)
  /\ Goto(t, "acquire")
  /\ UNCHANGED <<head, nvars, got, bvars>>

(* AcquireRef bumps the stamp of whatever head_ holds, a null pointer too *)
AcquireCas(t) ==
  /\ pc[t] = "acquire"
  /\ acquires < MaxAcquires
  /\ IF head = Packed(cur[t])
       THEN /\ head' = Packed(IncrementStamp(cur[t]))
            /\ Local(t, IncrementStamp(cur[t]))
            /\ acquires' = acquires + 1
            /\ IF cur[t].ptr = Null
                 THEN Receive(t, Empty) /\ Goto(t, "idle")
                 ELSE Goto(t, "pop") /\ UNCHANGED got
       ELSE Local(t, head) /\ UNCHANGED <<head, acquires, got, pc>>
  /\ UNCHANGED <<nvars, pushes, pops, consumes>>

(* the word must still hold the stamp this thread gave it *)
PopCas(t) ==
  LET n == cur[t].ptr IN
  /\ pc[t] = "pop"
  /\ IF head = Packed(cur[t])
       THEN head' = Packed(next[n]) /\ Goto(t, "taken")
       ELSE Goto(t, "release") /\ UNCHANGED head
  /\ UNCHANGED <<nvars, cur, got, bvars>>

(* compare_exchange_weak may fail although the values are equal; in the    *)
(* other loops this changes nothing                                        *)
PopCasSpurious(t) ==
  /\ MaySpurious
  /\ pc[t] = "pop"
  /\ Goto(t, "release")
  /\ UNCHANGED <<head, nvars, cur, got, bvars>>

(* a faulty PopFinish, for testing the properties *)
PopFinishAll(t) ==
  LET n == cur[t].ptr IN
  /\ pc[t] = "taken"
  /\ Receive(t, value[n])
  /\ IncrementGlobal(n, cur[t].stamp)
  /\ Goto(t, "idle")
  /\ UNCHANGED <<head, value, next, cur, bvars>>

(* move the value out, and give the node its stamp less one's own share *)
PopFinish(t) ==
  LET n == cur[t].ptr IN
  /\ pc[t] = "taken"
  /\ Receive(t, value[n])
  /\ IncrementGlobal(n, cur[t].stamp - 1)
  /\ Goto(t, "idle")
  /\ UNCHANGED <<head, value, next, cur, bvars>>

PopRelease(t) ==
  /\ pc[t] = "release"
  /\ IncrementGlobal(cur[t].ptr, -1)
  /\ Goto(t, "load")
  /\ UNCHANGED <<head, value, next, cur, got, bvars>>

----------------------------------------------------------------------------
(* ConsumeAll acquires no reference: what it takes over is the stamps *)

ConsumeLoad(t) ==
  /\ pc[t] = "idle"
  /\ consumes < MaxConsumes
  /\ consumes' = consumes + 1
  /\ Local(t, head)
  /\ Goto(t, "consume")
  /\ UNCHANGED <<head, nvars, got, pushes, pops, acquires>>

(* a faulty ConsumeCas, for testing the properties *)
ConsumeStore(t) ==
  /\ pc[t] = "consume"
  /\ head' = NullPtr /\ Goto(t, "drain")
  /\ UNCHANGED <<nvars, cur, got, bvars>>

ConsumeCas(t) ==
  /\ pc[t] = "consume"
  /\ IF head = Packed(cur[t])
       THEN head' = NullPtr /\ Goto(t, "drain") /\ UNCHANGED cur
       ELSE Local(t, head) /\ UNCHANGED <<head, pc>>
  /\ UNCHANGED <<nvars, got, bvars>>

(* a faulty Drain, for testing the properties *)
DrainLate(t) ==
  LET n == cur[t].ptr IN
  /\ pc[t] = "drain"
  /\ n /= Null
  /\ Receive(t, value[n])
  /\ IncrementGlobal(n, cur[t].stamp - 1)
  /\ Local(t, next[n])
  /\ UNCHANGED <<head, value, next, pc, bvars>>

Drain(t) ==
  LET n == cur[t].ptr IN
  /\ pc[t] = "drain"
  /\ n /= Null
  /\ Receive(t, value[n])
  /\ IncrementGlobal(n, cur[t].stamp)
  /\ Local(t, next[n])
  /\ UNCHANGED <<head, value, next, pc, bvars>>

ConsumeReturn(t) ==
  /\ pc[t] = "drain"
  /\ cur[t].ptr = Null
  /\ Goto(t, "idle")
  /\ UNCHANGED <<head, nvars, cur, got, bvars>>

----------------------------------------------------------------------------
(* the pointers that are followed from p, Null after the last one *)
Walk(links, p) ==
  LET at[i \in Nat] ==
        IF i = 0 THEN p
        ELSE IF at[i - 1] = Null THEN Null ELSE links[at[i - 1]].ptr
  IN at

Trail(links, p) ==
  LET at == Walk(links, p)
      length == CHOOSE i \in 0..Cardinality(Node) :
                  /\ at[i] = Null \/ i = Cardinality(Node)
                  /\ \A j \in 0..(i - 1) : at[j] /= Null
  IN [i \in 1..length |-> at[i - 1]]

(* the nodes reachable from p, in order *)
Chain(p) == Trail(next, p)

(* DestroySelf, once no thread uses the stack any more *)
Destroy ==
  /\ \A t \in Thread : pc[t] = "idle"
  /\ live' = live \ ToSet(Chain(head.ptr))
  /\ pc' = [t \in Thread |-> "gone"]
  /\ head' = NullPtr
  /\ UNCHANGED <<value, next, global, cur, got, bvars>>

(* The bound on references is reached and some TryPop cannot go on, or     *)
(* the stack has been destroyed.                                           *)
StackExhausted ==
  /\ \/ \A t \in Thread : pc[t] = "gone"
     \/ acquires = MaxAcquires /\ \E t \in Thread : pc[t] = "acquire"
  /\ UNCHANGED stackVars

PushStep(t) == PushNew(t) \/ PushCas(t)

PopStep(t) ==
  \/ PopCall(t) \/ AcquireLoad(t) \/ AcquireCas(t) \/ PopCas(t)
  \/ PopCasSpurious(t) \/ PopFinish(t) \/ PopRelease(t)

ConsumeStep(t) ==
  ConsumeLoad(t) \/ ConsumeCas(t) \/ Drain(t) \/ ConsumeReturn(t)

StackNext ==
  \/ \E t \in Thread : PushStep(t) \/ PopStep(t) \/ ConsumeStep(t)
  \/ Destroy
  \/ StackExhausted

StackSpec == StackInit /\ [][StackNext]_stackVars

----------------------------------------------------------------------------
(* Properties *)

StackWord == [ptr : Node \cup {Null}, stamp : 0..(StampMod - 1)]
StackResult == 1..MaxPushes \cup {Empty}
StackControl == {"idle", "push", "load", "acquire", "pop", "taken", "release",
                 "consume", "drain", "gone"}

(* Every word holds an address and a stamp of 16 bits, even the local ones. *)
StackTypeOK ==
  /\ head \in StackWord
  /\ live \subseteq Node
  /\ value \in [Node -> StackResult]
  /\ next \in [Node -> StackWord]
  /\ global \in [Node -> Int]
  /\ pc \in [Thread -> StackControl]
  /\ cur \in [Thread -> StackWord]
  /\ got \in [Thread -> Seq(StackResult)]
  /\ pushes \in 0..MaxPushes /\ pops \in 0..MaxPops
  /\ consumes \in 0..MaxConsumes /\ acquires \in 0..MaxAcquires

(* The stamp of head_ does not come to its limit: no node collects 2^16    *)
(* references while it is on top.                                          *)
StampFits == head.stamp < StampMod - 1

(* t will read or write the node cur[t] in its next step *)
Uses(t) ==
  \/ pc[t] \in {"push", "pop", "taken", "release"}
  \/ pc[t] = "drain" /\ cur[t].ptr /= Null

(* No thread touches a node that has been deleted, although TryPop reads   *)
(* the next of a node that others may pop at any moment, and ConsumeAll    *)
(* walks a list on which it holds no reference of its own.                 *)
NoUseAfterFree ==
  /\ \A t \in Thread : Uses(t) => cur[t].ptr \in live
  /\ ToSet(Chain(head.ptr)) \subseteq live

(* Every node that was unlinked has been deleted once all calls are over   *)
(* (lock_free_stack_test.cpp:267, "Memory leak").                          *)
NoLeak ==
  (\A t \in Thread : pc[t] \in {"idle", "gone"})
     => live = ToSet(Chain(head.ptr))

(* the values of a list of nodes *)
ValuesOf(s) == [i \in 1..Len(s) |-> value[s[i]]]

(* what t has taken from the stack but not yet delivered *)
Pending(t) ==
  IF pc[t] = "taken" THEN <<value[cur[t].ptr]>>
  ELSE IF pc[t] = "drain" THEN ValuesOf(Chain(cur[t].ptr))
  ELSE <<>>

(* the stack, and what its threads have received, as the abstract one sees them *)
Stacked == ValuesOf(Chain(head.ptr))
Delivered == [t \in Thread |-> got[t] \o Pending(t)]

Abstract ==
  INSTANCE ConcurrentStack WITH
    Value <- 1..MaxPushes, contents <- Stacked, got <- Delivered

(* Push, TryPop and ConsumeAll are atomic operations of a stack: whatever  *)
(* is pushed, popped or reallocated between the reading of head_ and the   *)
(* exchange, every value is delivered once, newest first, and nullopt only *)
(* when the stack is empty.                                                *)
ImplementsStack == Abstract!Spec
=============================================================================
