-------------------------- MODULE AtomicSharedPtr --------------------------
(***************************************************************************)
(* common/shared_ptr.h: AtomicSharedPtr<T>, one of them, used by threads   *)
(* that have a SharedPtr each.  ptr_ packs the address of a control block  *)
(* and the number of references acquired through it; Load hands such a     *)
(* reference out as a SharedPtr, which gives it back to the global count.  *)
(***************************************************************************)
EXTENDS SharedPtr

CONSTANTS
  MaxStores, MaxLoads    \* bounds: the calls of Store and of Load

VARIABLES
  ptr, stamp,     \* AtomicSharedPtr::ptr_
  pc,             \* control of the thread that owns a slot
  old,            \* what Exchange returned to it: address and stamp
  stores, loads

vars == <<sharedVars, ptr, stamp, pc, old, stores, loads>>

Init ==
  /\ SharedInit
  /\ ptr = None /\ stamp = 0
  /\ pc = [s \in Slot |-> "idle"]
  /\ old = [s \in Slot |-> <<None, 0>>]
  /\ stores = 0 /\ loads = 0

Goto(s, label) == pc' = [pc EXCEPT ![s] = label]

(* AcquireRef takes effect with its compare_exchange *)
AcquireRef(s) ==
  /\ Set(s, ptr)
  /\ stamp' = IF ptr = None THEN stamp ELSE stamp + 1

Load(s) ==
  /\ pc[s] = "idle" /\ cb[s] = None /\ loads < MaxLoads
  /\ loads' = loads + 1
  /\ AcquireRef(s)
  /\ UNCHANGED <<global, blocks, ptr, pc, old, stores>>

(* Store(std::move(s)): the exchange, the reference of ptr_ itself, and    *)
(* the stamp of what was there; the argument is destroyed at the end       *)
StoreExchange(s) ==
  /\ pc[s] = "idle" /\ cb[s] /= None /\ stores < MaxStores
  /\ stores' = stores + 1
  /\ old' = [old EXCEPT ![s] = <<ptr, stamp>>]
  /\ ptr' = cb[s] /\ stamp' = 0
  /\ Goto(s, "increment")
  /\ UNCHANGED <<sharedVars, loads>>

StoreIncrement(s) ==
  /\ pc[s] = "increment"
  /\ IncrementRefCount(cb[s], 1)
  /\ Goto(s, IF old[s][1] = None THEN "return" ELSE "decrement")
  /\ UNCHANGED <<cb, ptr, stamp, old, stores, loads>>

StoreDecrement(s) ==
  /\ pc[s] = "decrement"
  /\ IncrementRefCount(old[s][1], -old[s][2])
  /\ Goto(s, "return")
  /\ UNCHANGED <<cb, ptr, stamp, old, stores, loads>>

StoreReturn(s) ==
  /\ pc[s] = "return"
  /\ ResetShared(s)
  /\ Goto(s, "idle")
  /\ UNCHANGED <<ptr, stamp, old, stores, loads>>

Local(s) ==
  /\ pc[s] = "idle"
  /\ MakeShared(s) \/ ResetShared(s)
  /\ UNCHANGED <<ptr, stamp, pc, old, stores, loads>>

Next ==
  \E s \in Slot :
    \/ Load(s) \/ Local(s) \/ StoreExchange(s) \/ StoreIncrement(s)
    \/ StoreDecrement(s) \/ StoreReturn(s)

Spec == Init /\ [][Next]_vars

----------------------------------------------------------------------------
(* A SharedPtr, one that Load returned included, and the AtomicSharedPtr   *)
(* refer to objects that exist (shared_ptr_test.cpp reads the value of the *)
(* object through the result of Load).                                     *)
PointersValid == {ptr} \cup {cb[s] : s \in Slot} \subseteq blocks \cup {None}
=============================================================================
