----------------------------- MODULE SharedPtr -----------------------------
(***************************************************************************)
(* common/shared_ptr.h: SharedPtr<T>.  A slot is a variable of this type.  *)
(* The two halves of a SplitCount always change together, so that one      *)
(* number stands for both; the loop of IncrementRefCount takes effect with *)
(* its successful compare_exchange.                                        *)
(***************************************************************************)
EXTENDS Threads, Integers

CONSTANTS Block, Slot

ASSUME SharedAssumption == None \notin Block

VARIABLES
  cb,             \* SharedPtr::cb_ptr_ of a slot
  global,         \* ControlBlock::global
  blocks          \* the control blocks that exist, with their objects

sharedVars == <<cb, global, blocks>>

SharedInit ==
  /\ cb = [s \in Slot |-> None]
  /\ global = [b \in Block |-> 0]
  /\ blocks = {}

Set(s, b) == cb' = [cb EXCEPT ![s] = b]

(* IncrementRefCount({d, d}): who brings the count to zero deletes the     *)
(* control block and the object                                            *)
IncrementRefCount(b, d) ==
  /\ global' = [global EXCEPT ![b] = @ + d]
  /\ blocks' = IF global[b] + d = 0 THEN blocks \ {b} ELSE blocks

(* SharedPtr s = MakeShared<T>(...) *)
MakeShared(s) ==
  /\ cb[s] = None
  /\ \E b \in Block \ blocks :
       /\ Set(s, b)
       /\ global' = [global EXCEPT ![b] = 1]
       /\ blocks' = blocks \cup {b}

(* SharedPtr s(that) *)
CopyShared(s, that) ==
  /\ cb[s] = None
  /\ Set(s, cb[that])
  /\ IF cb[that] = None THEN UNCHANGED <<global, blocks>>
                        ELSE IncrementRefCount(cb[that], 1)

(* s = that: copy, swap, and destroy the copy with what s referred to *)
AssignShared(s, that) ==
  /\ Set(s, cb[that])
  /\ IF cb[s] = cb[that]
       THEN UNCHANGED <<global, blocks>>
       ELSE /\ global' = [b \in Block |->
                            CASE b = cb[that] -> global[b] + 1
                              [] b = cb[s] -> global[b] - 1
                              [] OTHER -> global[b]]
            /\ blocks' = {b \in blocks : global'[b] /= 0}

(* s = std::move(that), or SharedPtr s(std::move(that)): a swap *)
MoveShared(s, that) ==
  /\ cb' = [cb EXCEPT ![s] = cb[that], ![that] = cb[s]]
  /\ UNCHANGED <<global, blocks>>

(* Reset, or the destructor *)
ResetShared(s) ==
  /\ cb[s] /= None
  /\ Set(s, None)
  /\ IncrementRefCount(cb[s], -1)

----------------------------------------------------------------------------
(* What the slots and the given other holders refer to exists, and nothing *)
(* else does.                                                              *)
SharedExact(others) ==
  blocks = (others \cup {cb[s] : s \in Slot}) \ {None}
=============================================================================
