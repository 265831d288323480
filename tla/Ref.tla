-------------------------------- MODULE Ref --------------------------------
(***************************************************************************)
(* common/refer: Ref<T>, an intrusive reference to an object that counts   *)
(* its references.  A slot is a variable of type Ref; each operation is an *)
(* action on slots, the counts and the set of objects that exist.          *)
(***************************************************************************)
EXTENDS Threads, Integers

CONSTANTS Object, RefSlot

ASSUME RefAssumption == None \notin Object

VARIABLES
  ref,            \* Ref::obj_ of a slot
  refCount,       \* RefCounted::ref_count_
  alive           \* the objects that exist

refVars == <<ref, refCount, alive>>

RefInit ==
  /\ ref = [s \in RefSlot |-> None]
  /\ refCount = [o \in Object |-> 0]
  /\ alive = {}

(* AddRef and ReleaseRef on a counter, for a valid reference only *)
Plus(counts, o, d) ==
  IF o = None THEN counts ELSE [counts EXCEPT ![o] = @ + d]

(* The count of gain is raised before that of loss is lowered; who reaches *)
(* zero deletes the object.                                                *)
Transfer(gain, loss) ==
  /\ refCount' = Plus(Plus(refCount, gain, 1), loss, -1)
  /\ alive' = IF loss /= None /\ refCount'[loss] = 0
                THEN alive \ {loss} ELSE alive

(* New<T>(): the object starts with a count of one, which the Ref adopts *)
New(s) ==
  /\ ref[s] = None
  /\ \E o \in Object \ alive :
       /\ ref' = [ref EXCEPT ![s] = o]
       /\ refCount' = [refCount EXCEPT ![o] = 1]
       /\ alive' = alive \cup {o}

(* Ref s(that), also Ref s(that.Get()) and RefFromThis() *)
CopyRef(s, that) ==
  /\ ref[s] = None
  /\ ref' = [ref EXCEPT ![s] = ref[that]]
  /\ Transfer(ref[that], None)

(* Ref s(std::move(that)), also Adopt(that.Release()) *)
MoveRef(s, that) ==
  /\ ref[s] = None
  /\ ref' = [ref EXCEPT ![s] = ref[that], ![that] = None]
  /\ UNCHANGED <<refCount, alive>>

(* a faulty AssignRef, for testing the properties *)
AssignReleaseFirst(s, that) ==
  /\ ref' = [ref EXCEPT ![s] = ref[that]]
  /\ refCount' = Plus(Plus(refCount, ref[s], -1), ref[that], 1)
  /\ alive' = IF ref[s] /= None /\ refCount[ref[s]] = 1
                THEN alive \ {ref[s]} ELSE alive

(* s = that: copy, swap, and destroy the copy with what s referred to *)
AssignRef(s, that) ==
  /\ ref' = [ref EXCEPT ![s] = ref[that]]
  /\ Transfer(ref[that], ref[s])

(* s = std::move(that) *)
MoveAssignRef(s, that) ==
  /\ ref' = [[ref EXCEPT ![that] = None] EXCEPT ![s] = ref[that]]
  /\ IF s = that THEN UNCHANGED <<refCount, alive>> ELSE Transfer(None, ref[s])

(* Reset, or the destructor *)
ResetRef(s) ==
  /\ ref[s] /= None
  /\ ref' = [ref EXCEPT ![s] = None]
  /\ Transfer(None, ref[s])

----------------------------------------------------------------------------
(* A valid reference is one to an existing object, and only those keep an  *)
(* object in existence.                                                    *)
RefsExact ==
  alive = {ref[s] : s \in RefSlot} \ {None}
=============================================================================
