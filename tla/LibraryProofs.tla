--------------------------- MODULE LibraryProofs ---------------------------
(***************************************************************************)
(* Proofs about the parts of the library that manage ownership: references *)
(* and shared pointers, with the barrier and the queue that hand them from *)
(* thread to thread; Results and the handles of the HTTP client; and the   *)
(* coroutines with their generators and processors.  Then the header of a  *)
(* response, as the reader takes it apart.                                 *)
(***************************************************************************)
EXTENDS SequenceFacts, Handoff, HttpClient, Coroutines, FiniteSetTheorems

----------------------------------------------------------------------------
(***************************************************************************)
(* Owners of an object are variables with its address; they are counted.   *)
(***************************************************************************)
Owners(f, S, v) == {s \in S : f[s] = v}
Count(f, S, v) == Cardinality(Owners(f, S, v))
One(v, w) == IF v = w THEN 1 ELSE 0

(* A count is a number, and zero says that there is no owner. *)
LEMMA CountType ==
  ASSUME NEW S, IsFiniteSet(S), NEW f, NEW v
  PROVE  /\ IsFiniteSet(Owners(f, S, v)) /\ Count(f, S, v) \in Nat
         /\ Count(f, S, v) = 0 <=> \A s \in S : f[s] /= v
<1>1. Owners(f, S, v) \subseteq S
  BY DEF Owners
<1>2. IsFiniteSet(Owners(f, S, v))
  BY <1>1, FS_Subset
<1>3. Count(f, S, v) \in Nat
  BY <1>2, FS_CardinalityType DEF Count
<1>4. Count(f, S, v) = 0 <=> Owners(f, S, v) = {}
  BY <1>2, FS_EmptySet DEF Count
<1>5. QED BY <1>2, <1>3, <1>4 DEF Owners

SameBut(f, g, S, x) == \A y \in S \ {x} : g[y] = f[y]

(* An assignment to x takes an owner from what x had and gives one to what *)
(* it gets.                                                                *)
LEMMA CountUpdate ==
  ASSUME NEW S, IsFiniteSet(S), NEW f, NEW g, NEW x \in S, SameBut(f, g, S, x), NEW o
  PROVE  Count(g, S, o) = Count(f, S, o) + One(o, g[x]) - One(o, f[x])
<1> DEFINE A == Owners(f, S, o)
           B == Owners(g, S, o)
<1>1. IsFiniteSet(A) /\ IsFiniteSet(B) /\ Cardinality(A) \in Nat /\ Cardinality(B) \in Nat
  BY CountType DEF Count
<1>2. CASE g[x] = o /\ f[x] = o
  <2>1. A = B
    BY <1>2 DEF Owners, SameBut
  <2>2. QED BY <1>1, <1>2, <2>1 DEF Count, One
<1>3. CASE g[x] = o /\ f[x] /= o
  <2>1. B = A \cup {x} /\ x \notin A
    BY <1>3 DEF Owners, SameBut
  <2>2. Cardinality(B) = Cardinality(A) + 1
    BY <1>1, <2>1, FS_AddElement
  <2>3. QED BY <1>1, <1>3, <2>2 DEF Count, One
<1>4. CASE g[x] /= o /\ f[x] = o
  <2>1. B = A \ {x} /\ x \in A
    BY <1>4 DEF Owners, SameBut
  <2>2. Cardinality(B) = Cardinality(A) - 1
    BY <1>1, <2>1, FS_RemoveElement
  <2>3. QED BY <1>1, <1>4, <2>2 DEF Count, One
<1>5. CASE g[x] /= o /\ f[x] /= o
  <2>1. A = B
    BY <1>5 DEF Owners, SameBut
  <2>2. QED BY <1>1, <1>5, <2>1 DEF Count, One
<1>6. QED BY <1>2, <1>3, <1>4, <1>5

(* A variable that has v is an owner of it. *)
LEMMA CountOwner ==
  ASSUME NEW S, IsFiniteSet(S), NEW f, NEW x \in S
  PROVE  Count(f, S, f[x]) \in Nat /\ Count(f, S, f[x]) >= 1
<1>1. Count(f, S, f[x]) \in Nat /\ Count(f, S, f[x]) /= 0
  BY CountType
<1>2. QED BY <1>1

----------------------------------------------------------------------------
(* The items of a buffer *)

LEMMA CountEmpty ==
  ASSUME NEW o
  PROVE  Count(<< >>, DOMAIN << >>, o) = 0
<1>1. Owners(<< >>, DOMAIN << >>, o) = {}
  BY DEF Owners
<1>2. QED BY <1>1, FS_EmptySet DEF Count

LEMMA CountAppend ==
  ASSUME NEW T, NEW q \in Seq(T), NEW v \in T, NEW o
  PROVE  Count(Append(q, v), DOMAIN Append(q, v), o)
           = Count(q, DOMAIN q, o) + One(o, v)
<1> DEFINE n == Len(q)
           A == Owners(q, DOMAIN q, o)
           B == Owners(Append(q, v), DOMAIN Append(q, v), o)
<1>1. /\ n \in Nat /\ DOMAIN q = 1..n /\ DOMAIN Append(q, v) = 1..(n + 1)
      /\ \A i \in 1..n : Append(q, v)[i] = q[i]
      /\ Append(q, v)[n + 1] = v
  OBVIOUS
<1>2. IsFiniteSet(A) /\ Cardinality(A) \in Nat
  <2>1. IsFiniteSet(DOMAIN q)
    BY <1>1, FS_Interval
  <2>2. QED BY <2>1, CountType DEF Count
<1>3. CASE v = o
  <2>1. B = A \cup {n + 1} /\ (n + 1) \notin A
    <3> HIDE DEF n
    <3>1. QED BY <1>1, <1>3 DEF Owners
  <2>2. Cardinality(B) = Cardinality(A) + 1
    BY <1>2, <2>1, FS_AddElement
  <2>3. QED BY <1>2, <1>3, <2>2 DEF Count, One
<1>4. CASE v /= o
  <2>1. B = A
    <3> HIDE DEF n
    <3>1. QED BY <1>1, <1>4 DEF Owners
  <2>2. QED BY <1>2, <1>4, <2>1 DEF Count, One
<1>5. QED BY <1>3, <1>4

LEMMA CountTail ==
  ASSUME NEW T, NEW q \in Seq(T), q /= << >>, NEW o
  PROVE  Count(Tail(q), DOMAIN Tail(q), o)
           = Count(q, DOMAIN q, o) - One(o, Head(q))
<1> DEFINE n == Len(q)
           A == Owners(q, DOMAIN q, o)
           B == Owners(Tail(q), DOMAIN Tail(q), o)
           C == A \ {1}
           f == [i \in B |-> i + 1]
<1>1. /\ n \in Nat \ {0} /\ DOMAIN q = 1..n /\ DOMAIN Tail(q) = 1..(n - 1)
      /\ \A i \in 1..(n - 1) : Tail(q)[i] = q[i + 1]
      /\ Head(q) = q[1]
  OBVIOUS
<1>2. IsFiniteSet(A) /\ IsFiniteSet(B) /\ Cardinality(A) \in Nat
  <2>1. IsFiniteSet(DOMAIN q) /\ IsFiniteSet(DOMAIN Tail(q))
    BY <1>1, FS_Interval
  <2>2. QED BY <2>1, CountType DEF Count
<1>3. Cardinality(C) = Cardinality(B)
  <2> HIDE DEF n
  <2>1. f \in [B -> C]
    BY <1>1 DEF Owners
  <2>2. \A i, j \in B : f[i] = f[j] => i = j
    BY <1>1 DEF Owners
  <2>3. \A k \in C : \E i \in B : f[i] = k
    <3>1. SUFFICES ASSUME NEW k \in C PROVE \E i \in B : f[i] = k
      OBVIOUS
    <3>2. k \in 2..n /\ q[k] = o /\ k - 1 \in 1..(n - 1) /\ (k - 1) + 1 = k
      BY <1>1 DEF Owners
    <3>3. k - 1 \in B
      BY <1>1, <3>2 DEF Owners
    <3>4. QED BY <3>2, <3>3
  <2>4. f \in Bijection(B, C)
    BY <2>1, <2>2, <2>3 DEF Bijection, Injection, Surjection, IsInjective
  <2>5. ExistsBijection(B, C)
    BY <2>4 DEF ExistsBijection
  <2>6. QED BY <1>2, <2>5, FS_Bijection
<1>4. CASE Head(q) = o
  <2>1. 1 \in A
    BY <1>1, <1>4 DEF Owners
  <2>2. Cardinality(C) = Cardinality(A) - 1
    BY <1>2, <2>1, FS_RemoveElement
  <2>3. QED BY <1>2, <1>3, <1>4, <2>2 DEF Count, One
<1>5. CASE Head(q) /= o
  <2>1. C = A
    BY <1>1, <1>5 DEF Owners
  <2>2. One(o, Head(q)) = 0
    BY <1>5 DEF One
  <2>3. Cardinality(B) = Cardinality(A) - 0
    <3> HIDE DEF A, B, C
    <3>1. QED BY <1>2, <1>3, <2>1
  <2>4. QED BY <2>2, <2>3 DEF Count
<1>6. QED BY <1>4, <1>5

----------------------------------------------------------------------------
(***************************************************************************)
(* References.  The count of an object is the number of Refs that have its *)
(* address, and the objects that exist are those with a count above zero.  *)
(***************************************************************************)
RefCountInv ==
  /\ ref \in [RefSlot -> Object \cup {None}]
  /\ refCount = [o \in Object |-> Count(ref, RefSlot, o)]
  /\ alive = {o \in Object : refCount[o] /= 0}

LEMMA RefCountGivesExact ==
  ASSUME RefCountInv
  PROVE  RefsExact
<1>1. \A o \in Object : o \in alive <=> \E s \in RefSlot : ref[s] = o
  BY CountType, HandoffAssumption DEF RefCountInv
<1>2. \A s \in RefSlot : ref[s] \in Object \cup {None}
  BY DEF RefCountInv
<1>3. alive \subseteq Object
  BY DEF RefCountInv
<1>4. QED BY <1>1, <1>2, <1>3, RefAssumption DEF RefsExact

(* Transfer does for the counts what the operations do to the Refs. *)
LEMMA TransferStep ==
  ASSUME RefCountInv, NEW gain \in Object \cup {None}, NEW loss \in Object \cup {None},
         gain /= None => gain \in alive,
         ref' \in [RefSlot -> Object \cup {None}],
         \A o \in Object : Count(ref', RefSlot, o)
                             = Count(ref, RefSlot, o) + One(o, gain) - One(o, loss),
         Transfer(gain, loss)
  PROVE  RefCountInv'
<1>1. \A o \in Object : /\ Count(ref, RefSlot, o) \in Nat
                        /\ Count(ref', RefSlot, o) \in Nat
                        /\ refCount[o] = Count(ref, RefSlot, o)
  BY CountType, HandoffAssumption DEF RefCountInv
<1>2. /\ refCount' \in [Object -> Int]
      /\ \A o \in Object : refCount'[o] = refCount[o] + One(o, gain) - One(o, loss)
  <2>1. refCount \in [Object -> Int]
    BY <1>1 DEF RefCountInv
  <2> DEFINE a == Plus(refCount, gain, 1)
  <2>2. a \in [Object -> Int] /\ \A o \in Object : a[o] = refCount[o] + One(o, gain)
    BY <2>1, RefAssumption DEF Plus, One
  <2>3. refCount' = Plus(a, loss, -1)
    BY DEF Transfer
  <2> HIDE DEF a
  <2>4. QED BY <2>1, <2>2, <2>3, RefAssumption DEF Plus, One
<1>3. \A o \in Object : refCount'[o] = Count(ref', RefSlot, o)
  BY <1>1, <1>2
<1>4. alive' = {o \in Object : refCount'[o] /= 0}
  <2>1. \A o \in Object : o \in alive <=> refCount[o] /= 0
    BY DEF RefCountInv
  <2>2. alive \subseteq Object
    BY DEF RefCountInv
  <2>3. \A o \in Object : refCount'[o] \in Nat /\ refCount[o] \in Nat
    BY <1>1, <1>3
  <2>4. \A o \in Object : o /= loss => (o \in alive' <=> refCount'[o] /= 0)
    <3>1. SUFFICES ASSUME NEW o \in Object, o /= loss
                   PROVE  o \in alive' <=> refCount'[o] /= 0
      OBVIOUS
    <3>2. o \in alive' <=> o \in alive
      BY <3>1 DEF Transfer
    <3>3. CASE o = gain
      BY <1>2, <2>1, <2>3, <3>1, <3>2, <3>3, RefAssumption DEF One
    <3>4. CASE o /= gain
      BY <1>2, <2>1, <2>3, <3>1, <3>2, <3>4 DEF One
    <3>5. QED BY <3>3, <3>4
  <2>5. loss /= None => (loss \in alive' <=> refCount'[loss] /= 0)
    <3>1. SUFFICES ASSUME loss /= None
                   PROVE  loss \in alive' <=> refCount'[loss] /= 0
      OBVIOUS
    <3>2. refCount'[loss] = 0 => loss \notin alive'
      BY <3>1 DEF Transfer
    <3>3. refCount'[loss] /= 0 => loss \in alive
      BY <1>2, <2>1, <2>3, <3>1, RefAssumption DEF One
    <3>4. QED BY <3>1, <3>2, <3>3 DEF Transfer
  <2>6. alive' \subseteq Object
    BY <2>2 DEF Transfer
  <2>7. QED BY <2>4, <2>5, <2>6, RefAssumption
<1>5. refCount' = [o \in Object |-> Count(ref', RefSlot, o)]
  BY <1>2, <1>3
<1>6. QED BY <1>4, <1>5 DEF RefCountInv

Assigned(f, g, s, v) == g = [f EXCEPT ![s] = v]

(* one assignment to a Ref *)
LEMMA RefSet ==
  ASSUME RefCountInv, NEW s \in RefSlot, NEW v \in Object \cup {None},
         NEW g, Assigned(ref, g, s, v)
  PROVE  /\ g \in [RefSlot -> Object \cup {None}]
         /\ \A o \in Object : Count(g, RefSlot, o)
              = Count(ref, RefSlot, o) + One(o, v) - One(o, ref[s])
<1>1. ref \in [RefSlot -> Object \cup {None}]
  BY DEF RefCountInv
<1>2. ASSUME NEW o \in Object
      PROVE  Count(g, RefSlot, o) = Count(ref, RefSlot, o) + One(o, v) - One(o, ref[s])
  <2>1. IsFiniteSet(RefSlot) /\ SameBut(ref, g, RefSlot, s) /\ g[s] = v
    BY <1>1, HandoffAssumption DEF SameBut, Assigned
  <2>2. QED BY <2>1, CountUpdate
<1>3. QED BY <1>1, <1>2 DEF Assigned

(* what a Ref refers to exists *)
LEMMA RefAlive ==
  ASSUME RefCountInv, NEW s \in RefSlot
  PROVE  ref[s] \in Object \cup {None} /\ (ref[s] /= None => ref[s] \in alive)
<1>1. ref[s] \in Object \cup {None}
  BY DEF RefCountInv
<1>2. Count(ref, RefSlot, ref[s]) \in Nat /\ Count(ref, RefSlot, ref[s]) >= 1
  BY CountOwner, HandoffAssumption
<1>3. QED BY <1>1, <1>2 DEF RefCountInv

LEMMA NewStep ==
  ASSUME RefCountInv, NEW s \in RefSlot, New(s)
  PROVE  RefCountInv'
<1>1. PICK n \in Object \ alive : /\ ref' = [ref EXCEPT ![s] = n]
                                  /\ refCount' = [refCount EXCEPT ![n] = 1]
                                  /\ alive' = alive \cup {n}
  BY DEF New
<1>2. ref[s] = None
  BY DEF New
<1>3. /\ ref' \in [RefSlot -> Object \cup {None}]
      /\ \A o \in Object : Count(ref', RefSlot, o)
           = Count(ref, RefSlot, o) + One(o, n) - One(o, ref[s])
  BY <1>1, RefSet DEF Assigned
<1>4. \A o \in Object : refCount[o] = Count(ref, RefSlot, o) /\ Count(ref, RefSlot, o) \in Nat
  BY CountType, HandoffAssumption DEF RefCountInv
<1>5. refCount[n] = 0
  BY <1>1 DEF RefCountInv
<1>6. ASSUME NEW o \in Object
      PROVE  refCount'[o] = Count(ref', RefSlot, o)
  <2>1. One(o, ref[s]) = 0 /\ One(o, n) = IF o = n THEN 1 ELSE 0
    BY <1>2, RefAssumption DEF One
  <2>2. refCount'[o] = IF o = n THEN 1 ELSE refCount[o]
    BY <1>1 DEF RefCountInv
  <2>3. Count(ref', RefSlot, o) = refCount[o] + One(o, n)
    BY <1>3, <1>4, <2>1
  <2>4. refCount[o] \in Nat
    BY <1>4
  <2>5. QED BY <1>5, <2>1, <2>2, <2>3, <2>4
<1>7. refCount' = [o \in Object |-> Count(ref', RefSlot, o)]
  BY <1>1, <1>6 DEF RefCountInv
<1>8. alive' = {o \in Object : refCount'[o] /= 0}
  BY <1>1, <1>5 DEF RefCountInv
<1>9. QED BY <1>3, <1>7, <1>8 DEF RefCountInv

LEMMA CopyRefStep ==
  ASSUME RefCountInv, NEW s \in RefSlot, NEW that \in RefSlot, CopyRef(s, that)
  PROVE  RefCountInv'
<1> DEFINE gain == ref[that]
<1>1. gain \in Object \cup {None} /\ (gain /= None => gain \in alive)
  BY RefAlive
<1>2. ref' = [ref EXCEPT ![s] = gain] /\ ref[s] = None /\ Transfer(gain, None)
  BY DEF CopyRef
<1> HIDE DEF gain
<1>3. /\ ref' \in [RefSlot -> Object \cup {None}]
      /\ \A o \in Object : Count(ref', RefSlot, o)
           = Count(ref, RefSlot, o) + One(o, gain) - One(o, None)
  BY <1>1, <1>2, RefSet DEF Assigned
<1>4. QED BY <1>1, <1>2, <1>3, TransferStep

LEMMA AssignRefStep ==
  ASSUME RefCountInv, NEW s \in RefSlot, NEW that \in RefSlot, AssignRef(s, that)
  PROVE  RefCountInv'
<1> DEFINE gain == ref[that]
           loss == ref[s]
<1>1. /\ gain \in Object \cup {None} /\ (gain /= None => gain \in alive)
      /\ loss \in Object \cup {None}
  BY RefAlive
<1>2. ref' = [ref EXCEPT ![s] = gain] /\ Transfer(gain, loss)
  BY DEF AssignRef
<1>3. /\ ref' \in [RefSlot -> Object \cup {None}]
      /\ \A o \in Object : Count(ref', RefSlot, o)
           = Count(ref, RefSlot, o) + One(o, gain) - One(o, loss)
  <2> HIDE DEF gain
  <2>1. QED BY <1>1, <1>2, RefSet DEF Assigned
<1> HIDE DEF gain, loss
<1>4. QED BY <1>1, <1>2, <1>3, TransferStep

LEMMA ResetRefStep ==
  ASSUME RefCountInv, NEW s \in RefSlot, ResetRef(s)
  PROVE  RefCountInv'
<1> DEFINE loss == ref[s]
<1>1. loss \in Object \cup {None}
  BY RefAlive
<1>2. ref' = [ref EXCEPT ![s] = None] /\ Transfer(None, loss)
  BY DEF ResetRef
<1>3. /\ ref' \in [RefSlot -> Object \cup {None}]
      /\ \A o \in Object : Count(ref', RefSlot, o)
           = Count(ref, RefSlot, o) + One(o, None) - One(o, loss)
  BY <1>2, RefSet DEF Assigned
<1> HIDE DEF loss
<1>4. QED BY <1>1, <1>2, <1>3, TransferStep

(* two assignments that move the content of that to s *)
LEMMA RefMoved ==
  ASSUME RefCountInv, NEW s \in RefSlot, NEW that \in RefSlot, s /= that,
         NEW v, v = ref[that], NEW g, NEW h,
         Assigned(ref, g, s, v), Assigned(g, h, that, None)
  PROVE  /\ h \in [RefSlot -> Object \cup {None}]
         /\ \A o \in Object : Count(h, RefSlot, o)
              = Count(ref, RefSlot, o) + One(o, None) - One(o, ref[s])
<1>1. ref \in [RefSlot -> Object \cup {None}] /\ v \in Object \cup {None}
  BY DEF RefCountInv
<1>2. /\ g \in [RefSlot -> Object \cup {None}]
      /\ \A o \in Object : Count(g, RefSlot, o)
           = Count(ref, RefSlot, o) + One(o, v) - One(o, ref[s])
  BY <1>1, RefSet
<1>3. /\ h \in [RefSlot -> Object \cup {None}] /\ g[that] = v
      /\ SameBut(g, h, RefSlot, that) /\ h[that] = None
  BY <1>1, <1>2 DEF Assigned, SameBut
<1>4. ASSUME NEW o \in Object
      PROVE  Count(h, RefSlot, o) = Count(g, RefSlot, o) + One(o, None) - One(o, v)
  BY <1>3, CountUpdate, HandoffAssumption
<1>5. \A o \in Object : /\ One(o, v) \in Int /\ One(o, None) \in Int
                        /\ One(o, ref[s]) \in Int
                        /\ Count(ref, RefSlot, o) \in Int
  BY CountType, HandoffAssumption DEF One
<1>6. ASSUME NEW o \in Object
      PROVE  Count(h, RefSlot, o) = Count(ref, RefSlot, o) + One(o, None) - One(o, ref[s])
  <2>1. Count(g, RefSlot, o) = Count(ref, RefSlot, o) + One(o, v) - One(o, ref[s])
    BY <1>2
  <2>2. QED BY <1>4, <1>5, <2>1
<1>7. QED BY <1>3, <1>6

LEMMA MoveAssignRefStep ==
  ASSUME RefCountInv, NEW s \in RefSlot, NEW that \in RefSlot, MoveAssignRef(s, that)
  PROVE  RefCountInv'
<1>0. ref \in [RefSlot -> Object \cup {None}]
  BY DEF RefCountInv
<1>1. CASE s = that
  <2>1. ref' = ref /\ UNCHANGED <<refCount, alive>>
    BY <1>0, <1>1 DEF MoveAssignRef
  <2>2. QED BY <2>1 DEF RefCountInv
<1>2. CASE s /= that
  <2>1. ref' = [ref EXCEPT ![s] = ref[that], ![that] = None] /\ Transfer(None, ref[s])
    BY <1>0, <1>2 DEF MoveAssignRef
  <2> DEFINE loss == ref[s]
  <2>2. /\ ref' \in [RefSlot -> Object \cup {None}] /\ loss \in Object \cup {None}
        /\ \A o \in Object : Count(ref', RefSlot, o)
             = Count(ref, RefSlot, o) + One(o, None) - One(o, loss)
    <3>1. PICK v, g : v = ref[that] /\ Assigned(ref, g, s, v)
      BY DEF Assigned
    <3>2. Assigned(g, ref', that, None)
      BY <1>0, <2>1, <3>1 DEF Assigned
    <3>3. QED BY <1>0, <1>2, <3>1, <3>2, RefMoved
  <2>3. Transfer(None, loss)
    BY <2>1
  <2> HIDE DEF loss
  <2>4. QED BY <2>2, <2>3, TransferStep
<1>3. QED BY <1>1, <1>2

LEMMA MoveRefStep ==
  ASSUME RefCountInv, NEW s \in RefSlot, NEW that \in RefSlot, MoveRef(s, that)
  PROVE  RefCountInv'
<1>0. ref \in [RefSlot -> Object \cup {None}] /\ ref[s] = None
  BY DEF RefCountInv, MoveRef
<1>1. UNCHANGED <<refCount, alive>>
  BY DEF MoveRef
<1>2. CASE s = that
  <2>1. ref' = ref
    BY <1>0, <1>2 DEF MoveRef
  <2>2. QED BY <1>1, <2>1 DEF RefCountInv
<1>3. CASE s /= that
  <2>1. ref' = [ref EXCEPT ![s] = ref[that], ![that] = None]
    BY DEF MoveRef
  <2>2. /\ ref' \in [RefSlot -> Object \cup {None}]
        /\ \A o \in Object : Count(ref', RefSlot, o)
             = Count(ref, RefSlot, o) + One(o, None) - One(o, ref[s])
    <3>1. PICK v, g : v = ref[that] /\ Assigned(ref, g, s, v)
      BY DEF Assigned
    <3>2. Assigned(g, ref', that, None)
      BY <1>0, <2>1, <3>1 DEF Assigned
    <3>3. QED BY <1>3, <3>1, <3>2, RefMoved
  <2>3. \A o \in Object : Count(ref', RefSlot, o) = Count(ref, RefSlot, o)
    BY <1>0, <2>2, CountType, HandoffAssumption DEF One
  <2>4. QED BY <1>1, <2>2, <2>3 DEF RefCountInv
<1>4. QED BY <1>2, <1>3

----------------------------------------------------------------------------
(***************************************************************************)
(* Shared pointers.  The count of a control block is the number of         *)
(* SharedPtrs with its address, in the variables of the threads and in the *)
(* buffer of the queue.                                                    *)
(***************************************************************************)
Total(c, q, b) == Count(c, Slot, b) + Count(q, DOMAIN q, b)

SharedCountInv ==
  /\ cb \in [Slot -> Block \cup {None}] /\ buffer \in Seq(Block)
  /\ global = [b \in Block |-> Total(cb, buffer, b)]
  /\ blocks = {b \in Block : global[b] /= 0}

LEMMA TotalType ==
  ASSUME NEW c, NEW q \in Seq(Block), NEW b
  PROVE  /\ Count(c, Slot, b) \in Nat /\ Count(q, DOMAIN q, b) \in Nat
         /\ Total(c, q, b) \in Nat
         /\ Total(c, q, b) = 0 <=> /\ \A s \in Slot : c[s] /= b
                                   /\ \A i \in DOMAIN q : q[i] /= b
<1>1. IsFiniteSet(DOMAIN q)
  <2>1. DOMAIN q = 1..Len(q) /\ Len(q) \in Nat
    OBVIOUS
  <2>2. QED BY <2>1, FS_Interval
<1>2. /\ Count(c, Slot, b) \in Nat /\ (Count(c, Slot, b) = 0 <=> \A s \in Slot : c[s] /= b)
      /\ Count(q, DOMAIN q, b) \in Nat
      /\ (Count(q, DOMAIN q, b) = 0 <=> \A i \in DOMAIN q : q[i] /= b)
  BY <1>1, CountType, HandoffAssumption
<1>3. QED BY <1>2 DEF Total

LEMMA SharedCountGivesExact ==
  ASSUME SharedCountInv
  PROVE  SharedExact(ToSet(buffer))
<1>1. \A b \in Block : b \in blocks <=> \/ \E s \in Slot : cb[s] = b
                                        \/ \E i \in DOMAIN buffer : buffer[i] = b
  <2>1. buffer \in Seq(Block)
    BY DEF SharedCountInv
  <2>2. \A b : Total(cb, buffer, b) = 0 <=> /\ \A s \in Slot : cb[s] /= b
                                            /\ \A i \in DOMAIN buffer : buffer[i] /= b
    BY <2>1, TotalType
  <2>3. \A b \in Block : b \in blocks <=> Total(cb, buffer, b) /= 0
    BY DEF SharedCountInv
  <2>4. QED BY <2>2, <2>3
<1>2. \A s \in Slot : cb[s] \in Block \cup {None}
  BY DEF SharedCountInv
<1>3. ToSet(buffer) = {buffer[i] : i \in DOMAIN buffer} /\ ToSet(buffer) \subseteq Block
  BY DEF SharedCountInv, ToSet
<1>4. blocks \subseteq Block
  BY DEF SharedCountInv
<1>5. QED BY <1>1, <1>2, <1>3, <1>4, SharedAssumption DEF SharedExact

(* Counts that change as the owners do, a block that appears with its      *)
(* first owner and blocks that disappear with their last                   *)
LEMMA SharedChange ==
  ASSUME SharedCountInv, NEW gain, NEW loss,
         cb' \in [Slot -> Block \cup {None}], buffer' \in Seq(Block),
         \A b \in Block : Total(cb', buffer', b)
                            = Total(cb, buffer, b) + One(b, gain) - One(b, loss),
         global' \in [Block -> Int],
         \A b \in Block : global'[b] = global[b] + One(b, gain) - One(b, loss),
         \A b \in Block : b \in blocks' <=> (b \in blocks \/ b = gain) /\ global'[b] /= 0,
         blocks' \subseteq Block
  PROVE  SharedCountInv'
<1>1. \A b \in Block : global[b] = Total(cb, buffer, b)
  BY DEF SharedCountInv
<1>2. \A b \in Block : global'[b] = Total(cb', buffer', b)
  BY <1>1
<1>3. global' = [b \in Block |-> Total(cb', buffer', b)]
  BY <1>2
<1>4. \A b \in Block : b \in blocks' <=> global'[b] /= 0
  <2>1. SUFFICES ASSUME NEW b \in Block, b \notin blocks, b /= gain
                 PROVE  global'[b] = 0
    OBVIOUS
  <2>2. global[b] = 0 /\ One(b, gain) = 0
    BY <2>1 DEF SharedCountInv, One
  <2>3. global'[b] \in Nat
    BY <1>2, TotalType
  <2>4. One(b, loss) \in {0, 1}
    BY DEF One
  <2>5. QED BY <2>2, <2>3, <2>4
<1>5. QED BY <1>3, <1>4 DEF SharedCountInv

(* one assignment to a SharedPtr *)
LEMMA SharedSet ==
  ASSUME SharedCountInv, NEW s \in Slot, NEW v \in Block \cup {None},
         NEW g, Assigned(cb, g, s, v)
  PROVE  /\ g \in [Slot -> Block \cup {None}]
         /\ \A b \in Block : Count(g, Slot, b)
              = Count(cb, Slot, b) + One(b, v) - One(b, cb[s])
<1>1. cb \in [Slot -> Block \cup {None}]
  BY DEF SharedCountInv
<1>2. IsFiniteSet(Slot) /\ SameBut(cb, g, Slot, s) /\ g[s] = v
  BY <1>1, HandoffAssumption DEF SameBut, Assigned
<1>3. \A b \in Block : Count(g, Slot, b) = Count(cb, Slot, b) + One(b, v) - One(b, cb[s])
  BY <1>2, CountUpdate
<1>4. QED BY <1>1, <1>3 DEF Assigned

(* what a SharedPtr refers to exists and is counted *)
LEMMA SharedAlive ==
  ASSUME SharedCountInv, NEW s \in Slot
  PROVE  /\ cb[s] \in Block \cup {None}
         /\ cb[s] /= None => cb[s] \in blocks /\ global[cb[s]] \in Nat /\ global[cb[s]] >= 1
<1>1. cb[s] \in Block \cup {None}
  BY DEF SharedCountInv
<1>2. Total(cb, buffer, cb[s]) \in Nat /\ Total(cb, buffer, cb[s]) /= 0
  BY TotalType DEF SharedCountInv
<1>3. QED BY <1>1, <1>2 DEF SharedCountInv

(* one SharedPtr gets v, the buffer stays *)
LEMMA SharedSetTotal ==
  ASSUME SharedCountInv, NEW s \in Slot, NEW v \in Block \cup {None},
         Assigned(cb, cb', s, v), buffer' = buffer
  PROVE  /\ cb' \in [Slot -> Block \cup {None}] /\ buffer' \in Seq(Block)
         /\ \A b \in Block : Total(cb', buffer', b)
              = Total(cb, buffer, b) + One(b, v) - One(b, cb[s])
<1>1. /\ cb' \in [Slot -> Block \cup {None}]
      /\ \A b \in Block : Count(cb', Slot, b)
           = Count(cb, Slot, b) + One(b, v) - One(b, cb[s])
  BY SharedSet
<1>2. buffer \in Seq(Block)
  BY DEF SharedCountInv
<1>3. ASSUME NEW b \in Block
      PROVE  Total(cb', buffer', b) = Total(cb, buffer, b) + One(b, v) - One(b, cb[s])
  <2>0. One(b, v) \in Int /\ One(b, cb[s]) \in Int
    BY DEF One
  <2>1. /\ Count(cb, Slot, b) \in Nat /\ Count(buffer, DOMAIN buffer, b) \in Nat
        /\ One(b, v) \in Int /\ One(b, cb[s]) \in Int
    BY <1>2, <2>0, TotalType
  <2>2. Count(cb', Slot, b) = Count(cb, Slot, b) + One(b, v) - One(b, cb[s])
    BY <1>1
  <2>3. QED BY <2>1, <2>2 DEF Total
<1>4. QED BY <1>1, <1>2, <1>3

LEMMA MakeSharedStep ==
  ASSUME SharedCountInv, NEW s \in Slot, MakeShared(s), buffer' = buffer
  PROVE  SharedCountInv'
<1>1. PICK n \in Block \ blocks : /\ cb' = [cb EXCEPT ![s] = n]
                                  /\ global' = [global EXCEPT ![n] = 1]
                                  /\ blocks' = blocks \cup {n}
  BY DEF MakeShared, Set
<1>2. cb[s] = None
  BY DEF MakeShared
<1>3. Assigned(cb, cb', s, n)
  BY <1>1 DEF Assigned
<1>4. /\ cb' \in [Slot -> Block \cup {None}] /\ buffer' \in Seq(Block)
      /\ \A b \in Block : Total(cb', buffer', b)
           = Total(cb, buffer, b) + One(b, n) - One(b, None)
  BY <1>1, <1>2, <1>3, SharedSetTotal
<1>5. global \in [Block -> Nat] /\ global[n] = 0
  <2>1. buffer \in Seq(Block)
    BY DEF SharedCountInv
  <2>2. \A b \in Block : Total(cb, buffer, b) \in Nat
    BY <2>1, TotalType
  <2>3. QED BY <1>1, <2>2 DEF SharedCountInv
<1>6. /\ global' \in [Block -> Int]
      /\ \A b \in Block : global'[b] = global[b] + One(b, n) - One(b, None)
  BY <1>1, <1>5, SharedAssumption DEF One
<1>7. \A b \in Block : b \in blocks <=> global[b] /= 0
  BY DEF SharedCountInv
<1>8. /\ blocks' \subseteq Block
      /\ \A b \in Block : b \in blocks' <=> (b \in blocks \/ b = n) /\ global'[b] /= 0
  BY <1>1, <1>5, <1>7 DEF SharedCountInv
<1>9. QED BY <1>4, <1>6, <1>8, SharedChange

(* IncrementRefCount({-1, -1}) of the block of a SharedPtr that is cleared *)
LEMMA ResetSharedStep ==
  ASSUME SharedCountInv, NEW s \in Slot, ResetShared(s), buffer' = buffer
  PROVE  SharedCountInv'
<1>1. PICK b0 : b0 = cb[s]
  OBVIOUS
<1>2. /\ b0 \in Block /\ Assigned(cb, cb', s, None)
      /\ global' = [global EXCEPT ![b0] = @ - 1]
      /\ blocks' = IF global[b0] - 1 = 0 THEN blocks \ {b0} ELSE blocks
  BY <1>1, SharedAlive DEF ResetShared, IncrementRefCount, Set, Assigned
<1>3. /\ cb' \in [Slot -> Block \cup {None}] /\ buffer' \in Seq(Block)
      /\ \A b \in Block : Total(cb', buffer', b)
           = Total(cb, buffer, b) + One(b, None) - One(b, b0)
  BY <1>1, <1>2, SharedSetTotal
<1>4. global \in [Block -> Nat]
  <2>1. buffer \in Seq(Block)
    BY DEF SharedCountInv
  <2>2. \A b \in Block : Total(cb, buffer, b) \in Nat
    BY <2>1, TotalType
  <2>3. QED BY <2>2 DEF SharedCountInv
<1>5. /\ global' \in [Block -> Int]
      /\ \A b \in Block : global'[b] = global[b] + One(b, None) - One(b, b0)
  BY <1>2, <1>4, SharedAssumption DEF One
<1>6. blocks \subseteq Block /\ \A b \in Block : b \in blocks <=> global[b] /= 0
  BY DEF SharedCountInv
<1>7. /\ blocks' \subseteq Block
      /\ \A b \in Block : b \in blocks' <=> (b \in blocks \/ b = None) /\ global'[b] /= 0
  <2>1. b0 \in blocks
    BY <1>1, <1>2, SharedAlive, SharedAssumption
  <2>2. global[b0] \in Nat /\ global'[b0] = global[b0] - 1
    BY <1>2, <1>4
  <2>3. \A b \in Block \ {b0} : global'[b] = global[b]
    BY <1>2, <1>4
  <2>4. QED BY <1>2, <1>6, <2>1, <2>2, <2>3, SharedAssumption
<1>8. QED BY <1>3, <1>5, <1>7, SharedChange

LEMMA CopySharedStep ==
  ASSUME SharedCountInv, NEW s \in Slot, NEW that \in Slot, CopyShared(s, that),
         cb[that] /= None, buffer' = buffer
  PROVE  SharedCountInv'
<1>1. PICK b0 : b0 = cb[that]
  OBVIOUS
<1>2. /\ b0 \in Block /\ Assigned(cb, cb', s, b0) /\ cb[s] = None
      /\ b0 \in blocks /\ global[b0] \in Nat /\ global[b0] >= 1
      /\ global' = [global EXCEPT ![b0] = @ + 1]
      /\ blocks' = IF global[b0] + 1 = 0 THEN blocks \ {b0} ELSE blocks
  BY <1>1, SharedAlive DEF CopyShared, IncrementRefCount, Set, Assigned
<1>3. /\ cb' \in [Slot -> Block \cup {None}] /\ buffer' \in Seq(Block)
      /\ \A b \in Block : Total(cb', buffer', b)
           = Total(cb, buffer, b) + One(b, b0) - One(b, None)
  BY <1>2, SharedSetTotal
<1>4. global \in [Block -> Nat]
  <2>1. buffer \in Seq(Block)
    BY DEF SharedCountInv
  <2>2. \A b \in Block : Total(cb, buffer, b) \in Nat
    BY <2>1, TotalType
  <2>3. QED BY <2>2 DEF SharedCountInv
<1>5. /\ global' \in [Block -> Int]
      /\ \A b \in Block : global'[b] = global[b] + One(b, b0) - One(b, None)
  BY <1>2, <1>4, SharedAssumption DEF One
<1>6. blocks \subseteq Block /\ \A b \in Block : b \in blocks <=> global[b] /= 0
  BY DEF SharedCountInv
<1>7. /\ blocks' \subseteq Block
      /\ \A b \in Block : b \in blocks' <=> (b \in blocks \/ b = b0) /\ global'[b] /= 0
  BY <1>2, <1>4, <1>6
<1>8. QED BY <1>3, <1>5, <1>7, SharedChange

LEMMA AssignSharedStep ==
  ASSUME SharedCountInv, NEW s \in Slot, NEW that \in Slot, AssignShared(s, that),
         cb[that] /= None, buffer' = buffer
  PROVE  SharedCountInv'
<1>1. PICK gain, loss : gain = cb[that] /\ loss = cb[s]
  OBVIOUS
<1>2. /\ gain \in Block /\ Assigned(cb, cb', s, gain)
      /\ gain \in blocks /\ loss \in Block \cup {None}
  BY <1>1, SharedAlive DEF AssignShared, Set, Assigned
<1>3. /\ cb' \in [Slot -> Block \cup {None}] /\ buffer' \in Seq(Block)
      /\ \A b \in Block : Total(cb', buffer', b)
           = Total(cb, buffer, b) + One(b, gain) - One(b, loss)
  BY <1>1, <1>2, SharedSetTotal
<1>4. global \in [Block -> Nat]
  <2>1. buffer \in Seq(Block)
    BY DEF SharedCountInv
  <2>2. \A b \in Block : Total(cb, buffer, b) \in Nat
    BY <2>1, TotalType
  <2>3. QED BY <2>2 DEF SharedCountInv
<1>5. blocks \subseteq Block /\ \A b \in Block : b \in blocks <=> global[b] /= 0
  BY DEF SharedCountInv
<1>6. CASE gain = loss
  <2>1. UNCHANGED <<global, blocks>>
    BY <1>1, <1>6 DEF AssignShared
  <2>2. \A b \in Block : global'[b] = global[b] + One(b, gain) - One(b, loss)
    BY <1>4, <1>6, <2>1 DEF One
  <2>3. \A b \in Block : b \in blocks' <=> (b \in blocks \/ b = gain) /\ global'[b] /= 0
    BY <1>2, <1>5, <2>1
  <2>4. global' \in [Block -> Int] /\ blocks' \subseteq Block
    BY <1>4, <1>5, <2>1
  <2>5. QED BY <1>3, <2>2, <2>3, <2>4, SharedChange
<1>7. CASE gain /= loss
  <2>1. /\ global' = [b \in Block |-> CASE b = gain -> global[b] + 1
                                        [] b = loss -> global[b] - 1
                                        [] OTHER -> global[b]]
        /\ blocks' = {b \in blocks : global'[b] /= 0}
    BY <1>1, <1>7 DEF AssignShared
  <2>2. \A b \in Block : /\ global'[b] \in Int
                         /\ global'[b] = global[b] + One(b, gain) - One(b, loss)
    BY <1>4, <1>7, <2>1 DEF One
  <2>3. \A b \in Block : b \in blocks' <=> (b \in blocks \/ b = gain) /\ global'[b] /= 0
    BY <1>2, <1>5, <2>1
  <2>4. global' \in [Block -> Int] /\ blocks' \subseteq Block
    BY <1>5, <2>1, <2>2
  <2>5. QED BY <1>3, <2>2, <2>3, <2>4, SharedChange
<1>8. QED BY <1>6, <1>7

(* a swap gives nobody a reference *)
LEMMA MoveSharedStep ==
  ASSUME SharedCountInv, NEW s \in Slot, NEW that \in Slot, s /= that,
         MoveShared(s, that), buffer' = buffer
  PROVE  SharedCountInv'
<1>1. PICK v, w : v = cb[that] /\ w = cb[s]
  OBVIOUS
<1>2. PICK g : Assigned(cb, g, s, v)
  BY DEF Assigned
<1>3. cb \in [Slot -> Block \cup {None}] /\ v \in Block \cup {None} /\ w \in Block \cup {None}
  BY <1>1 DEF SharedCountInv
<1>4. /\ g \in [Slot -> Block \cup {None}]
      /\ \A b \in Block : Count(g, Slot, b) = Count(cb, Slot, b) + One(b, v) - One(b, w)
  BY <1>1, <1>2, <1>3, SharedSet
<1>5. /\ cb' \in [Slot -> Block \cup {None}] /\ cb'[that] = w /\ g[that] = v
      /\ SameBut(g, cb', Slot, that)
  <2>1. cb' = [g EXCEPT ![that] = w]
    BY <1>1, <1>2, <1>3 DEF MoveShared, Assigned
  <2>2. g[that] = v
    BY <1>1, <1>2, <1>3 DEF Assigned
  <2>3. QED BY <1>3, <1>4, <2>1, <2>2 DEF SameBut
<1>6. \A b \in Block : Count(cb', Slot, b) = Count(g, Slot, b) + One(b, w) - One(b, v)
  BY <1>5, CountUpdate, HandoffAssumption
<1>7. \A b \in Block : One(b, v) \in Int /\ One(b, w) \in Int /\ Count(cb, Slot, b) \in Int
  BY CountType, HandoffAssumption DEF One
<1>8. ASSUME NEW b \in Block
      PROVE  Count(cb', Slot, b) = Count(cb, Slot, b)
  <2>1. Count(g, Slot, b) = Count(cb, Slot, b) + One(b, v) - One(b, w)
    BY <1>4
  <2>2. QED BY <1>6, <1>7, <2>1
<1>9. \A b \in Block : Total(cb', buffer', b) = Total(cb, buffer, b)
  BY <1>8 DEF Total
<1>10. UNCHANGED <<global, blocks>>
  BY DEF MoveShared
<1>11. QED BY <1>5, <1>9, <1>10 DEF SharedCountInv

(* Put moves the SharedPtr into the buffer, TakeItem one out of it *)
LEMMA PutStep ==
  ASSUME SharedCountInv, NEW s \in Slot, cb[s] /= None, Put(cb[s]), Set(s, None),
         UNCHANGED <<global, blocks>>
  PROVE  SharedCountInv'
<1>1. PICK v : v = cb[s]
  OBVIOUS
<1>2. v \in Block /\ buffer \in Seq(Block) /\ buffer' = Append(buffer, v)
  BY <1>1 DEF SharedCountInv, Put
<1>3. Assigned(cb, cb', s, None)
  BY DEF Set, Assigned
<1>4. /\ cb' \in [Slot -> Block \cup {None}]
      /\ \A b \in Block : Count(cb', Slot, b) = Count(cb, Slot, b) + One(b, None) - One(b, v)
  BY <1>1, <1>3, SharedSet
<1>5. ASSUME NEW b \in Block
      PROVE  Count(buffer', DOMAIN buffer', b) = Count(buffer, DOMAIN buffer, b) + One(b, v)
  BY <1>2, CountAppend
<1>6. ASSUME NEW b \in Block
      PROVE  Total(cb', buffer', b) = Total(cb, buffer, b)
  <2>1. One(b, None) = 0 /\ One(b, v) \in Int
    BY SharedAssumption DEF One
  <2>2. Count(cb, Slot, b) \in Nat /\ Count(buffer, DOMAIN buffer, b) \in Nat
    BY <1>2, TotalType
  <2>3. Count(cb', Slot, b) = Count(cb, Slot, b) + One(b, None) - One(b, v)
    BY <1>4
  <2>4. QED BY <1>5, <2>1, <2>2, <2>3 DEF Total
<1>7. QED BY <1>2, <1>4, <1>6 DEF SharedCountInv

LEMMA TakeItemStep ==
  ASSUME SharedCountInv, NEW t, TakeItem(t), NEW s \in Slot, cb[s] = None,
         Set(s, Head(buffer)), UNCHANGED <<global, blocks>>
  PROVE  SharedCountInv'
<1>1. PICK v : v = Head(buffer)
  OBVIOUS
<1>2. v \in Block /\ buffer \in Seq(Block) /\ buffer /= << >> /\ buffer' = Tail(buffer)
  BY <1>1 DEF SharedCountInv, TakeItem
<1>3. Assigned(cb, cb', s, v)
  BY <1>1 DEF Set, Assigned
<1>4. /\ cb' \in [Slot -> Block \cup {None}]
      /\ \A b \in Block : Count(cb', Slot, b) = Count(cb, Slot, b) + One(b, v) - One(b, None)
  BY <1>2, <1>3, SharedSet
<1>5. ASSUME NEW b \in Block
      PROVE  Count(buffer', DOMAIN buffer', b) = Count(buffer, DOMAIN buffer, b) - One(b, v)
  BY <1>1, <1>2, CountTail
<1>6. ASSUME NEW b \in Block
      PROVE  Total(cb', buffer', b) = Total(cb, buffer, b)
  <2>1. One(b, None) = 0 /\ One(b, v) \in Int
    BY SharedAssumption DEF One
  <2>2. Count(cb, Slot, b) \in Nat /\ Count(buffer, DOMAIN buffer, b) \in Nat
    BY <1>2, TotalType
  <2>3. Count(cb', Slot, b) = Count(cb, Slot, b) + One(b, v) - One(b, None)
    BY <1>4
  <2>4. QED BY <1>5, <2>1, <2>2, <2>3 DEF Total
<1>7. QED BY <1>2, <1>4, <1>6 DEF SharedCountInv

(* Close gives back the reference of every SharedPtr in the buffer *)
LEMMA CloseStep ==
  ASSUME SharedCountInv, CloseQueue
  PROVE  SharedCountInv'
<1>1. buffer \in Seq(Block) /\ cb' = cb /\ buffer' = << >> /\ buffer' \in Seq(Block)
  BY DEF SharedCountInv, CloseQueue, Shut
<1>2. global' = [b \in Block |-> global[b] - Count(buffer, DOMAIN buffer, b)]
  BY DEF CloseQueue, Count, Owners
<1>3. ASSUME NEW b \in Block
      PROVE  Total(cb', buffer', b) = global'[b] /\ (global'[b] /= 0 => b \in blocks)
  <2>1. Count(buffer', DOMAIN buffer', b) = 0
    BY <1>1, CountEmpty
  <2>2. Count(cb, Slot, b) \in Nat /\ Count(buffer, DOMAIN buffer, b) \in Nat
    BY <1>1, TotalType
  <2>3. Total(cb', buffer', b) = Count(cb, Slot, b)
    BY <1>1, <2>1, <2>2 DEF Total
  <2>4. global[b] = Count(cb, Slot, b) + Count(buffer, DOMAIN buffer, b)
    BY DEF SharedCountInv, Total
  <2>5. b \in blocks <=> global[b] /= 0
    BY DEF SharedCountInv
  <2>6. QED BY <1>2, <2>2, <2>3, <2>4, <2>5
<1>4. blocks' = {b \in blocks : global'[b] /= 0}
  BY DEF CloseQueue
<1>5. blocks' = {b \in Block : global'[b] /= 0}
  BY <1>3, <1>4 DEF SharedCountInv
<1>6. global' = [b \in Block |-> Total(cb', buffer', b)]
  BY <1>2, <1>3
<1>7. QED BY <1>1, <1>5, <1>6 DEF SharedCountInv

----------------------------------------------------------------------------
(***************************************************************************)
(* The program.  The threads that have arrived at the barrier are those    *)
(* inside with the current generation; the generation tells how far any    *)
(* thread can be, and a thread has Refs and SharedPtrs only in the scopes  *)
(* where it may use them.                                                  *)
(***************************************************************************)
StageType ==
  /\ stage \in [Participant -> {"new", "refs", "first", "work", "item", "second", "end"}]
  /\ leaving \subseteq Participant
  /\ fired \in BOOLEAN /\ waiting \in BOOLEAN /\ closed \in BOOLEAN
  /\ puts \in Nat /\ takers \subseteq Participant

BarrierType ==
  /\ generation \in 0..2 /\ arrivedCount \in Nat
  /\ myGeneration \in [Participant -> Nat]
  /\ atBarrier \subseteq Participant /\ asleep \subseteq atBarrier

(* where a thread can be in generation g *)
StagesOf(g) ==
  CASE g = 0 -> {"new", "refs", "first"}
    [] g = 1 -> {"first", "work", "item", "second"}
    [] g = 2 -> {"second", "end"}

Arrived == {t \in atBarrier : myGeneration[t] = generation}

CrossingInv ==
  /\ atBarrier = {t \in Participant : stage[t] \in {"first", "second"}}
  /\ \A t \in Participant : stage[t] \in StagesOf(generation)
  /\ \A t \in Participant : /\ stage[t] = "first" => myGeneration[t] = 0
                            /\ stage[t] = "second" => myGeneration[t] = 1
  /\ arrivedCount = Cardinality(Arrived)
  /\ arrivedCount < Cardinality(Participant)

ScopeInv ==
  /\ \A s \in RefSlot : ref[s] /= None => stage[s[1]] = "refs"
  /\ \A s \in Slot : cb[s] /= None => \/ stage[s[1]] = "item"
                                      \/ stage[s[1]] = "work" /\ s[1] = Producer

ClosedInv ==
  /\ closed => buffer = << >>
  /\ stage[Parent] \in {"second", "end"} => closed
  /\ stage[Parent] = "work" /\ Parent \in leaving => closed

HandoffTypeOK == StageType /\ BarrierType

HandoffInv ==
  /\ HandoffTypeOK /\ RefCountInv /\ SharedCountInv
  /\ CrossingInv /\ ScopeInv /\ ClosedInv

LEMMA ThreadFacts ==
  /\ IsFiniteSet(Participant) /\ Cardinality(Participant) \in Nat
  /\ Parent \in Participant /\ Producer \in Participant /\ Parent /= Producer
  /\ \A t \in Consumer : t \in Participant /\ t /= Parent /\ t /= Producer
<1>1. IsFiniteSet({Parent, Producer} \cup Consumer)
  <2>1. IsFiniteSet({Parent}) /\ IsFiniteSet({Producer})
    BY FS_Singleton
  <2>2. IsFiniteSet({Parent} \cup {Producer})
    BY <2>1, FS_Union
  <2>3. IsFiniteSet(({Parent} \cup {Producer}) \cup Consumer)
    BY <2>2, FS_Union, HandoffAssumption
  <2>4. ({Parent} \cup {Producer}) \cup Consumer = {Parent, Producer} \cup Consumer
    OBVIOUS
  <2>5. QED BY <2>3, <2>4
<1>2. IsFiniteSet(Participant)
  BY <1>1, HandoffAssumption
<1>3. Cardinality(Participant) \in Nat
  BY <1>2, FS_CardinalityType
<1>4. QED BY <1>2, <1>3, HandoffAssumption

(* the stage of one thread tells the generation, and so where the others are *)
LEMMA GenerationFacts ==
  ASSUME HandoffInv, NEW t \in Participant
  PROVE  /\ stage[t] \in {"new", "refs"} => generation = 0
         /\ stage[t] \in {"work", "item"} => generation = 1
         /\ stage[t] = "end" => generation = 2
         /\ stage[t] \in StagesOf(generation) /\ generation \in 0..2
<1>1. generation \in 0..2 /\ stage[t] \in StagesOf(generation)
  BY DEF HandoffInv, HandoffTypeOK, BarrierType, CrossingInv
<1>2. CASE generation = 0
  BY <1>1, <1>2 DEF StagesOf
<1>3. CASE generation = 1
  BY <1>1, <1>3 DEF StagesOf
<1>4. CASE generation = 2
  BY <1>1, <1>4 DEF StagesOf
<1>5. QED BY <1>1, <1>2, <1>3, <1>4

LEMMA HandoffGivesPointers ==
  ASSUME HandoffInv
  PROVE  PointersExact
BY RefCountGivesExact, SharedCountGivesExact DEF HandoffInv, PointersExact

LEMMA HandoffGivesBarrier ==
  ASSUME HandoffInv
  PROVE  BarrierSeparates
<1>1. RefsExact /\ SharedExact(ToSet(buffer))
  BY HandoffGivesPointers DEF PointersExact
<1>2. ASSUME NEW t \in Participant, stage[t] \in {"work", "item", "second", "end"}
      PROVE  alive = {} /\ \A u \in Participant : stage[u] \notin {"new", "refs"}
  <2>1. generation /= 0
    BY <1>2, GenerationFacts DEF StagesOf
  <2>2. \A u \in Participant : stage[u] \notin {"new", "refs"}
    BY <2>1, GenerationFacts
  <2>3. \A s \in RefSlot : ref[s] = None
    BY <2>2, HandoffAssumption DEF HandoffInv, ScopeInv
  <2>4. alive = {}
    BY <1>1, <2>3 DEF RefsExact
  <2>5. QED BY <2>2, <2>4
<1>3. ASSUME NEW t \in Participant, stage[t] = "end"
      PROVE  blocks = {} /\ \A u \in Participant : stage[u] \in {"second", "end"}
  <2>1. generation = 2
    BY <1>3, GenerationFacts
  <2>2. \A u \in Participant : stage[u] \in {"second", "end"}
    BY <2>1, GenerationFacts DEF StagesOf
  <2>3. \A s \in Slot : cb[s] = None
    BY <2>2, HandoffAssumption DEF HandoffInv, ScopeInv
  <2>4. ToSet(buffer) = {}
    <3>1. buffer = << >>
      BY <2>2, ThreadFacts DEF HandoffInv, ClosedInv
    <3>2. QED BY <3>1, EmptyFacts
  <2>5. blocks = {}
    BY <1>1, <2>3, <2>4 DEF SharedExact
  <2>6. QED BY <2>2, <2>5
<1>4. QED BY <1>2, <1>3 DEF BarrierSeparates

LEMMA HandoffInitInv ==
  ASSUME HandoffInit
  PROVE  HandoffInv
<1> USE DEF HandoffInit, RefInit, SharedInit, BarrierInit, QueueInit
<1>1. StageType
  BY DEF StageType
<1>2. BarrierType
  BY DEF BarrierType
<1>3. RefCountInv
  <2>1. \A o \in Object : Count(ref, RefSlot, o) = 0
    <3>1. \A o \in Object : \A s \in RefSlot : ref[s] /= o
      BY RefAssumption
    <3>2. QED BY <3>1, CountType, HandoffAssumption
  <2>2. QED BY <2>1 DEF RefCountInv
<1>4. SharedCountInv
  <2>1. buffer \in Seq(Block) /\ cb \in [Slot -> Block \cup {None}]
    OBVIOUS
  <2>2. \A b \in Block : /\ \A s \in Slot : cb[s] /= b
                         /\ \A i \in DOMAIN buffer : buffer[i] /= b
    BY SharedAssumption
  <2>3. \A b \in Block : Total(cb, buffer, b) = 0
    BY <2>1, <2>2, TotalType
  <2>4. QED BY <2>1, <2>3 DEF SharedCountInv
<1>5. CrossingInv
  <2>1. Arrived = {} /\ arrivedCount = Cardinality(Arrived)
    BY FS_EmptySet DEF Arrived
  <2>2. Cardinality(Participant) > 0
    BY ThreadFacts, FS_EmptySet
  <2>3. QED BY <2>1, <2>2 DEF CrossingInv, StagesOf
<1>6. ScopeInv
  BY DEF ScopeInv
<1>7. ClosedInv
  BY ThreadFacts DEF ClosedInv
<1>8. QED BY <1>1, <1>2, <1>3, <1>4, <1>5, <1>6, <1>7 DEF HandoffInv, HandoffTypeOK

----------------------------------------------------------------------------
(* The steps of the program *)

(* An operation on the Refs s and r keeps the counts right and leaves the  *)
(* others alone.                                                           *)
LEMMA RefOperation ==
  ASSUME RefCountInv, NEW s \in RefSlot, NEW r \in RefSlot,
         \/ New(s) \/ CopyRef(s, r) \/ AssignRef(s, r)
         \/ MoveRef(s, r) \/ MoveAssignRef(s, r) \/ ResetRef(s)
  PROVE  RefCountInv' /\ \A x \in RefSlot \ {s, r} : ref'[x] = ref[x]
<1>0. ref \in [RefSlot -> Object \cup {None}]
  BY DEF RefCountInv
<1>1. CASE New(s)
  BY <1>0, <1>1, NewStep DEF New
<1>2. CASE CopyRef(s, r)
  BY <1>0, <1>2, CopyRefStep DEF CopyRef
<1>3. CASE AssignRef(s, r)
  BY <1>0, <1>3, AssignRefStep DEF AssignRef
<1>4. CASE MoveRef(s, r)
  BY <1>0, <1>4, MoveRefStep DEF MoveRef
<1>5. CASE MoveAssignRef(s, r)
  BY <1>0, <1>5, MoveAssignRefStep DEF MoveAssignRef
<1>6. CASE ResetRef(s)
  BY <1>0, <1>6, ResetRefStep DEF ResetRef
<1>7. QED BY <1>1, <1>2, <1>3, <1>4, <1>5, <1>6

LEMMA SharedOperation ==
  ASSUME SharedCountInv, NEW s \in Slot, NEW r \in Slot, buffer' = buffer,
         \/ MakeShared(s)
         \/ cb[r] /= None /\ (CopyShared(s, r) \/ AssignShared(s, r))
         \/ s /= r /\ MoveShared(s, r)
         \/ ResetShared(s)
  PROVE  SharedCountInv' /\ \A x \in Slot \ {s, r} : cb'[x] = cb[x]
<1>0. cb \in [Slot -> Block \cup {None}]
  BY DEF SharedCountInv
<1>1. CASE MakeShared(s)
  BY <1>0, <1>1, MakeSharedStep DEF MakeShared, Set
<1>2. CASE cb[r] /= None /\ CopyShared(s, r)
  BY <1>0, <1>2, CopySharedStep DEF CopyShared, Set
<1>3. CASE cb[r] /= None /\ AssignShared(s, r)
  BY <1>0, <1>3, AssignSharedStep DEF AssignShared, Set
<1>4. CASE s /= r /\ MoveShared(s, r)
  BY <1>0, <1>4, MoveSharedStep DEF MoveShared
<1>5. CASE ResetShared(s)
  BY <1>0, <1>5, ResetSharedStep DEF ResetShared, Set
<1>6. QED BY <1>1, <1>2, <1>3, <1>4, <1>5

LEMMA LocalRefStep ==
  ASSUME HandoffInv, NEW t \in Participant, LocalRef(t)
  PROVE  HandoffInv'
<1> USE DEF HandoffInv
<1>1. PICK s \in RefOf(t), r \in RefOf(t) :
        \/ New(s) \/ CopyRef(s, r) \/ AssignRef(s, r)
        \/ MoveRef(s, r) \/ MoveAssignRef(s, r) \/ ResetRef(s)
  BY DEF LocalRef
<1>2. s \in RefSlot /\ s[1] = t /\ r \in RefSlot /\ r[1] = t
  BY DEF RefOf
<1>3. RefCountInv' /\ \A x \in RefSlot \ {s, r} : ref'[x] = ref[x]
  BY <1>1, <1>2, RefOperation
<1>4. stage[t] = "refs" /\ UNCHANGED <<sharedVars, barrierVars, queueVars, programVars>>
  BY DEF LocalRef, Scope
<1>5. ScopeInv'
  BY <1>2, <1>3, <1>4 DEF ScopeInv, programVars, sharedVars
<1>6. HandoffTypeOK' /\ CrossingInv' /\ ClosedInv' /\ SharedCountInv'
  BY <1>4 DEF HandoffTypeOK, StageType, BarrierType, CrossingInv, Arrived, ClosedInv,
       SharedCountInv, programVars, sharedVars, barrierVars, queueVars
<1>7. QED BY <1>3, <1>5, <1>6

LEMMA LocalSharedStep ==
  ASSUME HandoffInv, NEW t \in Participant, LocalShared(t)
  PROVE  HandoffInv'
<1> USE DEF HandoffInv
<1>1. PICK s \in SlotOf(t), r \in SlotOf(t) :
        \/ MakeShared(s)
        \/ cb[r] /= None /\ (CopyShared(s, r) \/ AssignShared(s, r))
        \/ s /= r /\ MoveShared(s, r)
        \/ ResetShared(s)
  BY DEF LocalShared
<1>2. s \in Slot /\ s[1] = t /\ r \in Slot /\ r[1] = t
  BY DEF SlotOf
<1>3. /\ stage[t] = IF t = Producer THEN "work" ELSE "item"
      /\ UNCHANGED <<refVars, barrierVars, queueVars, programVars>>
  BY DEF LocalShared, Scope
<1>4. SharedCountInv' /\ \A x \in Slot \ {s, r} : cb'[x] = cb[x]
  BY <1>1, <1>2, <1>3, SharedOperation DEF queueVars
<1>5. ScopeInv'
  BY <1>2, <1>3, <1>4 DEF ScopeInv, programVars, refVars
<1>6. HandoffTypeOK' /\ CrossingInv' /\ ClosedInv' /\ RefCountInv'
  BY <1>3 DEF HandoffTypeOK, StageType, BarrierType, CrossingInv, Arrived, ClosedInv,
       RefCountInv, programVars, refVars, barrierVars, queueVars
<1>7. QED BY <1>4, <1>5, <1>6

LEMMA DestroyStep ==
  ASSUME HandoffInv, NEW t \in Participant, Destroy(t)
  PROVE  HandoffInv'
<1> USE DEF HandoffInv
<1>0. UNCHANGED <<barrierVars, queueVars, programVars>>
  BY DEF Destroy
<1>1. HandoffTypeOK' /\ CrossingInv' /\ ClosedInv'
  BY <1>0 DEF HandoffTypeOK, StageType, BarrierType, CrossingInv, Arrived, ClosedInv,
       programVars, barrierVars, queueVars
<1>2. ASSUME UNCHANGED sharedVars, NEW s \in RefOf(t), ResetRef(s)
      PROVE  RefCountInv' /\ SharedCountInv' /\ ScopeInv'
  <2>1. s \in RefSlot
    BY DEF RefOf
  <2>2. RefCountInv'
    BY <1>2, <2>1, RefOperation
  <2>3. \A x \in RefSlot : ref'[x] /= None => ref'[x] = ref[x]
    BY <1>2, <2>1 DEF ResetRef, RefCountInv
  <2>4. SharedCountInv'
    BY <1>0, <1>2 DEF SharedCountInv, sharedVars, queueVars
  <2>5. ScopeInv'
    BY <1>0, <1>2, <2>3 DEF ScopeInv, sharedVars, programVars
  <2>6. QED BY <2>2, <2>4, <2>5
<1>3. ASSUME UNCHANGED refVars, NEW s \in SlotOf(t), ResetShared(s)
      PROVE  RefCountInv' /\ SharedCountInv' /\ ScopeInv'
  <2>1. s \in Slot
    BY DEF SlotOf
  <2>2. SharedCountInv'
    BY <1>0, <1>3, <2>1, SharedOperation DEF queueVars
  <2>3. \A x \in Slot : cb'[x] /= None => cb'[x] = cb[x]
    BY <1>3, <2>1 DEF ResetShared, Set, SharedCountInv
  <2>4. RefCountInv'
    BY <1>3 DEF RefCountInv, refVars
  <2>5. ScopeInv'
    BY <1>0, <1>3, <2>3 DEF ScopeInv, refVars, programVars
  <2>6. QED BY <2>2, <2>4, <2>5
<1>4. QED BY <1>1, <1>2, <1>3 DEF Destroy

(* the barrier sees only who is inside, not what else threads do *)
LEMMA CrossingFrame ==
  ASSUME HandoffInv, UNCHANGED barrierVars,
         stage' \in [Participant -> {"new", "refs", "first", "work", "item", "second", "end"}],
         \A u \in Participant : \/ stage'[u] = stage[u]
                                \/ stage[u] = "new" /\ stage'[u] = "refs"
                                \/ stage[u] \in {"work", "item"} /\ stage'[u] \in {"work", "item"}
  PROVE  CrossingInv'
<1> USE DEF HandoffInv, barrierVars
<1>1. Arrived' = Arrived
  BY DEF Arrived
<1>2. \A u \in Participant : stage'[u] \in StagesOf(generation')
  <2>1. SUFFICES ASSUME NEW u \in Participant PROVE stage'[u] \in StagesOf(generation)
    OBVIOUS
  <2>2. stage[u] \in StagesOf(generation)
    BY GenerationFacts
  <2>3. CASE stage[u] = "new" /\ stage'[u] = "refs"
    BY <2>3, GenerationFacts DEF StagesOf
  <2>4. CASE stage[u] \in {"work", "item"} /\ stage'[u] \in {"work", "item"}
    BY <2>4, GenerationFacts DEF StagesOf
  <2>5. QED BY <2>2, <2>3, <2>4
<1>3. \A u \in Participant : /\ stage'[u] = "first" <=> stage[u] = "first"
                             /\ stage'[u] = "second" <=> stage[u] = "second"
  OBVIOUS
<1>4. QED BY <1>1, <1>2, <1>3 DEF CrossingInv

LEMMA SpawnStep ==
  ASSUME HandoffInv, NEW t \in Participant, Spawn(t)
  PROVE  HandoffInv'
<1> USE DEF HandoffInv
<1>1. PICK s \in RefOf(Parent), r \in RefOf(t) : CopyRef(r, s)
  BY DEF Spawn
<1>2. s \in RefSlot /\ r \in RefSlot /\ r[1] = t
  BY DEF RefOf
<1>3. /\ stage[t] = "new" /\ stage[Parent] = "refs"
      /\ stage' = [stage EXCEPT ![t] = "refs"] /\ leaving' = leaving \ {t}
      /\ UNCHANGED <<sharedVars, barrierVars, queueVars, fired, waiting, puts>>
  BY DEF Spawn, Scope, Enter
<1>4. RefCountInv'
  BY <1>1, <1>2, RefOperation
<1>5. \A x \in RefSlot : x /= r => ref'[x] = ref[x]
  BY <1>1, <1>2 DEF CopyRef, RefCountInv
<1>6. HandoffTypeOK'
  BY <1>3 DEF HandoffTypeOK, StageType, BarrierType, barrierVars, queueVars
<1>7. stage'[t] = "refs" /\ \A u \in Participant \ {t} : stage'[u] = stage[u]
  BY <1>3 DEF HandoffTypeOK, StageType
<1>8. CrossingInv'
  BY <1>3, <1>6, <1>7, CrossingFrame DEF HandoffTypeOK, StageType
<1>9. ScopeInv'
  BY <1>2, <1>3, <1>5, <1>7, HandoffAssumption DEF ScopeInv, sharedVars
<1>10. SharedCountInv' /\ ClosedInv'
  BY <1>3, <1>7, ThreadFacts DEF SharedCountInv, ClosedInv, sharedVars, queueVars
<1>11. QED BY <1>4, <1>6, <1>8, <1>9, <1>10

LEMMA LeaveStep ==
  ASSUME HandoffInv, NEW t \in Participant, Leave(t)
  PROVE  HandoffInv'
<1> USE DEF HandoffInv
<1>1. /\ leaving' = leaving \cup {t}
      /\ UNCHANGED <<refVars, sharedVars, barrierVars, queueVars, stage, fired, waiting, puts>>
  BY DEF Leave
<1>2. t = Parent /\ stage[t] = "work" => closed
  <2>1. t = Parent /\ WorkOver(t) => closed
    BY ThreadFacts DEF WorkOver, HandoffTypeOK, StageType
  <2>2. QED BY <2>1 DEF Leave
<1>3. ClosedInv'
  BY <1>1, <1>2 DEF ClosedInv, queueVars
<1>4. QED
  BY <1>1, <1>3 DEF HandoffTypeOK, StageType, BarrierType, CrossingInv, Arrived, ScopeInv,
       RefCountInv, SharedCountInv, refVars, sharedVars, barrierVars, queueVars

(* An arrival, the last of which opens the barrier *)
LEMMA ArriveStep ==
  ASSUME HandoffInv, NEW t \in Participant, NEW to,
         \/ stage[t] = "refs" /\ to = "first"
         \/ stage[t] = "work" /\ to = "second",
         stage' = [stage EXCEPT ![t] = to], Arrive(t)
  PROVE  BarrierType' /\ CrossingInv'
<1> USE DEF HandoffInv, HandoffTypeOK
<1>1. /\ stage' \in [Participant -> {"new", "refs", "first", "work", "item", "second", "end"}]
      /\ stage'[t] = to /\ \A u \in Participant \ {t} : stage'[u] = stage[u]
  BY DEF StageType
<1>2. /\ (generation = 0 /\ to = "first") \/ (generation = 1 /\ to = "second")
      /\ \A u \in Participant : stage[u] \in StagesOf(generation)
  BY GenerationFacts
<1>3. t \notin atBarrier /\ t \notin Arrived /\ Arrived \subseteq Participant
  BY DEF CrossingInv, Arrived, BarrierType
<1>4. /\ IsFiniteSet(Arrived) /\ Cardinality(Arrived) \in Nat
      /\ IsFiniteSet(Arrived \cup {t})
      /\ Cardinality(Arrived \cup {t}) = Cardinality(Arrived) + 1
  BY <1>3, ThreadFacts, FS_Subset, FS_CardinalityType, FS_AddElement
<1>5. /\ myGeneration' \in [Participant -> Nat] /\ myGeneration'[t] = generation
      /\ \A u \in Participant \ {t} : myGeneration'[u] = myGeneration[u]
      /\ atBarrier' = atBarrier \cup {t}
  BY DEF Arrive, BarrierType
<1>6. atBarrier' = {u \in Participant : stage'[u] \in {"first", "second"}}
  BY <1>1, <1>2, <1>5 DEF CrossingInv
<1>7. \A u \in Participant : /\ stage'[u] = "first" => myGeneration'[u] = 0
                             /\ stage'[u] = "second" => myGeneration'[u] = 1
  BY <1>1, <1>2, <1>5 DEF CrossingInv
<1>8. CASE arrivedCount + 1 /= Cardinality(Participant)
  <2>1. /\ generation' = generation /\ arrivedCount' = arrivedCount + 1
        /\ asleep' = asleep \cup {t}
    BY <1>8 DEF Arrive
  <2>2. Arrived' = Arrived \cup {t}
    BY <1>5, <2>1 DEF Arrived, BarrierType
  <2>3. arrivedCount' = Cardinality(Arrived') /\ arrivedCount' < Cardinality(Participant)
    BY <1>4, <1>8, <2>1, <2>2, ThreadFacts DEF CrossingInv
  <2>4. \A u \in Participant : stage'[u] \in StagesOf(generation')
    <3>1. CASE generation = 0
      BY <1>1, <1>2, <2>1, <3>1 DEF StagesOf
    <3>2. CASE generation = 1
      BY <1>1, <1>2, <2>1, <3>2 DEF StagesOf
    <3>3. QED BY <1>2, <3>1, <3>2
  <2>5. BarrierType'
    BY <1>5, <2>1 DEF BarrierType
  <2>6. QED BY <1>6, <1>7, <2>3, <2>4, <2>5 DEF CrossingInv
<1>9. CASE arrivedCount + 1 = Cardinality(Participant)
  <2>1. generation' = generation + 1 /\ arrivedCount' = 0 /\ asleep' = {}
    BY <1>9 DEF Arrive
  <2>2. Arrived \cup {t} = Participant
    <3>1. Cardinality(Arrived \cup {t}) = Cardinality(Participant)
      BY <1>4, <1>9 DEF CrossingInv
    <3>2. QED BY <1>3, <1>4, <3>1, ThreadFacts, FS_Subset
  <2>3. \A u \in Participant : stage'[u] = to
    <3>1. SUFFICES ASSUME NEW u \in Participant, u /= t PROVE stage[u] = to
      BY <1>1
    <3>2. u \in atBarrier /\ myGeneration[u] = generation
      BY <2>2, <3>1 DEF Arrived
    <3>3. stage[u] \in {"first", "second"}
      BY <3>2 DEF CrossingInv
    <3>4. QED BY <1>2, <3>2, <3>3 DEF CrossingInv
  <2>4. \A u \in Participant : stage'[u] \in StagesOf(generation')
    <3>1. CASE generation = 0
      BY <1>2, <2>1, <2>3, <3>1 DEF StagesOf
    <3>2. CASE generation = 1
      BY <1>2, <2>1, <2>3, <3>2 DEF StagesOf
    <3>3. QED BY <1>2, <3>1, <3>2
  <2>5. Arrived' = {}
    <3>1. \A u \in Participant : myGeneration'[u] = generation
      BY <1>5, <2>2 DEF Arrived
    <3>2. generation' /= generation /\ atBarrier' \subseteq Participant
      BY <1>2, <1>6, <2>1
    <3>3. QED BY <3>1, <3>2 DEF Arrived
  <2>6. arrivedCount' = Cardinality(Arrived') /\ arrivedCount' < Cardinality(Participant)
    BY <1>4, <1>9, <2>1, <2>5, FS_EmptySet DEF CrossingInv
  <2>7. BarrierType'
    BY <1>2, <1>5, <2>1 DEF BarrierType
  <2>8. QED BY <1>6, <1>7, <2>4, <2>6, <2>7 DEF CrossingInv
<1>10. QED BY <1>8, <1>9

LEMMA ArriveFirstStep ==
  ASSUME HandoffInv, NEW t \in Participant, ArriveFirst(t)
  PROVE  HandoffInv'
<1> USE DEF HandoffInv
<1>1. /\ stage[t] = "refs" /\ stage' = [stage EXCEPT ![t] = "first"]
      /\ leaving' = leaving \ {t} /\ Arrive(t)
      /\ \A r \in RefOf(t) : ref[r] = None
      /\ UNCHANGED <<refVars, sharedVars, queueVars, fired, waiting, puts>>
  BY DEF ArriveFirst, Emptied, Enter
<1>2. BarrierType' /\ CrossingInv'
  BY <1>1, ArriveStep
<1>3. stage'[t] = "first" /\ \A u \in Participant \ {t} : stage'[u] = stage[u]
  BY <1>1 DEF HandoffTypeOK, StageType
<1>4. ScopeInv'
  BY <1>1, <1>3, HandoffAssumption DEF ScopeInv, RefOf, refVars, sharedVars
<1>5. ClosedInv'
  BY <1>1, <1>3, ThreadFacts DEF ClosedInv, queueVars
<1>6. StageType' /\ RefCountInv' /\ SharedCountInv'
  BY <1>1 DEF HandoffTypeOK, StageType, RefCountInv, SharedCountInv, refVars, sharedVars, queueVars
<1>7. QED BY <1>2, <1>4, <1>5, <1>6 DEF HandoffTypeOK

LEMMA ArriveSecondStep ==
  ASSUME HandoffInv, NEW t \in Participant, ArriveSecond(t)
  PROVE  HandoffInv'
<1> USE DEF HandoffInv
<1>1. /\ stage[t] = "work" /\ t \in leaving /\ stage' = [stage EXCEPT ![t] = "second"]
      /\ leaving' = leaving \ {t} /\ Arrive(t)
      /\ \A u \in SlotOf(t) : cb[u] = None
      /\ UNCHANGED <<refVars, sharedVars, queueVars, fired, waiting, puts>>
  BY DEF ArriveSecond, Emptied, Enter
<1>2. BarrierType' /\ CrossingInv'
  BY <1>1, ArriveStep
<1>3. stage'[t] = "second" /\ \A u \in Participant \ {t} : stage'[u] = stage[u]
  BY <1>1 DEF HandoffTypeOK, StageType
<1>4. ScopeInv'
  BY <1>1, <1>3, HandoffAssumption DEF ScopeInv, SlotOf, refVars, sharedVars
<1>5. ClosedInv'
  BY <1>1, <1>3, ThreadFacts DEF ClosedInv, queueVars
<1>6. StageType' /\ RefCountInv' /\ SharedCountInv'
  BY <1>1 DEF HandoffTypeOK, StageType, RefCountInv, SharedCountInv, refVars, sharedVars, queueVars
<1>7. QED BY <1>2, <1>4, <1>5, <1>6 DEF HandoffTypeOK

(* Who sees a new generation goes on; everybody has arrived by then. *)
LEMMA CrossStep ==
  ASSUME HandoffInv, NEW t \in Participant, Cross(t)
  PROVE  HandoffInv'
<1> USE DEF HandoffInv
<1>1. /\ t \in atBarrier \ asleep /\ stage[t] \in {"first", "second"}
      /\ UNCHANGED <<generation, arrivedCount, myGeneration>>
      /\ UNCHANGED <<refVars, sharedVars, queueVars, fired, waiting, puts>>
  BY DEF Cross, Recheck, CrossingInv
<1>2. RefCountInv' /\ SharedCountInv'
  BY <1>1 DEF RefCountInv, SharedCountInv, refVars, sharedVars, queueVars
<1>3. CASE myGeneration[t] = generation
  <2>1. asleep' = asleep \cup {t} /\ atBarrier' = atBarrier
    BY <1>3 DEF Cross, Recheck
  <2>2. UNCHANGED <<stage, leaving>>
    BY <1>1, <2>1 DEF Cross
  <2>3. Arrived' = Arrived
    BY <1>1, <2>1 DEF Arrived
  <2>4. QED
    BY <1>1, <1>2, <2>1, <2>2, <2>3 DEF HandoffTypeOK, StageType, BarrierType, CrossingInv,
         ScopeInv, ClosedInv, refVars, sharedVars, queueVars
<1>4. CASE myGeneration[t] /= generation
  <2>1. atBarrier' = atBarrier \ {t} /\ asleep' = asleep
    BY <1>4 DEF Cross, Recheck
  <2>2. PICK to : to = IF stage[t] = "first" THEN "work" ELSE "end"
    OBVIOUS
  <2>3. stage' = [stage EXCEPT ![t] = to] /\ leaving' = leaving \ {t}
    BY <2>1, <2>2 DEF Cross, Enter
  <2>4. /\ stage'[t] = to /\ \A u \in Participant \ {t} : stage'[u] = stage[u]
        /\ StageType' /\ BarrierType'
    BY <1>1, <2>1, <2>2, <2>3 DEF HandoffTypeOK, StageType, BarrierType, queueVars
  <2>5. \/ stage[t] = "first" /\ to = "work" /\ generation = 1
        \/ stage[t] = "second" /\ to = "end" /\ generation = 2
    <3>1. generation \in 0..2 /\ stage[t] \in StagesOf(generation)
      BY GenerationFacts
    <3>2. CASE stage[t] = "first"
      BY <1>4, <2>2, <3>1, <3>2 DEF StagesOf, CrossingInv
    <3>3. CASE stage[t] = "second"
      BY <1>4, <2>2, <3>1, <3>3 DEF StagesOf, CrossingInv
    <3>4. QED BY <1>1, <3>2, <3>3
  <2>6. Arrived' = Arrived
    BY <1>1, <1>4, <2>1 DEF Arrived
  <2>7. \A u \in Participant : stage'[u] \in StagesOf(generation')
    <3>1. \A u \in Participant : stage[u] \in StagesOf(generation)
      BY GenerationFacts
    <3>2. to \in StagesOf(generation)
      BY <2>5 DEF StagesOf
    <3>3. QED BY <1>1, <2>4, <3>1, <3>2
  <2>8. CrossingInv'
    BY <1>1, <2>1, <2>4, <2>5, <2>6, <2>7 DEF CrossingInv
  <2>9. ScopeInv'
    BY <1>1, <2>4, HandoffAssumption DEF ScopeInv, refVars, sharedVars
  <2>10. ClosedInv'
    BY <1>1, <2>3, <2>4, <2>5, ThreadFacts DEF ClosedInv, queueVars
  <2>11. QED BY <1>2, <2>4, <2>8, <2>9, <2>10 DEF HandoffTypeOK
<1>5. QED BY <1>3, <1>4

LEMMA ProduceStep ==
  ASSUME HandoffInv, Produce
  PROVE  HandoffInv'
<1> USE DEF HandoffInv
<1>0. /\ stage[Producer] = "work" /\ puts' = puts + 1
      /\ UNCHANGED <<refVars, barrierVars, stage, leaving, fired, waiting>>
  BY DEF Produce, Scope
<1>1. PICK s \in SlotOf(Producer) :
        /\ cb[s] /= None
        /\ \/ Put(cb[s]) /\ Set(s, None) /\ UNCHANGED <<global, blocks>>
           \/ PutClosed /\ ResetShared(s)
  BY DEF Produce
<1>2. s \in Slot
  BY DEF SlotOf
<1>3. SharedCountInv' /\ ClosedInv' /\ takers' \subseteq takers /\ closed' = closed
  <2>1. CASE Put(cb[s]) /\ Set(s, None) /\ UNCHANGED <<global, blocks>>
    <3>1. SharedCountInv'
      BY <1>1, <1>2, <2>1, PutStep
    <3>2. QED BY <1>0, <2>1, <3>1 DEF ClosedInv, Put
  <2>2. CASE PutClosed /\ ResetShared(s)
    <3>1. SharedCountInv'
      BY <1>2, <2>2, SharedOperation DEF PutClosed, queueVars
    <3>2. QED BY <1>0, <2>2, <3>1 DEF ClosedInv, PutClosed, queueVars
  <2>3. QED BY <1>1, <2>1, <2>2
<1>4. \A x \in Slot : cb'[x] /= None => cb'[x] = cb[x]
  BY <1>1, <1>2 DEF Set, ResetShared, SharedCountInv
<1>5. ScopeInv'
  BY <1>0, <1>4 DEF ScopeInv, refVars
<1>6. HandoffTypeOK' /\ CrossingInv' /\ RefCountInv'
  BY <1>0, <1>3 DEF HandoffTypeOK, StageType, BarrierType, CrossingInv, Arrived, RefCountInv,
       refVars, barrierVars
<1>7. QED BY <1>3, <1>5, <1>6

LEMMA ConsumeStep ==
  ASSUME HandoffInv, NEW t \in Consumer, Consume(t)
  PROVE  HandoffInv'
<1> USE DEF HandoffInv
<1>0. /\ stage[t] = "work" /\ stage' = [stage EXCEPT ![t] = "item"] /\ leaving' = leaving \ {t}
      /\ TakeItem(t)
      /\ UNCHANGED <<global, blocks, refVars, barrierVars, fired, waiting, puts>>
  BY DEF Consume, Scope, Enter
<1>1. PICK s \in SlotOf(t) : Set(s, Head(buffer))
  BY DEF Consume
<1>2. s \in Slot /\ s[1] = t /\ t \in Participant /\ t /= Producer /\ t /= Parent
  BY ThreadFacts DEF SlotOf
<1>3. cb[s] = None
  BY <1>0, <1>2 DEF ScopeInv
<1>4. SharedCountInv'
  BY <1>0, <1>1, <1>2, <1>3, TakeItemStep
<1>5. stage'[t] = "item" /\ \A u \in Participant \ {t} : stage'[u] = stage[u]
  BY <1>0, <1>2 DEF HandoffTypeOK, StageType
<1>6. HandoffTypeOK'
  BY <1>0 DEF HandoffTypeOK, StageType, BarrierType, barrierVars, TakeItem
<1>7. CrossingInv'
  BY <1>0, <1>5, <1>6, CrossingFrame DEF HandoffTypeOK, StageType
<1>8. ScopeInv'
  <2>1. \A x \in Slot : x /= s => cb'[x] = cb[x]
    BY <1>1 DEF Set, SharedCountInv
  <2>2. QED BY <1>0, <1>2, <1>5, <2>1, HandoffAssumption DEF ScopeInv, refVars
<1>9. ClosedInv'
  BY <1>0, <1>2, <1>5, ThreadFacts DEF ClosedInv, TakeItem
<1>10. RefCountInv'
  BY <1>0 DEF RefCountInv, refVars
<1>11. QED BY <1>4, <1>6, <1>7, <1>8, <1>9, <1>10

LEMMA NextItemStep ==
  ASSUME HandoffInv, NEW t \in Consumer, NextItem(t)
  PROVE  HandoffInv'
<1> USE DEF HandoffInv
<1>0. /\ stage[t] = "item" /\ stage' = [stage EXCEPT ![t] = "work"] /\ leaving' = leaving \ {t}
      /\ \A u \in SlotOf(t) : cb[u] = None
      /\ UNCHANGED <<refVars, sharedVars, barrierVars, queueVars, fired, waiting, puts>>
  BY DEF NextItem, Emptied, Enter
<1>1. t \in Participant /\ t /= Parent
  BY ThreadFacts
<1>2. stage'[t] = "work" /\ \A u \in Participant \ {t} : stage'[u] = stage[u]
  BY <1>0, <1>1 DEF HandoffTypeOK, StageType
<1>3. HandoffTypeOK'
  BY <1>0 DEF HandoffTypeOK, StageType, BarrierType, barrierVars, queueVars
<1>4. CrossingInv'
  BY <1>0, <1>2, <1>3, CrossingFrame DEF HandoffTypeOK, StageType
<1>5. ScopeInv'
  BY <1>0, <1>2, HandoffAssumption DEF ScopeInv, SlotOf, refVars, sharedVars
<1>6. ClosedInv'
  BY <1>0, <1>1, <1>2, ThreadFacts DEF ClosedInv, queueVars
<1>7. RefCountInv' /\ SharedCountInv'
  BY <1>0 DEF RefCountInv, SharedCountInv, refVars, sharedVars, queueVars
<1>8. QED BY <1>3, <1>4, <1>5, <1>6, <1>7

LEMMA CloseQueueStep ==
  ASSUME HandoffInv, CloseQueue
  PROVE  HandoffInv'
<1> USE DEF HandoffInv
<1>1. /\ closed' = TRUE /\ buffer' = << >> /\ takers' = {}
      /\ UNCHANGED <<cb, refVars, barrierVars, programVars>>
  BY DEF CloseQueue, Shut
<1>2. SharedCountInv'
  BY CloseStep
<1>3. ClosedInv' /\ ScopeInv' /\ RefCountInv'
  BY <1>1 DEF ClosedInv, ScopeInv, RefCountInv, refVars, programVars
<1>4. HandoffTypeOK' /\ CrossingInv'
  BY <1>1 DEF HandoffTypeOK, StageType, BarrierType, CrossingInv, Arrived,
       barrierVars, programVars
<1>5. QED BY <1>2, <1>3, <1>4

(* Waiting, waking and firing change nothing that is counted. *)
LEMMA QuietStep ==
  ASSUME HandoffInv, UNCHANGED <<refVars, sharedVars, stage, leaving, puts>>,
         UNCHANGED <<generation, arrivedCount, myGeneration, atBarrier>>,
         asleep' \subseteq asleep, UNCHANGED <<buffer, closed>>,
         takers' \subseteq Participant, fired' \in BOOLEAN, waiting' \in BOOLEAN
  PROVE  HandoffInv'
BY DEF HandoffInv, HandoffTypeOK, StageType, BarrierType, CrossingInv, Arrived, ScopeInv,
     ClosedInv, RefCountInv, SharedCountInv, refVars, sharedVars

LEMMA WaitSteps ==
  ASSUME HandoffInv, NEW t \in Participant,
         \/ t \in Consumer /\ ConsumeWait(t)
         \/ Fire \/ EventWait \/ Spurious(t)
  PROVE  HandoffInv'
<1> USE DEF refVars, sharedVars, barrierVars, queueVars, programVars
<1>0. /\ takers \subseteq Participant /\ fired \in BOOLEAN /\ waiting \in BOOLEAN
      /\ asleep \subseteq atBarrier
  BY DEF HandoffInv, HandoffTypeOK, StageType, BarrierType
<1>1. CASE t \in Consumer /\ ConsumeWait(t)
  BY <1>0, <1>1, QuietStep DEF ConsumeWait, TakeWait
<1>2. CASE Fire
  BY <1>0, <1>2, QuietStep DEF Fire
<1>3. CASE EventWait
  BY <1>0, <1>3, QuietStep DEF EventWait
<1>4. CASE Spurious(t)
  <2>1. CASE SpuriousWakeup(t) /\ UNCHANGED <<queueVars, waiting>>
    BY <1>0, <1>4, <2>1, QuietStep DEF Spurious, SpuriousWakeup
  <2>2. CASE SpuriousTake(t) /\ UNCHANGED <<barrierVars, waiting>>
    BY <1>0, <1>4, <2>2, QuietStep DEF Spurious, SpuriousTake
  <2>3. CASE t = Parent /\ waiting /\ waiting' = FALSE /\ UNCHANGED <<barrierVars, queueVars>>
    BY <1>0, <1>4, <2>3, QuietStep DEF Spurious
  <2>4. QED BY <1>4, <2>1, <2>2, <2>3 DEF Spurious
<1>5. QED BY <1>1, <1>2, <1>3, <1>4

LEMMA HandoffStutter ==
  ASSUME HandoffInv, UNCHANGED handoffVars
  PROVE  HandoffInv'
<1>1. /\ takers \subseteq Participant /\ fired \in BOOLEAN /\ waiting \in BOOLEAN
  BY DEF HandoffInv, HandoffTypeOK, StageType
<1>2. QED
  BY <1>1, QuietStep DEF handoffVars, refVars, sharedVars, barrierVars, queueVars, programVars

LEMMA HandoffNextInv ==
  ASSUME HandoffInv, HandoffNext
  PROVE  HandoffInv'
<1>1. ASSUME NEW t \in Participant, LocalStep(t)
      PROVE  HandoffInv'
  BY <1>1, LocalRefStep, LocalSharedStep DEF LocalStep
<1>2. ASSUME NEW t \in Participant, Progress(t)
      PROVE  HandoffInv'
  <2>1. CASE t \in Consumer /\ (Consume(t) \/ ConsumeWait(t) \/ NextItem(t))
    BY <2>1, ConsumeStep, WaitSteps, NextItemStep
  <2>2. CASE t = Parent /\ (EventWait \/ CloseQueue \/ \E u \in Participant : Spawn(u))
    BY <2>2, WaitSteps, CloseQueueStep, SpawnStep
  <2>3. CASE t = Producer /\ Fire
    BY <2>3, WaitSteps
  <2>4. CASE Leave(t) \/ Destroy(t) \/ ArriveFirst(t) \/ ArriveSecond(t) \/ Cross(t)
    BY <2>4, LeaveStep, DestroyStep, ArriveFirstStep, ArriveSecondStep, CrossStep
  <2>5. QED BY <1>2, <2>1, <2>2, <2>3, <2>4 DEF Progress
<1>3. ASSUME NEW t \in Participant, Spurious(t)
      PROVE  HandoffInv'
  BY <1>3, WaitSteps
<1>4. CASE Produce
  BY <1>4, ProduceStep
<1>5. CASE Finished
  BY <1>5, HandoffStutter DEF Finished
<1>6. QED BY <1>1, <1>2, <1>3, <1>4, <1>5 DEF HandoffNext

(* The counts, the barrier and the scopes fit together in every state.     *)
THEOREM HandoffInvariance == HandoffSpec => []HandoffInv
<1>1. HandoffInit => HandoffInv
  BY HandoffInitInv
<1>2. HandoffInv /\ [HandoffNext]_handoffVars => HandoffInv'
  BY HandoffNextInv, HandoffStutter
<1>3. QED BY <1>1, <1>2, PTL DEF HandoffSpec

(* Type correctness of the program, the barrier, the queue and the event.  *)
THEOREM HandoffTypeCorrect == HandoffSpec => []HandoffTypeOK
<1>1. HandoffInv => HandoffTypeOK
  BY DEF HandoffInv
<1>2. QED BY <1>1, HandoffInvariance, PTL

(* Ref::ReleaseRef and ControlBlock::IncrementRefCount delete an object    *)
(* exactly when the last reference to it goes, for any objects, any finite *)
(* number of variables, and whatever is copied, moved, assigned to itself, *)
(* put into the queue or thrown away by Close.                             *)
THEOREM PointersExactHolds == HandoffSpec => []PointersExact
<1>1. HandoffInv => PointersExact
  BY HandoffGivesPointers
<1>2. QED BY <1>1, HandoffInvariance, PTL

(* Nobody passes CyclicBarrier::ArriveAndWait before everybody has         *)
(* arrived, at the first crossing and at the second, for any number of     *)
(* threads and with spurious wake-ups.                                     *)
THEOREM BarrierSeparatesHolds == HandoffSpec => []BarrierSeparates
<1>1. HandoffInv => BarrierSeparates
  BY HandoffGivesBarrier
<1>2. QED BY <1>1, HandoffInvariance, PTL

----------------------------------------------------------------------------
(***************************************************************************)
(* Results.  The owners a resource counts are the cells that hold it; the  *)
(* storage of a Result holds a T exactly while its error is none; and the  *)
(* Result that a call of the HTTP client will return does not exist yet.   *)
(***************************************************************************)
Resource == Handle \cup Token
Content == Resource \cup {None, Dead}

CellInv ==
  /\ cell \in [Cell -> Content]
  /\ used = [p \in Resource |-> Count(cell, Cell, p)]
  /\ \A h \in Handle : used[h] <= 1

ResultInv ==
  /\ error \in [Results -> Errors \cup {Absent}]
  /\ \A r \in Results : cell[r] /= Dead <=> HasValue(r)

CallInv ==
  /\ call.at \in {"idle", "perform", "parse", "parsed", "assert"}
  /\ call.at \in {"perform", "parse"} => call.to \in Results /\ ~Exists(call.to)

(* a request and a builder hold a handle, or nothing *)
OwnerInv == \A c \in Others : cell[c] \notin Token

HttpInv == CellInv /\ ResultInv /\ OwnerInv /\ CallInv

LEMMA CellFacts ==
  /\ IsFiniteSet(Cell)
  /\ Results \subseteq Cell /\ Requests \subseteq Cell /\ Builder \in Cell /\ Local \in Cell
  /\ Builder \notin Results /\ Local \notin Results /\ Requests \cap Results = {}
  /\ None \notin Resource /\ Dead \notin Resource /\ None /= Dead
  /\ None \in Content /\ Dead \in Content /\ Handle \subseteq Resource /\ Token \subseteq Resource
<1>1. IsFiniteSet(Results \cup Others)
  BY FS_Union, ResultAssumption
<1>2. QED BY <1>1, ResultAssumption, HttpAssumption DEF Cell, Resource, Content

LEMMA CellCounts ==
  ASSUME CellInv, NEW p \in Resource
  PROVE  /\ used[p] = Count(cell, Cell, p) /\ used[p] \in Nat
         /\ used[p] = 0 <=> \A c \in Cell : cell[c] /= p
BY CountType, CellFacts DEF CellInv

LEMMA OwnedFromInv ==
  ASSUME HttpInv
  PROVE  OwnedExactly
BY DEF HttpInv, CellInv, ResultInv, OwnedExactly, Count, Owners, Resource

(* one cell gets v; the counts follow *)
LEMMA CellSet ==
  ASSUME CellInv, NEW c \in Cell, NEW v \in Content, Assigned(cell, cell', c, v),
         DOMAIN used' = Resource, used' = [p \in DOMAIN used' |-> used'[p]],
         \A p \in Resource : used'[p] = used[p] + One(p, v) - One(p, cell[c]),
         v \in Handle => used[v] = 0
  PROVE  CellInv'
<1>1. cell \in [Cell -> Content]
  BY DEF CellInv
<1>2. cell' \in [Cell -> Content] /\ cell'[c] = v /\ SameBut(cell, cell', Cell, c)
  BY <1>1 DEF Assigned, SameBut
<1>3. \A p \in Resource : Count(cell', Cell, p) = Count(cell, Cell, p) + One(p, v) - One(p, cell[c])
  BY <1>2, CountUpdate, CellFacts
<1>4. \A p \in Resource : used'[p] = Count(cell', Cell, p)
  BY <1>3, CellCounts
<1>5. ASSUME NEW h \in Handle
      PROVE  used'[h] <= 1
  <2>1. h \in Resource /\ used[h] \in Nat /\ used[h] <= 1
    BY CellFacts, CellCounts DEF CellInv
  <2>2. One(h, cell[c]) \in {0, 1} /\ One(h, v) \in {0, 1} /\ (One(h, v) = 1 => h = v)
    BY DEF One
  <2>3. used'[h] = used[h] + One(h, v) - One(h, cell[c])
    BY <2>1
  <2>4. QED BY <2>1, <2>2, <2>3
<1>6. QED BY <1>2, <1>4, <1>5 DEF CellInv

(* T(T&&) in d from c, after the T in d has been destroyed *)
LEMMA CellMove ==
  ASSUME CellInv, NEW c \in Cell, NEW d \in Cell, c /= d,
         cell' = MovedCells(cell, c, d),
         used' = MoveCount(Released(used, cell[d]), cell[c])
  PROVE  CellInv'
<1>0. cell \in [Cell -> Content] /\ used = [p \in Resource |-> used[p]] /\ DOMAIN used = Resource
  BY DEF CellInv
<1>1. PICK v, w : v = cell[c] /\ w = cell[d]
  OBVIOUS
<1>2. v \in Content /\ w \in Content
  BY <1>0, <1>1
<1>3. PICK g : Assigned(cell, g, d, v)
  BY DEF Assigned
<1>4. g \in [Cell -> Content] /\ g[d] = v /\ g[c] = v /\ SameBut(cell, g, Cell, d)
  BY <1>0, <1>1, <1>2, <1>3 DEF Assigned, SameBut
<1>5. \A p \in Resource : Count(g, Cell, p) = Count(cell, Cell, p) + One(p, v) - One(p, w)
  BY <1>1, <1>4, CountUpdate, CellFacts
<1>6. PICK x : x = IF v \in Handle THEN None ELSE v
  OBVIOUS
<1>7. Assigned(g, cell', c, x)
  BY <1>0, <1>1, <1>3, <1>4, <1>6 DEF MovedCells, Assigned
<1>8. /\ cell' \in [Cell -> Content] /\ cell'[c] = x /\ SameBut(g, cell', Cell, c)
  BY <1>2, <1>4, <1>6, <1>7, CellFacts DEF Assigned, SameBut
<1>9. \A p \in Resource : Count(cell', Cell, p) = Count(g, Cell, p) + One(p, x) - One(p, v)
  BY <1>4, <1>8, CountUpdate, CellFacts
<1>10. PICK n : n = Released(used, w)
  OBVIOUS
<1>11. DOMAIN n = Resource /\ \A p \in Resource : n[p] = used[p] - One(p, w)
  BY <1>0, <1>10, CellCounts DEF Released, One
<1>12. used' = MoveCount(n, v)
  BY <1>1, <1>10
<1>13. /\ used' = [p \in Resource |-> used'[p]]
       /\ \A p \in Resource : used'[p] = IF v \in Token THEN n[p] + One(p, v) ELSE n[p]
  <2>1. CASE v \in Token
    BY <1>11, <1>12, <2>1, CellCounts DEF MoveCount, Counted, One
  <2>2. CASE v \notin Token
    BY <1>10, <1>11, <1>12, <2>2 DEF MoveCount, Released
  <2>3. QED BY <2>1, <2>2
<1>14. ASSUME NEW p \in Resource
       PROVE  /\ used'[p] = Count(cell', Cell, p)
              /\ p \in Handle => used'[p] <= used[p]
  <2>1. used[p] = Count(cell, Cell, p) /\ used[p] \in Nat
    BY CellCounts
  <2>2. One(p, v) \in Nat /\ One(p, w) \in Nat /\ One(p, x) \in Nat
    BY DEF One
  <2>3. Count(cell', Cell, p) = used[p] - One(p, w) + One(p, x)
    BY <1>5, <1>9, <2>1, <2>2
  <2>4. CASE v \in Token
    <3>1. x = v /\ (p \in Handle => One(p, v) = 0)
      BY <1>6, <2>4, ResultAssumption DEF One
    <3>2. QED BY <1>11, <1>13, <2>1, <2>2, <2>3, <2>4, <3>1
  <2>5. CASE v \notin Token
    <3>1. One(p, x) = 0
      BY <1>2, <1>6, <2>5, CellFacts DEF One, Content, Resource
    <3>2. QED BY <1>11, <1>13, <2>1, <2>2, <2>3, <2>5, <3>1
  <2>6. QED BY <2>4, <2>5
<1>15. \A h \in Handle : used'[h] <= 1
  <2>1. \A h \in Handle : h \in Resource /\ used[h] <= 1 /\ used[h] \in Nat
    BY CellFacts, CellCounts DEF CellInv
  <2>2. \A h \in Handle : used'[h] \in Nat
    BY <1>14, <2>1, CountType, CellFacts
  <2>3. QED BY <1>14, <2>1, <2>2
<1>16. QED BY <1>8, <1>13, <1>14, <1>15 DEF CellInv

(* which cells a move changes *)
LEMMA MovedFacts ==
  ASSUME CellInv, NEW c \in Cell, NEW d \in Cell, c /= d, cell' = MovedCells(cell, c, d)
  PROVE  /\ cell'[d] = cell[c] /\ \A x \in Cell \ {c, d} : cell'[x] = cell[x]
         /\ cell'[c] = Dead <=> cell[c] = Dead
<1>1. cell \in [Cell -> Content]
  BY DEF CellInv
<1>2. /\ cell'[d] = cell[c] /\ \A x \in Cell \ {c, d} : cell'[x] = cell[x]
      /\ cell'[c] = IF cell[c] \in Handle THEN None ELSE cell[c]
  BY <1>1 DEF MovedCells
<1>3. QED BY <1>2, CellFacts

(* a destructor of nothing, and of what a Result holds *)
LEMMA ReleasedFacts ==
  ASSUME CellInv
  PROVE  /\ \A p : p \notin Resource => Released(used, p) = used
         /\ \A p : /\ DOMAIN Released(used, p) = Resource
                   /\ Released(used, p) = [q \in Resource |-> Released(used, p)[q]]
                   /\ \A q \in Resource : Released(used, p)[q] = used[q] - One(q, p)
         /\ ResultInv => \A r \in Results : DestroyValueIfExists(r) = Released(used, cell[r])
<1>1. used = [q \in Resource |-> used[q]] /\ DOMAIN used = Resource
  BY DEF CellInv
<1>2. \A p : p \notin Resource => Released(used, p) = used
  BY <1>1 DEF Released
<1>3. ASSUME NEW p
      PROVE  /\ DOMAIN Released(used, p) = Resource
             /\ Released(used, p) = [q \in Resource |-> Released(used, p)[q]]
             /\ \A q \in Resource : Released(used, p)[q] = used[q] - One(q, p)
  BY <1>1, CellCounts DEF Released, One
<1>4. ResultInv => \A r \in Results : DestroyValueIfExists(r) = Released(used, cell[r])
  BY <1>2, CellFacts DEF DestroyValueIfExists, ResultInv
<1>5. QED BY <1>2, <1>3, <1>4

LEMMA AbsentIsDead ==
  ASSUME ResultInv, NEW r \in Results, ~Exists(r)
  PROVE  cell[r] = Dead
BY ResultAssumption DEF ResultInv, Exists, HasValue, Errors

LEMMA OkResultStep ==
  ASSUME CellInv, ResultInv, NEW r \in Results, NEW q \in Requests, OkResult(r, q)
  PROVE  CellInv' /\ ResultInv'
<1>1. /\ r \in Cell /\ q \in Cell /\ q /= r /\ q \notin Results
      /\ cell[q] /= Dead /\ cell[r] = Dead
      /\ error' = [error EXCEPT ![r] = "none"]
      /\ cell' = MovedCells(cell, q, r) /\ used' = MoveCount(used, cell[q])
  <2>1. cell[r] = Dead
    BY AbsentIsDead DEF OkResult
  <2>2. QED BY <2>1, CellFacts DEF OkResult
<1>2. CellInv'
  <2>1. Released(used, cell[r]) = used
    BY <1>1, ReleasedFacts, CellFacts
  <2>2. QED BY <1>1, <2>1, CellMove
<1>3. /\ cell'[r] = cell[q] /\ \A x \in Cell \ {q, r} : cell'[x] = cell[x]
  BY <1>1, MovedFacts
<1>4. ResultInv'
  BY <1>1, <1>3, CellFacts DEF ResultInv, HasValue, Errors
<1>5. QED BY <1>2, <1>4

LEMMA UnwrapStep ==
  ASSUME CellInv, ResultInv, NEW r \in Results, NEW q \in Requests, Unwrap(r, q)
  PROVE  CellInv' /\ ResultInv'
<1>1. /\ r \in Cell /\ q \in Cell /\ q /= r /\ q \notin Results
      /\ cell[q] = Dead /\ cell[r] \notin Token
      /\ cell' = MovedCells(cell, r, q) /\ error' = error /\ used' = used
  BY CellFacts DEF Unwrap
<1>2. CellInv'
  <2>1. Released(used, cell[q]) = used
    BY <1>1, ReleasedFacts, CellFacts
  <2>2. MoveCount(used, cell[r]) = used
    BY <1>1 DEF MoveCount
  <2>3. QED BY <1>1, <2>1, <2>2, CellMove
<1>3. /\ cell'[r] = Dead <=> cell[r] = Dead
      /\ \A x \in Cell \ {q, r} : cell'[x] = cell[x]
  BY <1>1, MovedFacts
<1>4. ResultInv'
  BY <1>1, <1>3, CellFacts DEF ResultInv, HasValue
<1>5. QED BY <1>2, <1>4

(* construction and assignment by move: n is used with what r held released *)
LEMMA MoveImplStep ==
  ASSUME CellInv, ResultInv, NEW r \in Results, NEW s \in Results, r /= s, Exists(s),
         MoveImpl(r, s, Released(used, cell[r]))
  PROVE  CellInv' /\ ResultInv'
<1>1. r \in Cell /\ s \in Cell /\ error' = [error EXCEPT ![r] = error[s]]
  BY CellFacts DEF MoveImpl
<1>2. CASE HasValue(s)
  <2>1. /\ cell' = MovedCells(cell, s, r)
        /\ used' = MoveCount(Released(used, cell[r]), cell[s])
    BY <1>2 DEF MoveImpl
  <2>2. CellInv'
    BY <1>1, <2>1, CellMove
  <2>3. /\ cell'[r] = cell[s] /\ (cell'[s] = Dead <=> cell[s] = Dead)
        /\ \A x \in Cell \ {s, r} : cell'[x] = cell[x]
    BY <1>1, <2>1, MovedFacts
  <2>4. ResultInv'
    BY <1>1, <1>2, <2>3, CellFacts DEF ResultInv, HasValue
  <2>5. QED BY <2>2, <2>4
<1>3. CASE ~HasValue(s)
  <2>1. cell' = [cell EXCEPT ![r] = Dead] /\ used' = Released(used, cell[r])
    BY <1>3 DEF MoveImpl
  <2>2. CellInv'
    <3>1. \A p \in Resource : One(p, Dead) = 0 /\ used[p] \in Int /\ One(p, cell[r]) \in Int
      BY CellFacts, CellCounts DEF One
    <3>2. /\ DOMAIN used' = Resource /\ used' = [p \in DOMAIN used' |-> used'[p]]
          /\ \A p \in Resource : used'[p] = used[p] + One(p, Dead) - One(p, cell[r])
      BY <2>1, <3>1, ReleasedFacts
    <3>3. Assigned(cell, cell', r, Dead)
      BY <2>1 DEF Assigned
    <3>4. QED BY <1>1, <3>2, <3>3, CellSet, CellFacts
  <2>3. cell'[r] = Dead /\ \A x \in Cell \ {r} : cell'[x] = cell[x]
    BY <1>1, <2>1 DEF CellInv
  <2>4. ResultInv'
    BY <1>1, <1>3, <2>3, CellFacts DEF ResultInv, HasValue
  <2>5. QED BY <2>2, <2>4
<1>4. QED BY <1>2, <1>3

LEMMA CopyImplStep ==
  ASSUME CellInv, ResultInv, NEW r \in Results, NEW s \in Results, r /= s, Exists(s),
         CopyImpl(r, s, Released(used, cell[r]))
  PROVE  CellInv' /\ ResultInv'
<1>1. /\ r \in Cell /\ s \in Cell /\ error' = [error EXCEPT ![r] = error[s]]
      /\ HasValue(s) => cell[s] \in Token
      /\ cell' = [cell EXCEPT ![r] = cell[s]]
      /\ used' = Counted(Released(used, cell[r]), cell[s])
  BY CellFacts DEF CopyImpl
<1>2. PICK v : v = cell[s]
  OBVIOUS
<1>3. v \in Content /\ v \notin Handle
  BY <1>1, <1>2, CellFacts, ResultAssumption DEF ResultInv, CellInv
<1>4. CellInv'
  <2>1. Assigned(cell, cell', r, v)
    BY <1>1, <1>2 DEF Assigned
  <2>2. PICK n : n = Released(used, cell[r])
    OBVIOUS
  <2>3. DOMAIN n = Resource /\ \A p \in Resource : n[p] = used[p] - One(p, cell[r])
    BY <2>2, ReleasedFacts
  <2>4. used' = Counted(n, v)
    BY <1>1, <1>2, <2>2
  <2>5. ASSUME NEW p \in Resource
        PROVE  used'[p] = used[p] + One(p, v) - One(p, cell[r])
    <3>1. used[p] \in Nat
      BY CellCounts
    <3>2. One(p, cell[r]) \in Int /\ One(p, v) = IF p = v THEN 1 ELSE 0
      BY DEF One
    <3>3. used'[p] = IF p = v THEN n[p] + 1 ELSE n[p]
      BY <2>3, <2>4 DEF Counted
    <3>4. QED BY <2>3, <3>1, <3>2, <3>3
  <2>6. DOMAIN used' = Resource /\ used' = [p \in DOMAIN used' |-> used'[p]]
    BY <2>3, <2>4 DEF Counted
  <2>7. QED BY <1>1, <1>3, <2>1, <2>5, <2>6, CellSet
<1>5. cell'[r] = cell[s] /\ \A x \in Cell \ {r} : cell'[x] = cell[x]
  BY <1>1 DEF CellInv
<1>6. ResultInv'
  BY <1>1, <1>5, CellFacts DEF ResultInv, HasValue
<1>7. QED BY <1>4, <1>6

(* a cell that holds nothing gets a resource that nothing owns *)
LEMMA CellGain ==
  ASSUME CellInv, NEW c \in Cell, NEW v \in Resource, cell[c] = Dead, used[v] = 0,
         cell' = [cell EXCEPT ![c] = v], used' = [used EXCEPT ![v] = 1]
  PROVE  CellInv' /\ cell'[c] = v /\ \A x \in Cell \ {c} : cell'[x] = cell[x]
<1>1. Assigned(cell, cell', c, v)
  BY DEF Assigned
<1>2. DOMAIN used = Resource
  BY DEF CellInv
<1>3. DOMAIN used' = Resource /\ used' = [p \in DOMAIN used' |-> used'[p]]
  BY <1>2
<1>4. ASSUME NEW p \in Resource
      PROVE  used'[p] = used[p] + One(p, v) - One(p, cell[c])
  <2>1. used[p] \in Nat
    BY CellCounts
  <2>2. One(p, cell[c]) = 0 /\ One(p, v) = IF p = v THEN 1 ELSE 0
    BY CellFacts DEF One
  <2>3. used'[p] = IF p = v THEN 1 ELSE used[p]
    BY <1>2
  <2>4. QED BY <2>1, <2>2, <2>3
<1>5. v \in Content
  BY DEF Content
<1>6. CellInv'
  BY <1>1, <1>3, <1>4, <1>5, CellSet
<1>7. QED BY <1>6 DEF CellInv

(* a destructor *)
LEMMA CellDrop ==
  ASSUME CellInv, NEW c \in Cell,
         cell' = [cell EXCEPT ![c] = Dead], used' = Released(used, cell[c])
  PROVE  CellInv' /\ cell'[c] = Dead /\ \A x \in Cell \ {c} : cell'[x] = cell[x]
<1>1. Assigned(cell, cell', c, Dead)
  BY DEF Assigned
<1>2. \A p \in Resource : One(p, Dead) = 0 /\ used[p] \in Int /\ One(p, cell[c]) \in Int
  BY CellFacts, CellCounts DEF One
<1>3. /\ DOMAIN used' = Resource /\ used' = [p \in DOMAIN used' |-> used'[p]]
      /\ \A p \in Resource : used'[p] = used[p] + One(p, Dead) - One(p, cell[c])
  BY <1>2, ReleasedFacts
<1>4. CellInv'
  BY <1>1, <1>3, CellSet, CellFacts
<1>5. QED BY <1>4 DEF CellInv

LEMMA FailStep ==
  ASSUME CellInv, ResultInv, NEW r \in Results, NEW e \in Errors \ {"none"},
         ~Exists(r), error' = [error EXCEPT ![r] = e], UNCHANGED <<cell, used>>
  PROVE  CellInv' /\ ResultInv'
<1>1. cell[r] = Dead
  BY AbsentIsDead
<1>2. CellInv'
  BY DEF CellInv
<1>3. ResultInv'
  BY <1>1 DEF ResultInv, HasValue
<1>4. QED BY <1>2, <1>3

LEMMA DestroyResultStep ==
  ASSUME CellInv, ResultInv, NEW r \in Results, DestroyResult(r)
  PROVE  CellInv' /\ ResultInv' /\ \A x \in Cell \ {r} : cell'[x] = cell[x]
<1>1. /\ r \in Cell /\ used' = Released(used, cell[r])
      /\ cell' = [cell EXCEPT ![r] = Dead] /\ error' = [error EXCEPT ![r] = Absent]
  BY ReleasedFacts, CellFacts DEF DestroyResult
<1>2. CellInv' /\ cell'[r] = Dead /\ \A x \in Cell \ {r} : cell'[x] = cell[x]
  BY <1>1, CellDrop
<1>3. ResultInv'
  BY <1>1, <1>2, CellFacts, ResultAssumption DEF ResultInv, HasValue, Errors
<1>4. QED BY <1>2, <1>3

(* constructors and assignments between two Results *)
LEMMA BetweenResults ==
  ASSUME CellInv, ResultInv, NEW r \in Results, NEW s \in Results,
         \/ MoveResult(r, s) \/ MoveAssignResult(r, s)
         \/ CopyResult(r, s) \/ CopyAssignResult(r, s)
  PROVE  CellInv' /\ ResultInv' /\ \A c \in Others : cell'[c] = cell[c]
<1>1. r /= s /\ Exists(s) /\ r \in Cell /\ s \in Cell
      /\ \A c \in Others : c \in Cell /\ c /= r /\ c /= s
  BY CellFacts, ResultAssumption
     DEF MoveResult, MoveAssignResult, CopyResult, CopyAssignResult, Cell
<1>2. PICK n : n = Released(used, cell[r])
  OBVIOUS
<1>3. MoveImpl(r, s, n) \/ CopyImpl(r, s, n)
  <2>1. CASE MoveResult(r, s) \/ CopyResult(r, s)
    <3>1. n = used
      BY <1>2, <2>1, AbsentIsDead, ReleasedFacts, CellFacts DEF MoveResult, CopyResult
    <3>2. QED BY <2>1, <3>1 DEF MoveResult, CopyResult
  <2>2. CASE MoveAssignResult(r, s) \/ CopyAssignResult(r, s)
    <3>1. n = DestroyValueIfExists(r)
      BY <1>2, ReleasedFacts
    <3>2. QED BY <2>2, <3>1 DEF MoveAssignResult, CopyAssignResult
  <2>3. QED BY <2>1, <2>2
<1>4. CASE MoveImpl(r, s, n)
  <2>1. CellInv' /\ ResultInv'
    BY <1>1, <1>2, <1>4, MoveImplStep
  <2>2. cell' = MovedCells(cell, s, r) \/ cell' = [cell EXCEPT ![r] = Dead]
    BY <1>4 DEF MoveImpl
  <2>3. \A c \in Others : cell'[c] = cell[c]
    BY <1>1, <2>2, MovedFacts DEF CellInv
  <2>4. QED BY <2>1, <2>3
<1>5. CASE CopyImpl(r, s, n)
  <2>1. CellInv' /\ ResultInv'
    BY <1>1, <1>2, <1>5, CopyImplStep
  <2>2. \A c \in Others : cell'[c] = cell[c]
    BY <1>1, <1>5 DEF CopyImpl, CellInv
  <2>3. QED BY <2>1, <2>2
<1>6. QED BY <1>3, <1>4, <1>5

LEMMA ResultStepKeeps ==
  ASSUME HttpInv, ResultStep
  PROVE  CellInv' /\ ResultInv' /\ OwnerInv'
<1>1. CellInv /\ ResultInv /\ OwnerInv
  BY DEF HttpInv
<1>2. \A c \in Others : c \in Cell /\ c \notin Results
  BY ResultAssumption DEF Cell
<1>3. PICK r \in Results :
        \/ \E q \in Requests : OkResult(r, q) \/ Unwrap(r, q)
        \/ \E s \in Results : \/ MoveResult(r, s) \/ MoveAssignResult(r, s)
                              \/ CopyResult(r, s) \/ CopyAssignResult(r, s)
                              \/ PropagateError(r, s)
        \/ DestroyResult(r)
  BY DEF ResultStep
<1>4. ASSUME NEW q \in Requests, OkResult(r, q)
      PROVE  CellInv' /\ ResultInv' /\ OwnerInv'
  <2>1. CellInv' /\ ResultInv'
    BY <1>1, <1>4, OkResultStep
  <2>2. cell' = MovedCells(cell, q, r) /\ q \in Others
    BY <1>4, HttpAssumption DEF OkResult
  <2>3. \A c \in Others : cell'[c] \in {cell[c], None}
    BY <1>1, <1>2, <2>2 DEF MovedCells, CellInv
  <2>4. OwnerInv'
    BY <1>1, <2>3, CellFacts DEF OwnerInv
  <2>5. QED BY <2>1, <2>4
<1>5. ASSUME NEW q \in Requests, Unwrap(r, q)
      PROVE  CellInv' /\ ResultInv' /\ OwnerInv'
  <2>1. CellInv' /\ ResultInv'
    BY <1>1, <1>5, UnwrapStep
  <2>2. cell' = MovedCells(cell, r, q) /\ cell[r] \notin Token
    BY <1>5 DEF Unwrap
  <2>3. \A c \in Others : cell'[c] \in {cell[c], cell[r]}
    BY <1>1, <1>2, <2>2 DEF MovedCells, CellInv
  <2>4. OwnerInv'
    BY <1>1, <2>2, <2>3 DEF OwnerInv
  <2>5. QED BY <2>1, <2>4
<1>6. ASSUME NEW s \in Results,
             \/ MoveResult(r, s) \/ MoveAssignResult(r, s)
             \/ CopyResult(r, s) \/ CopyAssignResult(r, s)
      PROVE  CellInv' /\ ResultInv' /\ OwnerInv'
  <2>1. CellInv' /\ ResultInv' /\ \A c \in Others : cell'[c] = cell[c]
    BY <1>1, <1>6, BetweenResults
  <2>2. QED BY <1>1, <2>1 DEF OwnerInv
<1>7. ASSUME NEW s \in Results, PropagateError(r, s)
      PROVE  CellInv' /\ ResultInv' /\ OwnerInv'
  <2>1. /\ ~Exists(r) /\ error[s] \in Errors \ {"none"}
        /\ error' = [error EXCEPT ![r] = error[s]] /\ UNCHANGED <<cell, used>>
    BY <1>1, <1>7 DEF PropagateError, FailResult, Exists, HasValue, ResultInv
  <2>2. CellInv' /\ ResultInv'
    BY <1>1, <2>1, FailStep
  <2>3. QED BY <1>1, <2>1, <2>2 DEF OwnerInv
<1>8. CASE DestroyResult(r)
  <2>1. CellInv' /\ ResultInv' /\ \A x \in Cell \ {r} : cell'[x] = cell[x]
    BY <1>1, <1>8, DestroyResultStep
  <2>2. QED BY <1>1, <1>2, <2>1 DEF OwnerInv
<1>9. QED BY <1>3, <1>4, <1>5, <1>6, <1>7, <1>8

(* a step that constructs, moves or destroys a T outside the Results *)
LEMMA OwnerSteps ==
  ASSUME HttpInv, UNCHANGED error,
         \/ \E c \in {Builder, Local} : CurlEasyInit(c)
         \/ \E c \in Requests \cup {Builder, Local} : CurlEasyCleanup(c)
         \/ \E q \in Requests : Build(q)
         \/ \E q \in Requests, p \in Requests : MoveRequest(q, p)
         \/ \E q \in Requests, p \in Requests : MoveAssignRequest(q, p)
  PROVE  CellInv' /\ ResultInv' /\ OwnerInv'
<1>1. CellInv /\ ResultInv /\ OwnerInv
  BY DEF HttpInv
<1>2. \A c \in Requests \cup {Builder, Local} : c \in Others /\ c \in Cell /\ c \notin Results
  BY ResultAssumption, HttpAssumption DEF Cell
<1>3. SUFFICES CellInv' /\ OwnerInv' /\ \A r \in Results : cell'[r] = cell[r]
  BY <1>1 DEF ResultInv, HasValue
<1>4. \A c \in Others : c \in Cell
  BY DEF Cell
<1>5. ASSUME NEW c \in {Builder, Local}, CurlEasyInit(c)
      PROVE  CellInv' /\ OwnerInv' /\ \A r \in Results : cell'[r] = cell[r]
  <2>1. PICK h \in Handle : /\ cell[c] = Dead /\ used[h] = 0
                            /\ cell' = [cell EXCEPT ![c] = h] /\ used' = [used EXCEPT ![h] = 1]
    BY <1>5 DEF CurlEasyInit
  <2>2. CellInv' /\ cell'[c] = h /\ \A x \in Cell \ {c} : cell'[x] = cell[x]
    BY <1>1, <1>2, <2>1, CellGain, CellFacts
  <2>3. OwnerInv'
    BY <1>1, <1>4, <2>2, ResultAssumption DEF OwnerInv
  <2>4. QED BY <1>2, <2>2, <2>3, CellFacts
<1>6. ASSUME NEW c \in Requests \cup {Builder, Local}, CurlEasyCleanup(c)
      PROVE  CellInv' /\ OwnerInv' /\ \A r \in Results : cell'[r] = cell[r]
  <2>1. CellInv' /\ cell'[c] = Dead /\ \A x \in Cell \ {c} : cell'[x] = cell[x]
    BY <1>1, <1>2, <1>6, CellDrop DEF CurlEasyCleanup
  <2>2. OwnerInv'
    BY <1>1, <1>4, <2>1, CellFacts DEF OwnerInv
  <2>3. QED BY <1>2, <2>1, <2>2, CellFacts
<1>7. ASSUME NEW p \in Requests \cup {Builder}, NEW q \in Requests, p /= q,
             cell[q] = Dead, cell' = MovedCells(cell, p, q), used' = used
      PROVE  CellInv' /\ OwnerInv' /\ \A r \in Results : cell'[r] = cell[r]
  <2>1. p \in Cell /\ q \in Cell /\ cell[p] \notin Token
    BY <1>1, <1>2 DEF OwnerInv
  <2>2. Released(used, cell[q]) = used
    BY <1>1, <1>7, ReleasedFacts, CellFacts
  <2>3. MoveCount(used, cell[p]) = used
    BY <2>1 DEF MoveCount
  <2>4. CellInv'
    BY <1>1, <1>7, <2>1, <2>2, <2>3, CellMove
  <2>5. \A x \in Cell : cell'[x] \in {cell[x], cell[p], None}
    BY <1>1, <1>7, <2>1 DEF MovedCells, CellInv
  <2>6. OwnerInv'
    BY <1>1, <1>4, <2>1, <2>5, CellFacts DEF OwnerInv
  <2>7. \A r \in Results : r \in Cell \ {p, q}
    BY <1>2, CellFacts
  <2>8. QED BY <1>1, <1>7, <2>1, <2>4, <2>6, <2>7, MovedFacts
<1>8. ASSUME NEW q \in Requests, Build(q)
      PROVE  CellInv' /\ OwnerInv' /\ \A r \in Results : cell'[r] = cell[r]
  BY <1>7, <1>8, HttpAssumption DEF Build
<1>9. ASSUME NEW q \in Requests, NEW p \in Requests, MoveRequest(q, p)
      PROVE  CellInv' /\ OwnerInv' /\ \A r \in Results : cell'[r] = cell[r]
  BY <1>7, <1>9 DEF MoveRequest
<1>10. ASSUME NEW q \in Requests, NEW p \in Requests, MoveAssignRequest(q, p)
       PROVE  CellInv' /\ OwnerInv' /\ \A r \in Results : cell'[r] = cell[r]
  <2>1. /\ q /= p /\ q \in Cell /\ p \in Cell /\ used' = used
        /\ cell' = [cell EXCEPT ![q] = cell[p], ![p] = cell[q]]
    BY <1>2, <1>10 DEF MoveAssignRequest
  <2>2. cell \in [Cell -> Content] /\ used = [x \in Resource |-> used[x]]
    BY <1>1 DEF CellInv
  <2>3. PICK v, w, g : v = cell[p] /\ w = cell[q] /\ Assigned(cell, g, q, v)
    BY DEF Assigned
  <2>4. v \in Content /\ w \in Content
    BY <2>1, <2>2, <2>3
  <2>5. g \in [Cell -> Content] /\ g[q] = v /\ g[p] = v /\ SameBut(cell, g, Cell, q)
    BY <2>1, <2>2, <2>3, <2>4 DEF Assigned, SameBut
  <2>6. Assigned(g, cell', p, w)
    BY <2>1, <2>2, <2>3 DEF Assigned
  <2>7. cell' \in [Cell -> Content] /\ cell'[p] = w /\ SameBut(g, cell', Cell, p)
    BY <2>1, <2>4, <2>5, <2>6 DEF Assigned, SameBut
  <2>8. ASSUME NEW x \in Resource
        PROVE  used'[x] = Count(cell', Cell, x)
    <3>1. Count(g, Cell, x) = Count(cell, Cell, x) + One(x, v) - One(x, w)
      BY <2>1, <2>2, <2>3, <2>5, CountUpdate, CellFacts
    <3>2. Count(cell', Cell, x) = Count(g, Cell, x) + One(x, cell'[p]) - One(x, g[p])
      BY <1>2, <2>7, CountUpdate, CellFacts
    <3>3. used[x] = Count(cell, Cell, x) /\ used[x] \in Nat
      BY <1>1, CellCounts
    <3>4. One(x, v) \in Nat /\ One(x, w) \in Nat
      BY DEF One
    <3>5. QED BY <2>1, <2>5, <2>7, <3>1, <3>2, <3>3, <3>4
  <2>9. CellInv'
    BY <1>1, <2>1, <2>2, <2>7, <2>8 DEF CellInv
  <2>10. \A x \in Cell : cell'[x] \in {cell[x], v, w}
    BY <2>1, <2>2, <2>3
  <2>11. OwnerInv'
    BY <1>1, <1>2, <1>4, <2>3, <2>10 DEF OwnerInv
  <2>12. QED BY <1>2, <2>1, <2>2, <2>9, <2>11, CellFacts
<1>11. QED BY <1>5, <1>6, <1>8, <1>9, <1>10

(* the end of Parse: the response is constructed in the Result of the call *)
LEMMA ParseEndsStep ==
  ASSUME HttpInv, ParseEnds
  PROVE  CellInv' /\ ResultInv' /\ OwnerInv'
<1>1. CellInv /\ ResultInv /\ OwnerInv /\ CallInv
  BY DEF HttpInv
<1>2. PICK r : r = call.to
  OBVIOUS
<1>3. r \in Results /\ r \in Cell /\ cell[r] = Dead
  BY <1>1, <1>2, AbsentIsDead, CellFacts DEF CallInv, ParseEnds
<1>4. PICK m \in Token : /\ used[m] = 0 /\ cell' = [cell EXCEPT ![r] = m]
                         /\ used' = [used EXCEPT ![m] = 1]
  BY <1>2 DEF ParseEnds
<1>5. CellInv' /\ cell'[r] = m /\ \A x \in Cell \ {r} : cell'[x] = cell[x]
  BY <1>1, <1>3, <1>4, CellGain, CellFacts
<1>6. error' = [error EXCEPT ![r] = "none"] /\ m /= Dead
  BY <1>2, CellFacts DEF ParseEnds
<1>7. ResultInv'
  BY <1>1, <1>3, <1>5, <1>6, CellFacts DEF ResultInv, HasValue, Errors
<1>8. OwnerInv'
  BY <1>1, <1>3, <1>5, ResultAssumption DEF OwnerInv, Cell
<1>9. QED BY <1>5, <1>7, <1>8

(* an error stored in a Result that does not exist yet *)
LEMMA ErrorStored ==
  ASSUME HttpInv, NEW r \in Results, NEW e \in {"code", "exception"}, ~Exists(r),
         error' = [error EXCEPT ![r] = e],
         UNCHANGED <<cell, used>> \/ CurlEasyCleanup(Local)
  PROVE  CellInv' /\ ResultInv' /\ OwnerInv'
<1>1. CellInv /\ ResultInv /\ OwnerInv
  BY DEF HttpInv
<1>2. cell[r] = Dead
  BY <1>1, AbsentIsDead
<1>3. CASE UNCHANGED <<cell, used>>
  BY <1>1, <1>3, FailStep DEF OwnerInv, Errors
<1>4. CASE CurlEasyCleanup(Local)
  <2>1. CellInv' /\ cell'[Local] = Dead /\ \A x \in Cell \ {Local} : cell'[x] = cell[x]
    BY <1>1, <1>4, CellDrop, CellFacts DEF CurlEasyCleanup
  <2>2. ResultInv'
    BY <1>1, <1>2, <2>1, CellFacts DEF ResultInv, HasValue, Errors
  <2>3. OwnerInv'
    BY <1>1, <2>1, CellFacts DEF OwnerInv, Cell
  <2>4. QED BY <2>1, <2>2, <2>3
<1>5. QED BY <1>3, <1>4

LEMMA HttpSame ==
  ASSUME HttpInv, UNCHANGED resultVars
  PROVE  CellInv' /\ ResultInv' /\ OwnerInv'
BY DEF HttpInv, CellInv, ResultInv, HasValue, OwnerInv, resultVars

(* the invariant of Results and requests is inductive *)
LEMMA HttpStep ==
  ASSUME HttpInv, [HttpNext]_<<resultVars, httpVars>>
  PROVE  HttpInv'
<1>1. CellInv /\ ResultInv /\ OwnerInv /\ CallInv
  BY DEF HttpInv
<1>2. ASSUME Ready, UNCHANGED httpVars
      PROVE  CallInv'
  BY <1>2 DEF Ready, CallInv, httpVars
<1>3. CASE NewBuilder
  BY <1>2, <1>3, OwnerSteps DEF NewBuilder, HttpInv
<1>4. CASE ResultStep
  BY <1>2, <1>4, ResultStepKeeps DEF ResultStep, HttpInv
<1>5. ASSUME NEW q \in Requests, Build(q)
      PROVE  HttpInv'
  BY <1>2, <1>5, OwnerSteps DEF Build, HttpInv
<1>6. ASSUME NEW q \in Requests, NEW p \in Requests, MoveRequest(q, p)
      PROVE  HttpInv'
  BY <1>2, <1>6, OwnerSteps DEF MoveRequest, HttpInv
<1>7. ASSUME NEW q \in Requests, NEW p \in Requests, MoveAssignRequest(q, p)
      PROVE  HttpInv'
  BY <1>2, <1>7, OwnerSteps DEF MoveAssignRequest, HttpInv
<1>8. ASSUME NEW c \in Requests \cup {Builder}, DestroyOwner(c)
      PROVE  HttpInv'
  BY <1>2, <1>8, OwnerSteps DEF DestroyOwner, HttpInv
<1>9. ASSUME NEW r \in Results, NEW q \in Requests, RunMoved(q, r)
      PROVE  HttpInv'
  BY <1>2, <1>9, ErrorStored DEF RunMoved, FailResult, HttpInv
<1>10. ASSUME NEW r \in Results, NEW by, NEW eol, StartPerform(by, r, eol)
       PROVE  CallInv' /\ error' = error
  BY <1>10 DEF StartPerform, CallInv, Exists
<1>11. ASSUME NEW r \in Results, NEW eol \in LineEnds, Get(r, eol)
       PROVE  HttpInv'
  BY <1>10, <1>11, OwnerSteps DEF Get, HttpInv
<1>12. ASSUME NEW r \in Results, NEW eol \in LineEnds, NEW q \in Requests, Run(q, r, eol)
       PROVE  HttpInv'
  <2>1. CallInv' /\ UNCHANGED resultVars
    BY <1>10, <1>12 DEF Run, resultVars
  <2>2. QED BY <2>1, HttpSame DEF HttpInv
<1>13. CASE WriteHeader
  <2>1. UNCHANGED resultVars /\ call' = call
    BY <1>13 DEF WriteHeader
  <2>2. CallInv'
    BY <1>1, <2>1 DEF CallInv, Exists, resultVars
  <2>3. QED BY <2>1, <2>2, HttpSame DEF HttpInv
<1>14. CASE RunFails \/ GetFails
  <2>1. PICK r, e : r = call.to /\ e \in {"code", "exception"} /\ Fails(e)
    BY <1>14 DEF RunFails, GetFails
  <2>2. /\ r \in Results /\ ~Exists(r) /\ error' = [error EXCEPT ![r] = e]
        /\ UNCHANGED <<cell, used>> \/ CurlEasyCleanup(Local)
    BY <1>1, <1>14, <2>1 DEF RunFails, GetFails, Fails, CallInv
  <2>3. CellInv' /\ ResultInv' /\ OwnerInv'
    BY <2>1, <2>2, ErrorStored
  <2>4. CallInv'
    BY <2>1 DEF Fails, CallInv, Idle
  <2>5. QED BY <2>3, <2>4 DEF HttpInv
<1>15. CASE RunParse \/ GetParse
  <2>1. /\ call.at = "perform" /\ call' = [call EXCEPT !.at = "parse"] /\ error' = error
        /\ UNCHANGED <<cell, used>> \/ CurlEasyCleanup(Local)
    BY <1>15 DEF RunParse, GetParse, Parse
  <2>2. CellInv' /\ ResultInv' /\ OwnerInv'
    BY <2>1, OwnerSteps, HttpSame DEF resultVars
  <2>3. call'.to = call.to /\ call'.at = "parse"
    BY <1>1, <2>1 DEF CallInv
  <2>4. CallInv'
    BY <1>1, <2>1, <2>3 DEF CallInv, Exists
  <2>5. QED BY <2>2, <2>4 DEF HttpInv
<1>16. CASE ParseField
  <2>1. UNCHANGED resultVars
    BY <1>16 DEF ParseField
  <2>2. CASE call' = call
    <3>1. CallInv'
      BY <1>1, <2>1, <2>2 DEF CallInv, Exists, resultVars
    <3>2. QED BY <2>1, <3>1, HttpSame DEF HttpInv
  <2>3. CASE call' = [call EXCEPT !.at = "assert"]
    <3>1. CallInv'
      BY <1>1, <2>3 DEF CallInv
    <3>2. QED BY <2>1, <3>1, HttpSame DEF HttpInv
  <2>4. QED BY <1>16, <2>2, <2>3 DEF ParseField
<1>17. CASE ParseEnds
  <2>1. call' = [call EXCEPT !.at = "parsed"]
    BY <1>17 DEF ParseEnds
  <2>2. CallInv'
    BY <1>1, <2>1 DEF CallInv
  <2>3. QED BY <1>17, <2>2, ParseEndsStep DEF HttpInv
<1>18. CASE Return
  <2>1. UNCHANGED resultVars /\ call' = Idle
    BY <1>18 DEF Return
  <2>2. CallInv'
    BY <2>1 DEF CallInv, Idle
  <2>3. QED BY <2>1, <2>2, HttpSame DEF HttpInv
<1>19. CASE Aborted \/ UNCHANGED <<resultVars, httpVars>>
  <2>1. UNCHANGED resultVars /\ call' = call
    BY <1>19 DEF Aborted, httpVars
  <2>2. CallInv'
    BY <1>1, <2>1 DEF CallInv, Exists, resultVars
  <2>3. QED BY <2>1, <2>2, HttpSame DEF HttpInv
<1>20. QED
  BY <1>3, <1>4, <1>5, <1>6, <1>7, <1>8, <1>9, <1>11, <1>12, <1>13, <1>14, <1>15, <1>16,
     <1>17, <1>18, <1>19 DEF HttpNext

LEMMA HttpStart ==
  ASSUME HttpInit
  PROVE  HttpInv
<1>1. /\ cell = [c \in Cell |-> Dead] /\ error = [r \in Results |-> Absent]
      /\ used = [p \in Resource |-> 0] /\ call.at = "idle"
  BY DEF HttpInit, ResultInit, Resource, Idle
<1>2. \A p \in Resource : Count(cell, Cell, p) = 0
  BY <1>1, CountType, CellFacts
<1>3. CellInv
  BY <1>1, <1>2, CellFacts DEF CellInv
<1>4. ResultInv
  BY <1>1, CellFacts, ResultAssumption DEF ResultInv, HasValue, Errors
<1>5. OwnerInv
  BY <1>1, CellFacts DEF OwnerInv, Cell
<1>6. QED BY <1>1, <1>3, <1>4, <1>5 DEF HttpInv, CallInv

(* Every T of a Result, request or builder is constructed and destroyed    *)
(* exactly once, in every program of result.h and net/http.                *)
THEOREM OwnedExactlyHolds == HttpSpec => []OwnedExactly
<1>1. HttpInit => HttpInv
  BY HttpStart
<1>2. HttpInv /\ [HttpNext]_<<resultVars, httpVars>> => HttpInv'
  BY HttpStep
<1>3. HttpInv => OwnedExactly
  BY OwnedFromInv
<1>4. QED BY <1>1, <1>2, <1>3, PTL DEF HttpSpec

----------------------------------------------------------------------------
(***************************************************************************)
(* Coroutines.  The frames that have resumed one another form a stack st:  *)
(* st[1] is Main and st[i] is inside the Resume of st[i + 1].  The frame   *)
(* that executes is st[m], the top (m = n), or the one below a top that    *)
(* has switched back (m = n - 1).  The pointer of a class is the topmost   *)
(* frame of that class, null when there is none, or one of those that a    *)
(* throwing generator or processor may have left there.                    *)
(***************************************************************************)
Kinds == {"coroutine", "generator", "processor"}

(* v is what the pointer of class k is with n frames on the stack, or in S *)
TopOf(v, st, n, k, S) ==
  \/ \E i \in 2..n : /\ Class(st[i]) = k /\ v = st[i]
                     /\ \A j \in (i + 1)..n : Class(st[j]) /= k
  \/ v = None /\ \A j \in 2..n : Class(st[j]) /= k
  \/ v \in S

NestShape(n, m, st) ==
  /\ n \in Nat /\ m \in Nat /\ 1 <= m /\ m <= n /\ n <= m + 1
  /\ st \in [Nat -> Frame] /\ st[1] = Main
  /\ \A i \in 1..n, j \in 1..n : st[i] = st[j] => i = j

NestLinks(n, m, st) ==
  /\ exec = st[m]
  /\ \A i \in 1..(n - 1) : busy[st[i]].of = st[i + 1] /\ external[st[i + 1]] = st[i]
  /\ \A f \in Frame : \/ \E i \in 1..(n - 1) : f = st[i]
                      \/ busy[f].of = None
                      \/ busy[f].of = f /\ f \in Proc
  /\ \A i \in 1..m : st[i] \notin completed

NestPointers(n, st) ==
  /\ \A i \in 1..(n - 1) :
       TopOf(busy[st[i]].prev, st, i, Class(st[i + 1]), Stale(Class(st[i + 1])))
  /\ \A k \in Kinds : TopOf(current[k], st, n, k, Stale(k))

(* a value is under way in a generator that has switched back with it, and *)
(* in a processor that has been resumed with it                            *)
NestValues(n, m, st) ==
  /\ \A g \in Gen \ completed :
       IF m < n /\ g = st[n] THEN Len(received[g]) + 1 = given[g] /\ value[g] = given[g]
                             ELSE Len(received[g]) = given[g]
  /\ \A p \in Proc \ completed :
       IF hasNext[p]
       THEN /\ Len(received[p]) + 1 = given[p] /\ value[p] = given[p]
            /\ \E i \in 2..m : st[i] = p
       ELSE Len(received[p]) = given[p]

SwitchTypes ==
  /\ context = [c \in Objects |-> c] /\ external \in [Objects -> Frame \cup {None}]
  /\ thrown \subseteq completed /\ completed \subseteq Objects
  /\ current \in [Kinds -> Objects \cup {None}]
  /\ busy \in [Frame -> [of : Objects \cup {None}, prev : Objects \cup {None}]]

ValueTypes ==
  /\ value \in [Objects -> Nat] /\ given \in [Objects -> Nat]
  /\ hasNext \in [Objects -> BOOLEAN] /\ received \in [Objects -> Seq(Nat)]
  /\ \A c \in Objects : \A i \in 1..Len(received[c]) : received[c][i] = i

Nested(n, m, st) ==
  /\ NestShape(n, m, st) /\ NestLinks(n, m, st)
  /\ NestPointers(n, st) /\ NestValues(n, m, st)

CoroutineInv ==
  /\ SwitchTypes /\ ValueTypes
  /\ \E n, m, st : Nested(n, m, st)

LEMMA ClassFacts ==
  /\ Main \notin Objects /\ None \notin Objects /\ None \notin Frame
  /\ Coro \subseteq Objects /\ Gen \subseteq Objects /\ Proc \subseteq Objects
  /\ Objects \subseteq Frame /\ Main \in Frame
  /\ \A f \in Frame : f = Main \/ f \in Objects
  /\ \A c \in Objects : /\ Class(c) \in Kinds
                        /\ c \in Coro <=> Class(c) = "coroutine"
                        /\ c \in Gen <=> Class(c) = "generator"
                        /\ c \in Proc <=> Class(c) = "processor"
BY CoroutineAssumption DEF Objects, Frame, Class, Kinds

LEMMA TopPush ==
  ASSUME NEW n \in Nat, n >= 1, NEW st, NEW t, \A i \in 1..n : t[i] = st[i], NEW S,
         NEW k, NEW v, TopOf(v, st, n, k, S), Class(t[n + 1]) /= k
  PROVE  TopOf(v, t, n + 1, k, S)
<1>1. CASE v = None /\ \A j \in 2..n : Class(st[j]) /= k
  <2>1. \A j \in 2..(n + 1) : Class(t[j]) /= k
    BY <1>1
  <2>2. QED BY <1>1, <2>1 DEF TopOf
<1>2. CASE \E i \in 2..n : /\ Class(st[i]) = k /\ v = st[i]
                           /\ \A j \in (i + 1)..n : Class(st[j]) /= k
  <2>1. PICK i \in 2..n : /\ Class(st[i]) = k /\ v = st[i]
                          /\ \A j \in (i + 1)..n : Class(st[j]) /= k
    BY <1>2
  <2>2. i \in 2..(n + 1) /\ Class(t[i]) = k /\ v = t[i]
    BY <2>1
  <2>3. \A j \in (i + 1)..(n + 1) : Class(t[j]) /= k
    BY <2>1
  <2>4. QED BY <2>2, <2>3 DEF TopOf
<1>3. CASE v \in S
  BY <1>3 DEF TopOf
<1>4. QED BY <1>1, <1>2, <1>3 DEF TopOf

LEMMA TopSame ==
  ASSUME NEW n \in Nat, NEW st, NEW t, \A i \in 1..n : t[i] = st[i], NEW S,
         NEW k, NEW v, TopOf(v, st, n, k, S)
  PROVE  TopOf(v, t, n, k, S)
<1>1. CASE v = None /\ \A j \in 2..n : Class(st[j]) /= k
  <2>1. \A j \in 2..n : Class(t[j]) /= k
    BY <1>1
  <2>2. QED BY <1>1, <2>1 DEF TopOf
<1>2. CASE \E i \in 2..n : /\ Class(st[i]) = k /\ v = st[i]
                           /\ \A j \in (i + 1)..n : Class(st[j]) /= k
  <2>1. PICK i \in 2..n : /\ Class(st[i]) = k /\ v = st[i]
                          /\ \A j \in (i + 1)..n : Class(st[j]) /= k
    BY <1>2
  <2>2. Class(t[i]) = k /\ v = t[i] /\ \A j \in (i + 1)..n : Class(t[j]) /= k
    BY <2>1
  <2>3. QED BY <2>2 DEF TopOf
<1>3. CASE v \in S
  BY <1>3 DEF TopOf
<1>4. QED BY <1>1, <1>2, <1>3 DEF TopOf

LEMMA TopPop ==
  ASSUME NEW n \in Nat, n >= 2, NEW st, NEW S, NEW k, NEW v,
         TopOf(v, st, n, k, S), Class(st[n]) /= k
  PROVE  TopOf(v, st, n - 1, k, S)
<1>1. CASE v = None /\ \A j \in 2..n : Class(st[j]) /= k
  BY <1>1 DEF TopOf
<1>2. CASE \E i \in 2..n : /\ Class(st[i]) = k /\ v = st[i]
                           /\ \A j \in (i + 1)..n : Class(st[j]) /= k
  <2>1. PICK i \in 2..n : /\ Class(st[i]) = k /\ v = st[i]
                          /\ \A j \in (i + 1)..n : Class(st[j]) /= k
    BY <1>2
  <2>2. i \in 2..(n - 1)
    BY <2>1
  <2>3. \A j \in (i + 1)..(n - 1) : Class(st[j]) /= k
    BY <2>1
  <2>4. QED BY <2>1, <2>2, <2>3 DEF TopOf
<1>3. CASE v \in S
  BY <1>3 DEF TopOf
<1>4. QED BY <1>1, <1>2, <1>3 DEF TopOf

LEMMA TopMore ==
  ASSUME NEW n, NEW st, NEW k, NEW v, NEW S, NEW R, TopOf(v, st, n, k, S), S \subseteq R
  PROVE  TopOf(v, st, n, k, R)
BY DEF TopOf

LEMMA TopIs ==
  ASSUME NEW n \in Nat, NEW st, NEW v, NEW S
  PROVE  /\ n >= 2 => TopOf(st[n], st, n, Class(st[n]), S)
         /\ n >= 2 /\ TopOf(v, st, n, Class(st[n]), S) => v \in {st[n]} \cup S
         /\ \A k : TopOf(v, st, 1, k, S) <=> v \in {None} \cup S
<1>1. ASSUME n >= 2
      PROVE  TopOf(st[n], st, n, Class(st[n]), S)
  <2>1. n \in 2..n /\ \A j \in (n + 1)..n : Class(st[j]) /= Class(st[n])
    BY <1>1
  <2>2. QED BY <2>1 DEF TopOf
<1>2. ASSUME n >= 2, TopOf(v, st, n, Class(st[n]), S), v \notin S
      PROVE  v = st[n]
  <2>1. n \in 2..n
    BY <1>2
  <2>2. PICK i \in 2..n : /\ v = st[i]
                          /\ \A j \in (i + 1)..n : Class(st[j]) /= Class(st[n])
    BY <1>2, <2>1 DEF TopOf
  <2>3. i = n
    BY <2>1, <2>2
  <2>4. QED BY <2>2, <2>3
<1>3. \A k : TopOf(v, st, 1, k, S) <=> v \in {None} \cup S
  BY DEF TopOf
<1>4. QED BY <1>1, <1>2, <1>3

(* where the frame that executes is in the stack *)
LEMMA NestFacts ==
  ASSUME SwitchTypes, NEW n, NEW m, NEW st, NestShape(n, m, st), NestLinks(n, m, st)
  PROVE  /\ \A i \in 2..n : st[i] \in Objects
         /\ exec \in Frame /\ exec \notin completed /\ m \in 1..n
         /\ exec /= Main => m >= 2 /\ exec \in Objects
         /\ exec = Main => m = 1
         /\ m < n => m = n - 1 /\ n >= 2 /\ busy[exec].of = st[n] /\ st[n] /= exec
         /\ m = n => busy[exec].of = None \/ (busy[exec].of = exec /\ exec \in Proc)
<1>1. \A i \in 2..n : st[i] \in Objects
  <2>1. \A i \in 2..n : i \in 1..n /\ 1 \in 1..n /\ st[i] \in Frame /\ i /= 1
    BY DEF NestShape
  <2>2. QED BY <2>1, ClassFacts DEF NestShape
<1>2. m \in 1..n /\ exec = st[m] /\ exec \in Frame /\ exec \notin completed
  BY DEF NestShape, NestLinks
<1>3. exec /= Main => m >= 2 /\ exec \in Objects
  BY <1>1, <1>2 DEF NestShape
<1>4. exec = Main => m = 1
  <2>1. m /= 1 => m \in 2..n
    BY <1>2 DEF NestShape
  <2>2. QED BY <1>1, <1>2, <2>1, ClassFacts
<1>5. ASSUME m < n
      PROVE  m = n - 1 /\ n >= 2 /\ busy[exec].of = st[n] /\ st[n] /= exec
  <2>1. m = n - 1 /\ n >= 2 /\ m \in 1..(n - 1) /\ n \in 1..n /\ m + 1 = n /\ m /= n
    BY <1>5 DEF NestShape
  <2>2. busy[exec].of = st[n]
    BY <1>2, <2>1 DEF NestLinks
  <2>3. st[n] /= exec
    BY <1>2, <2>1 DEF NestShape
  <2>4. QED BY <2>1, <2>2, <2>3
<1>6. ASSUME m = n
      PROVE  busy[exec].of = None \/ (busy[exec].of = exec /\ exec \in Proc)
  <2>1. \A i \in 1..(n - 1) : exec /= st[i]
    BY <1>2, <1>6 DEF NestShape
  <2>2. QED BY <1>2, <2>1 DEF NestLinks
<1>7. QED BY <1>1, <1>2, <1>3, <1>4, <1>5, <1>6

(* Resume: c goes on top of the stack *)
LEMMA ResumeNests ==
  ASSUME SwitchTypes, NEW n, NEW m, NEW st, NestShape(n, m, st), NestLinks(n, m, st),
         NestPointers(n, st), NEW c \in Objects, Resume(c)
  PROVE  /\ SwitchTypes' /\ m = n /\ \A i \in 1..n : st[i] /= c
         /\ \E t : /\ NestShape(n + 1, n + 1, t) /\ NestLinks(n + 1, n + 1, t)'
                   /\ NestPointers(n + 1, t)'
                   /\ t[n + 1] = c /\ \A i \in 1..n : t[i] = st[i]
<1>1. /\ \A i \in 2..n : st[i] \in Objects
      /\ exec \in Frame /\ exec = st[n] /\ m = n /\ n \in Nat /\ n >= 1 /\ n \in 1..n
      /\ busy[exec].of = None
  <2>1. busy[exec].of = None
    BY DEF Resume, Free
  <2>2. m = n
    BY <2>1, NestFacts, ClassFacts DEF NestShape
  <2>3. n \in Nat /\ n >= 1 /\ n \in 1..n
    BY DEF NestShape
  <2>4. exec = st[n]
    BY <2>2 DEF NestLinks
  <2>5. QED BY <2>1, <2>2, <2>3, <2>4, NestFacts
<1>2. /\ c \notin completed /\ exec /= c
      /\ current' = [current EXCEPT ![Class(c)] = c]
      /\ busy' = [busy EXCEPT ![exec] = [of |-> c, prev |-> current[Class(c)]]]
      /\ external' = [external EXCEPT ![c] = exec]
      /\ exec' = c /\ UNCHANGED <<context, completed, thrown>>
  BY DEF Resume, SwitchTypes
<1>3. Class(c) \in Kinds /\ current[Class(c)] \in Objects \cup {None}
  BY ClassFacts DEF SwitchTypes
<1>4. SwitchTypes'
  BY <1>1, <1>2, <1>3 DEF SwitchTypes
<1>5. \A i \in 1..n : st[i] /= c
  <2>1. st[1] /= c
    BY ClassFacts DEF NestShape
  <2>2. ASSUME NEW i \in 2..n, st[i] = c
        PROVE  FALSE
    <3>1. i - 1 \in 1..(n - 1) /\ i - 1 \in 1..n /\ i \in 1..n /\ (i - 1) + 1 = i /\ i - 1 /= i
      BY <1>1
    <3>2. busy[st[i - 1]].of = c /\ st[i - 1] /= c /\ st[i - 1] \in Frame
      BY <2>2, <3>1 DEF NestLinks, NestShape
    <3>3. QED BY <3>2 DEF Resume, Active
  <2>3. QED BY <1>1, <2>1, <2>2
<1>6. PICK t : t = [st EXCEPT ![n + 1] = c]
  OBVIOUS
<1>7. t \in [Nat -> Frame] /\ t[n + 1] = c /\ \A i \in 1..n : t[i] = st[i]
  BY <1>1, <1>6, ClassFacts DEF NestShape
<1>8. NestShape(n + 1, n + 1, t)
  <2>1. ASSUME NEW i \in 1..(n + 1), NEW j \in 1..(n + 1), t[i] = t[j]
        PROVE  i = j
    <3>1. CASE i \in 1..n /\ j \in 1..n
      BY <1>7, <2>1, <3>1 DEF NestShape
    <3>2. CASE ~(i \in 1..n /\ j \in 1..n)
      BY <1>1, <1>5, <1>7, <2>1, <3>2
    <3>3. QED BY <3>1, <3>2
  <2>2. t[1] = Main
    BY <1>1, <1>7 DEF NestShape
  <2>3. QED BY <1>1, <1>7, <2>1, <2>2 DEF NestShape
<1>9. NestLinks(n + 1, n + 1, t)'
  <2>1. exec' = t[n + 1]
    BY <1>2, <1>7
  <2>2. ASSUME NEW i \in 1..n
        PROVE  busy'[t[i]].of = t[i + 1] /\ external'[t[i + 1]] = t[i]
    <3>1. CASE i = n
      BY <1>1, <1>2, <1>7, <3>1 DEF SwitchTypes
    <3>2. CASE i /= n
      <4>1. i \in 1..(n - 1) /\ i + 1 \in 1..n
        BY <1>1, <3>2
      <4>2. st[i] /= exec /\ st[i + 1] /= c /\ st[i] \in Frame /\ st[i + 1] \in Objects
        BY <1>1, <1>5, <3>2, <4>1 DEF NestShape
      <4>3. busy[st[i]].of = st[i + 1] /\ external[st[i + 1]] = st[i]
        BY <4>1 DEF NestLinks
      <4>4. QED BY <1>2, <1>7, <4>1, <4>2, <4>3 DEF SwitchTypes
    <3>3. QED BY <3>1, <3>2
  <2>3. ASSUME NEW f \in Frame
        PROVE  \/ \E i \in 1..n : f = t[i]
               \/ busy'[f].of = None
               \/ busy'[f].of = f /\ f \in Proc
    <3>1. CASE f = exec
      BY <1>1, <1>7, <3>1
    <3>2. CASE f /= exec
      <4>1. busy'[f] = busy[f]
        BY <1>2, <3>2 DEF SwitchTypes
      <4>2. (\E i \in 1..(n - 1) : f = st[i]) => \E i \in 1..n : f = t[i]
        BY <1>1, <1>7
      <4>3. QED BY <4>1, <4>2 DEF NestLinks
    <3>3. QED BY <3>1, <3>2
  <2>4. \A i \in 1..(n + 1) : t[i] \notin completed'
    BY <1>1, <1>2, <1>7 DEF NestLinks
  <2>5. (n + 1) - 1 = n
    BY <1>1
  <2>6. QED BY <2>1, <2>2, <2>3, <2>4, <2>5 DEF NestLinks
<1>10. NestPointers(n + 1, t)'
  <2>1. \A k : Stale(k)' = Stale(k)
    BY <1>2 DEF Stale
  <2>2. \A k \in Kinds : TopOf(current[k], st, n, k, Stale(k))
    BY <1>1 DEF NestPointers
  <2>3. ASSUME NEW i \in 1..n
        PROVE  TopOf(busy'[t[i]].prev, t, i, Class(t[i + 1]), Stale(Class(t[i + 1])))
    <3>0. i \in Nat /\ \A j \in 1..i : t[j] = st[j]
      BY <1>1, <1>7
    <3>1. CASE i = n
      <4>1. busy'[t[i]].prev = current[Class(c)] /\ t[i + 1] = c
        BY <1>1, <1>2, <1>7, <3>1 DEF SwitchTypes
      <4>2. TopOf(current[Class(c)], st, i, Class(c), Stale(Class(c)))
        BY <1>3, <2>2, <3>1
      <4>3. QED BY <3>0, <4>1, <4>2, TopSame
    <3>2. CASE i /= n
      <4>1. i \in 1..(n - 1) /\ i + 1 \in 1..n
        BY <1>1, <3>2
      <4>2. st[i] /= exec /\ st[i] \in Frame
        BY <1>1, <3>2, <4>1 DEF NestShape
      <4>3. busy'[t[i]].prev = busy[st[i]].prev /\ t[i + 1] = st[i + 1]
        BY <1>2, <1>7, <4>1, <4>2 DEF SwitchTypes
      <4>4. TopOf(busy[st[i]].prev, st, i, Class(st[i + 1]), Stale(Class(st[i + 1])))
        BY <4>1 DEF NestPointers
      <4>5. QED BY <3>0, <4>3, <4>4, TopSame
    <3>3. QED BY <3>1, <3>2
  <2>4. ASSUME NEW k \in Kinds
        PROVE  TopOf(current'[k], t, n + 1, k, Stale(k))
    <3>1. CASE k = Class(c)
      <4>1. current'[k] = c
        BY <1>2, <3>1 DEF SwitchTypes
      <4>2. n + 1 \in Nat /\ n + 1 >= 2
        BY <1>1
      <4>3. QED BY <1>7, <3>1, <4>1, <4>2, TopIs
    <3>2. CASE k /= Class(c)
      <4>1. current'[k] = current[k]
        BY <1>2, <3>2 DEF SwitchTypes
      <4>2. QED BY <1>1, <1>7, <2>2, <3>2, <4>1, TopPush
    <3>3. QED BY <3>1, <3>2
  <2>5. (n + 1) - 1 = n
    BY <1>1
  <2>6. QED BY <2>1, <2>3, <2>4, <2>5 DEF NestPointers
<1>11. QED BY <1>1, <1>4, <1>5, <1>7, <1>8, <1>9, <1>10

(* a switch back from the top: c is suspended, or its routine has ended *)
LEMMA SwitchBackNests ==
  ASSUME SwitchTypes, NEW n, NEW st, NestShape(n, n, st), NestLinks(n, n, st),
         NestPointers(n, st), exec /= Main, exec' = external[exec],
         UNCHANGED <<context, external, current, busy>>,
         \/ UNCHANGED <<completed, thrown>>
         \/ /\ completed' = completed \cup {exec}
            /\ thrown' \in {thrown, thrown \cup {exec}}
  PROVE  /\ SwitchTypes' /\ NestShape(n, n - 1, st) /\ NestLinks(n, n - 1, st)'
         /\ NestPointers(n, st)'
<1>1. /\ \A i \in 2..n : st[i] \in Objects
      /\ exec \in Objects /\ exec = st[n] /\ n \in Nat /\ n >= 2
  <2>1. exec = st[n] /\ n \in Nat
    BY DEF NestShape, NestLinks
  <2>2. QED BY <2>1, NestFacts
<1>2. SwitchTypes'
  BY <1>1 DEF SwitchTypes
<1>3. NestShape(n, n - 1, st)
  BY <1>1 DEF NestShape
<1>4. NestLinks(n, n - 1, st)'
  <2>1. n - 1 \in 1..(n - 1) /\ (n - 1) + 1 = n
    BY <1>1
  <2>2. exec' = st[n - 1]
    BY <1>1, <2>1 DEF NestLinks
  <2>3. \A i \in 1..(n - 1) : st[i] /= exec /\ st[i] \notin completed
    BY <1>1 DEF NestShape, NestLinks
  <2>4. \A i \in 1..(n - 1) : st[i] \notin completed'
    BY <2>3
  <2>5. QED BY <2>2, <2>4 DEF NestLinks
<1>5. NestPointers(n, st)'
  <2>1. \A k : Stale(k) \subseteq Stale(k)'
    BY DEF Stale
  <2>2. \A k \in Kinds : TopOf(current'[k], st, n, k, Stale(k)')
    BY <2>1, TopMore DEF NestPointers
  <2>3. ASSUME NEW i \in 1..(n - 1)
        PROVE  TopOf(busy'[st[i]].prev, st, i, Class(st[i + 1]), Stale(Class(st[i + 1]))')
    BY <2>1, TopMore DEF NestPointers
  <2>4. QED BY <2>2, <2>3 DEF NestPointers
<1>6. QED BY <1>2, <1>3, <1>4, <1>5

(* the call of a frame that executes below the top is the Resume of the top *)
LEMMA BackFacts ==
  ASSUME SwitchTypes, NEW n, NEW m, NEW st, NestShape(n, m, st), NestLinks(n, m, st),
         NEW c, Back(c)
  PROVE  /\ m = n - 1 /\ n \in Nat /\ n >= 2 /\ c = st[n] /\ c \in Objects
         /\ exec = st[n - 1] /\ exec \in Frame /\ exec \notin completed
<1>1. busy[exec].of = c /\ c /= None /\ exec /= c
  BY DEF Back
<1>2. m /= n
  BY <1>1, NestFacts
<1>3. n \in Nat /\ m \in Nat /\ m <= n /\ exec = st[m]
  BY DEF NestShape, NestLinks
<1>4. m = n - 1 /\ n >= 2 /\ busy[exec].of = st[n]
  BY <1>2, <1>3, NestFacts
<1>5. n \in 2..n
  BY <1>3, <1>4
<1>6. QED BY <1>1, <1>3, <1>4, <1>5, NestFacts

(* the frame below the top is back in its own code: the top leaves *)
LEMMA PopLinks ==
  ASSUME SwitchTypes, NEW n, NEW st, NestShape(n, n - 1, st), NestLinks(n, n - 1, st),
         n >= 2, Done, UNCHANGED external
  PROVE  /\ NestShape(n - 1, n - 1, st)
         /\ \A i \in 1..((n - 1) - 1) :
              busy'[st[i]].of = st[i + 1] /\ external'[st[i + 1]] = st[i]
         /\ \A f \in Frame : \/ \E i \in 1..((n - 1) - 1) : f = st[i]
                             \/ busy'[f].of = None
                             \/ busy'[f].of = f /\ f \in Proc
<1>1. n \in Nat /\ exec = st[n - 1] /\ n - 1 \in 1..n
  BY DEF NestShape, NestLinks
<1>2. NestShape(n - 1, n - 1, st)
  BY <1>1 DEF NestShape
<1>3. exec \in Frame /\ busy' = [busy EXCEPT ![exec] = NoCall]
  BY NestFacts DEF Done
<1>4. ASSUME NEW i \in 1..((n - 1) - 1)
      PROVE  busy'[st[i]].of = st[i + 1] /\ external'[st[i + 1]] = st[i]
  <2>1. i \in 1..(n - 1) /\ i \in 1..n /\ i /= n - 1
    BY <1>1
  <2>2. st[i] /= exec /\ st[i] \in Frame
    BY <1>1, <2>1 DEF NestShape
  <2>3. busy'[st[i]] = busy[st[i]]
    BY <1>3, <2>2 DEF SwitchTypes
  <2>4. QED BY <2>1, <2>3 DEF NestLinks
<1>5. ASSUME NEW f \in Frame
      PROVE  \/ \E i \in 1..((n - 1) - 1) : f = st[i]
             \/ busy'[f].of = None
             \/ busy'[f].of = f /\ f \in Proc
  <2>1. CASE f = exec
    BY <1>3, <2>1 DEF SwitchTypes, NoCall
  <2>2. CASE f /= exec
    <3>1. busy'[f] = busy[f]
      BY <1>3, <2>2 DEF SwitchTypes
    <3>2. ASSUME NEW i \in 1..(n - 1), f = st[i]
          PROVE  i \in 1..((n - 1) - 1)
      BY <1>1, <2>2, <3>2
    <3>3. QED BY <3>1, <3>2 DEF NestLinks
  <2>3. QED BY <2>1, <2>2
<1>6. QED BY <1>2, <1>4, <1>5

(* the prev of the frames that stay on the stack *)
LEMMA PopPrevs ==
  ASSUME SwitchTypes, NEW n, NEW st, NestShape(n, n - 1, st),
         NestLinks(n, n - 1, st), NestPointers(n, st), Done
  PROVE  \A i \in 1..((n - 1) - 1) : TopOf(busy'[st[i]].prev, st, i, Class(st[i + 1]), Stale(Class(st[i + 1])))
<1>1. n \in Nat /\ exec = st[n - 1] /\ n - 1 \in 1..n
  BY DEF NestShape, NestLinks
<1>2. exec \in Frame /\ busy' = [busy EXCEPT ![exec] = NoCall]
  BY NestFacts DEF Done
<1>3. ASSUME NEW i \in 1..((n - 1) - 1)
      PROVE  TopOf(busy'[st[i]].prev, st, i, Class(st[i + 1]), Stale(Class(st[i + 1])))
  <2>1. i \in 1..(n - 1) /\ i \in 1..n /\ i /= n - 1
    BY <1>1
  <2>2. st[i] /= exec /\ st[i] \in Frame
    BY <1>1, <2>1 DEF NestShape
  <2>3. busy'[st[i]] = busy[st[i]]
    BY <1>2, <2>2 DEF SwitchTypes
  <2>4. QED BY <2>1, <2>3 DEF NestPointers
<1>4. QED BY <1>3

(* the pointers with the top gone *)
LEMMA PopPointers ==
  ASSUME SwitchTypes, NEW n, NEW st, NestShape(n, n - 1, st),
         NestLinks(n, n - 1, st), NestPointers(n, st), n >= 2, NEW k \in Kinds, NEW now,
         now = Restored(st[n]) \/ (now = Unwound(st[n]) /\ st[n] \in thrown)
  PROVE  TopOf(now[k], st, n - 1, k, Stale(k))
<1>1. n \in Nat /\ exec = st[n - 1] /\ n - 1 \in 1..(n - 1) /\ (n - 1) + 1 = n /\ n \in 2..n
  BY DEF NestShape, NestLinks
<1>2. st[n] \in Objects /\ Class(st[n]) \in Kinds
  BY <1>1, NestFacts, ClassFacts
<1>3. CASE Class(st[n]) = k /\ now = Restored(st[n])
  <2>1. now[k] = busy[exec].prev
    BY <1>2, <1>3 DEF Restored, SwitchTypes
  <2>2. TopOf(busy[st[n - 1]].prev, st, n - 1, Class(st[n]), Stale(Class(st[n])))
    BY <1>1 DEF NestPointers
  <2>3. QED BY <1>1, <1>3, <2>1, <2>2
<1>4. CASE Class(st[n]) /= k
  <2>1. now[k] = current[k]
    BY <1>2, <1>4 DEF Restored, Unwound, SwitchTypes
  <2>2. TopOf(current[k], st, n, k, Stale(k))
    BY DEF NestPointers
  <2>3. QED BY <1>1, <1>4, <2>1, <2>2, TopPop
<1>5. CASE Class(st[n]) = k /\ now /= Restored(st[n])
  <2>1. now = current /\ st[n] \in thrown /\ st[n] \notin Coro
    BY <1>5 DEF Unwound
  <2>2. st[n] \in Stale(k)
    BY <1>2, <1>5, <2>1, ClassFacts DEF Stale
  <2>3. TopOf(current[k], st, n, Class(st[n]), Stale(k))
    BY <1>5 DEF NestPointers
  <2>4. current[k] \in {st[n]} \cup Stale(k)
    BY <1>1, <2>3, TopIs
  <2>5. QED BY <2>1, <2>2, <2>4 DEF TopOf
<1>6. QED BY <1>3, <1>4, <1>5

(* The end of a Resume, Receive or Send: it returns, or it throws and the *)
(* caller catches the exception.                                           *)
LEMMA ReturnNests ==
  ASSUME SwitchTypes, NEW n, NEW m, NEW st, NestShape(n, m, st),
         NestLinks(n, m, st), NestPointers(n, st), NEW c, Back(c),
         current' = Restored(c) \/ (current' = Unwound(c) /\ c \in thrown),
         Done, UNCHANGED switchVars
  PROVE  /\ SwitchTypes' /\ NestShape(n - 1, n - 1, st) /\ NestLinks(n - 1, n - 1, st)'
         /\ NestPointers(n - 1, st)'
<1>1. /\ m = n - 1 /\ n \in Nat /\ n >= 2 /\ c = st[n] /\ c \in Objects
      /\ exec = st[n - 1] /\ exec \in Frame
  BY BackFacts
<1>2. UNCHANGED <<exec, context, external, completed, thrown>>
  BY DEF switchVars
<1>3. SwitchTypes'
  BY <1>1, <1>2, ClassFacts DEF SwitchTypes, Restored, Unwound, Done, NoCall
<1>4. NestShape(n - 1, n - 1, st) /\ NestLinks(n - 1, n - 1, st)'
  <2>1. \A i \in 1..(n - 1) : st[i] \notin completed'
    BY <1>1, <1>2 DEF NestLinks
  <2>2. NestShape(n, n - 1, st) /\ NestLinks(n, n - 1, st) /\ n >= 2 /\ UNCHANGED external
    BY <1>1, <1>2
  <2>3. /\ NestShape(n - 1, n - 1, st)
        /\ \A i \in 1..((n - 1) - 1) :
             busy'[st[i]].of = st[i + 1] /\ external'[st[i + 1]] = st[i]
        /\ \A f \in Frame : \/ \E i \in 1..((n - 1) - 1) : f = st[i]
                            \/ busy'[f].of = None
                            \/ busy'[f].of = f /\ f \in Proc
    BY <2>2, PopLinks
  <2>4. exec' = st[n - 1]
    BY <1>1, <1>2
  <2>5. QED BY <2>1, <2>3, <2>4 DEF NestLinks
<1>5. NestPointers(n - 1, st)'
  <2>1. \A k : Stale(k)' = Stale(k)
    BY <1>2 DEF Stale
  <2>2. \A k \in Kinds : TopOf(current'[k], st, n - 1, k, Stale(k))
    BY <1>1, PopPointers
  <2>3. \A i \in 1..((n - 1) - 1) :
          TopOf(busy'[st[i]].prev, st, i, Class(st[i + 1]), Stale(Class(st[i + 1])))
    BY <1>1, PopPrevs
  <2>4. QED BY <2>1, <2>2, <2>3 DEF NestPointers
<1>6. QED BY <1>3, <1>4, <1>5

(* An exception ends the routine that executes. *)
LEMMA RethrowNests ==
  ASSUME SwitchTypes, NEW n, NEW m, NEW st, NestShape(n, m, st),
         NestLinks(n, m, st), NestPointers(n, st), NEW c, Rethrow(c)
  PROVE  /\ SwitchTypes' /\ n >= 3 /\ completed' = completed \cup {exec}
         /\ NestShape(n - 1, n - 2, st) /\ NestLinks(n - 1, n - 2, st)'
         /\ NestPointers(n - 1, st)'
<1>1. /\ Back(c) /\ c \in thrown /\ current' = Unwound(c) /\ Done
      /\ exec /= Main /\ Exit(exec, TRUE)
  BY DEF Rethrow
<1>2. /\ m = n - 1 /\ n \in Nat /\ n >= 2 /\ c = st[n] /\ c \in Objects
      /\ exec = st[n - 1] /\ exec \in Frame /\ exec \notin completed
  BY <1>1, BackFacts
<1>3. /\ context' = context /\ external' = external /\ current' \in [Kinds -> Objects \cup {None}]
      /\ busy' \in [Frame -> [of : Objects \cup {None}, prev : Objects \cup {None}]]
  <2>1. context' = context /\ external' = external
    BY <1>1 DEF Exit
  <2>2. current' \in [Kinds -> Objects \cup {None}]
    BY <1>1, <1>2, ClassFacts DEF SwitchTypes, Unwound, Restored
  <2>3. QED BY <1>1, <1>2, <2>1, <2>2 DEF SwitchTypes, Done, NoCall
<1>4. /\ NestShape(n - 1, n - 1, st)
      /\ \A i \in 1..((n - 1) - 1) :
           busy'[st[i]].of = st[i + 1] /\ external'[st[i + 1]] = st[i]
      /\ \A f \in Frame : \/ \E i \in 1..((n - 1) - 1) : f = st[i]
                          \/ busy'[f].of = None
                          \/ busy'[f].of = f /\ f \in Proc
  <2>1. NestShape(n, n - 1, st) /\ NestLinks(n, n - 1, st) /\ n >= 2 /\ UNCHANGED external /\ Done
    BY <1>1, <1>2, <1>3
  <2>2. QED BY <2>1, PopLinks
<1>5. \A i \in 1..((n - 1) - 1) :
        TopOf(busy'[st[i]].prev, st, i, Class(st[i + 1]), Stale(Class(st[i + 1])))
  BY <1>1, <1>2, PopPrevs
<1>6. \A k \in Kinds : TopOf(current'[k], st, n - 1, k, Stale(k))
  BY <1>1, <1>2, PopPointers
<1>7. /\ exec' = external[exec] /\ completed' = completed \cup {exec}
      /\ thrown' = thrown \cup {exec} /\ exec \in Objects
  BY <1>1, <1>2, ClassFacts DEF Exit
<1>8. m >= 2
  BY <1>1, NestFacts
<1>9. n >= 3 /\ n - 2 \in 1..(n - 1) /\ (n - 2) + 1 = n - 1 /\ (n - 1) - 1 = n - 2
  BY <1>2, <1>8
<1>10. SwitchTypes'
  BY <1>3, <1>7 DEF SwitchTypes
<1>11. NestShape(n - 1, n - 2, st)
  BY <1>2, <1>4, <1>9 DEF NestShape
<1>12. NestLinks(n - 1, n - 2, st)'
  <2>1. exec' = st[n - 2]
    BY <1>2, <1>7, <1>9 DEF NestLinks
  <2>2. \A i \in 1..(n - 2) : st[i] /= exec /\ st[i] \notin completed
    <3>1. \A i \in 1..(n - 2) : i \in 1..n /\ n - 1 \in 1..n /\ i /= n - 1 /\ i \in 1..m
      BY <1>2, <1>9
    <3>2. QED BY <1>2, <3>1 DEF NestShape, NestLinks
  <2>3. \A i \in 1..(n - 2) : st[i] \notin completed'
    BY <1>7, <2>2
  <2>4. QED BY <1>4, <2>1, <2>3 DEF NestLinks
<1>13. NestPointers(n - 1, st)'
  <2>1. \A k : Stale(k) \subseteq Stale(k)'
    BY <1>7 DEF Stale
  <2>2. \A k \in Kinds : TopOf(current'[k], st, n - 1, k, Stale(k)')
    BY <1>6, <2>1, TopMore
  <2>3. ASSUME NEW i \in 1..((n - 1) - 1)
        PROVE  TopOf(busy'[st[i]].prev, st, i, Class(st[i + 1]), Stale(Class(st[i + 1]))')
    BY <1>5, <2>1, TopMore
  <2>4. QED BY <2>2, <2>3 DEF NestPointers
<1>14. QED BY <1>7, <1>9, <1>10, <1>11, <1>12, <1>13

(* a step that moves no value, and the stack (n2, m2, t) after it *)
LEMMA ValuesKept ==
  ASSUME NEW n, NEW m, NEW st, NestValues(n, m, st), UNCHANGED dataVars,
         NEW n2, NEW m2, NEW t,
         \A g \in Gen \ completed' : /\ g \notin completed /\ ~(m < n /\ g = st[n])
                                     /\ ~(m2 < n2 /\ g = t[n2]),
         \A p \in Proc \ completed' :
           /\ p \notin completed
           /\ hasNext[p] /\ (\E i \in 2..m : st[i] = p) => \E i \in 2..m2 : t[i] = p
  PROVE  NestValues(n2, m2, t)'
<1>1. value' = value /\ hasNext' = hasNext /\ given' = given /\ received' = received
  BY DEF dataVars
<1>2. ASSUME NEW g \in Gen \ completed'
      PROVE  ~(m2 < n2 /\ g = t[n2]) /\ Len(received'[g]) = given'[g]
  BY <1>1 DEF NestValues
<1>3. ASSUME NEW p \in Proc \ completed'
      PROVE  IF hasNext'[p]
             THEN /\ Len(received'[p]) + 1 = given'[p] /\ value'[p] = given'[p]
                  /\ \E i \in 2..m2 : t[i] = p
             ELSE Len(received'[p]) = given'[p]
  <2>1. p \in Proc \ completed
    OBVIOUS
  <2>2. CASE hasNext[p]
    BY <1>1, <2>1, <2>2 DEF NestValues
  <2>3. CASE ~hasNext[p]
    BY <1>1, <2>1, <2>3 DEF NestValues
  <2>4. QED BY <2>2, <2>3
<1>4. QED BY <1>2, <1>3 DEF NestValues

LEMMA ValueTypesKept ==
  ASSUME ValueTypes, UNCHANGED dataVars
  PROVE  ValueTypes'
BY DEF ValueTypes, dataVars

(* one frame of a class is not one of another *)
LEMMA ClassesApart ==
  /\ \A c \in Coro : c \notin Gen /\ c \notin Proc
  /\ \A g \in Gen : g \notin Coro /\ g \notin Proc
BY CoroutineAssumption

LEMMA CallStep ==
  ASSUME CoroutineInv, NEW c \in Coro \cup Gen, Resume(c), UNCHANGED dataVars
  PROVE  CoroutineInv'
<1>1. PICK n, m, st : Nested(n, m, st)
  BY DEF CoroutineInv
<1>2. /\ SwitchTypes /\ ValueTypes /\ NestShape(n, m, st) /\ NestLinks(n, m, st)
      /\ NestPointers(n, st) /\ NestValues(n, m, st)
  BY <1>1 DEF Nested, CoroutineInv
<1>3. c \in Objects
  BY ClassFacts
<1>4. SwitchTypes' /\ m = n /\ \A i \in 1..n : st[i] /= c
  BY <1>2, <1>3, ResumeNests
<1>5. PICK t : /\ NestShape(n + 1, n + 1, t) /\ NestLinks(n + 1, n + 1, t)'
               /\ NestPointers(n + 1, t)'
               /\ t[n + 1] = c /\ \A i \in 1..n : t[i] = st[i]
  BY <1>2, <1>3, ResumeNests
<1>6. n \in Nat /\ completed' = completed
  BY <1>2 DEF NestShape, Resume
<1>7. \A g : ~(m < n /\ g = st[n]) /\ ~(n + 1 < n + 1 /\ g = t[n + 1])
  BY <1>4, <1>6
<1>8. \A p : (\E i \in 2..m : st[i] = p) => \E i \in 2..(n + 1) : t[i] = p
  BY <1>4, <1>5, <1>6
<1>9. NestValues(n + 1, n + 1, t)'
  BY <1>2, <1>6, <1>7, <1>8, ValuesKept
<1>10. Nested(n + 1, n + 1, t)'
  BY <1>5, <1>9 DEF Nested
<1>11. QED BY <1>2, <1>4, <1>10, ValueTypesKept DEF CoroutineInv

LEMMA ProcessorSendStep ==
  ASSUME CoroutineInv, NEW q \in Proc, ProcessorSend(q)
  PROVE  CoroutineInv'
<1>1. PICK n, m, st : Nested(n, m, st)
  BY DEF CoroutineInv
<1>2. /\ SwitchTypes /\ ValueTypes /\ NestShape(n, m, st) /\ NestLinks(n, m, st)
      /\ NestPointers(n, st) /\ NestValues(n, m, st)
  BY <1>1 DEF Nested, CoroutineInv
<1>3. q \in Objects /\ Resume(q)
  BY ClassFacts DEF ProcessorSend
<1>4. SwitchTypes' /\ m = n /\ \A i \in 1..n : st[i] /= q
  BY <1>2, <1>3, ResumeNests
<1>5. PICK t : /\ NestShape(n + 1, n + 1, t) /\ NestLinks(n + 1, n + 1, t)'
               /\ NestPointers(n + 1, t)'
               /\ t[n + 1] = q /\ \A i \in 1..n : t[i] = st[i]
  BY <1>2, <1>3, ResumeNests
<1>6. n \in Nat /\ n >= 1 /\ completed' = completed /\ q \notin completed
  BY <1>2, <1>3 DEF NestShape, Resume
<1>7. /\ given' = [given EXCEPT ![q] = given[q] + 1]
      /\ value' = [value EXCEPT ![q] = given[q] + 1]
      /\ hasNext' = [hasNext EXCEPT ![q] = TRUE] /\ received' = received
  BY DEF ProcessorSend
<1>8. ValueTypes'
  BY <1>2, <1>3, <1>7 DEF ValueTypes
<1>9. Len(received[q]) = given[q] /\ given[q] \in Nat
  <2>1. \A i \in 2..m : st[i] /= q
    BY <1>4, <1>6
  <2>2. ~hasNext[q]
    BY <1>2, <1>6, <2>1 DEF NestValues
  <2>3. QED BY <1>2, <1>3, <1>6, <2>2 DEF NestValues, ValueTypes
<1>10. NestValues(n + 1, n + 1, t)'
  <2>1. ASSUME NEW g \in Gen \ completed'
        PROVE  Len(received'[g]) = given'[g]
    <3>1. g /= q /\ g \in Objects /\ g \in Gen \ completed
      BY <1>6, ClassesApart, ClassFacts
    <3>2. Len(received[g]) = given[g]
      BY <1>2, <1>4, <1>6, <3>1 DEF NestValues
    <3>3. QED BY <1>2, <1>7, <3>1, <3>2 DEF ValueTypes
  <2>2. ASSUME NEW p \in Proc \ completed'
        PROVE  IF hasNext'[p]
               THEN /\ Len(received'[p]) + 1 = given'[p] /\ value'[p] = given'[p]
                    /\ \E i \in 2..(n + 1) : t[i] = p
               ELSE Len(received'[p]) = given'[p]
    <3>1. CASE p = q
      <4>1. n + 1 \in 2..(n + 1)
        BY <1>6
      <4>2. given'[p] = given[p] + 1 /\ value'[p] = given[p] + 1 /\ hasNext'[p] /\ received'[p] = received[p]
        BY <1>2, <1>3, <1>7, <3>1 DEF ValueTypes
      <4>3. QED BY <1>5, <1>9, <3>1, <4>1, <4>2
    <3>2. CASE p /= q
      <4>1. p \in Objects /\ p \in Proc \ completed
        BY <1>6, ClassFacts
      <4>2. /\ given'[p] = given[p] /\ value'[p] = value[p]
            /\ hasNext'[p] = hasNext[p] /\ received'[p] = received[p]
        BY <1>2, <1>7, <3>2, <4>1 DEF ValueTypes
      <4>3. (\E i \in 2..m : st[i] = p) => \E i \in 2..(n + 1) : t[i] = p
        BY <1>4, <1>5, <1>6
      <4>4. IF hasNext[p]
            THEN /\ Len(received[p]) + 1 = given[p] /\ value[p] = given[p]
                 /\ \E i \in 2..m : st[i] = p
            ELSE Len(received[p]) = given[p]
        BY <1>2, <4>1 DEF NestValues
      <4>5. QED BY <4>2, <4>3, <4>4
    <3>3. QED BY <3>1, <3>2
  <2>3. ~(n + 1 < n + 1)
    BY <1>6
  <2>4. QED BY <2>1, <2>2, <2>3 DEF NestValues
<1>11. Nested(n + 1, n + 1, t)'
  BY <1>5, <1>10 DEF Nested
<1>12. QED BY <1>4, <1>8, <1>11 DEF CoroutineInv

(* The pointer of its class is the frame that executes, when that frame is *)
(* the top of the stack, or it is stale.                                   *)
LEMMA PointerIsExec ==
  ASSUME SwitchTypes, NEW n, NEW m, NEW st, NestShape(n, m, st),
         NestLinks(n, m, st), NestPointers(n, st), exec /= Main,
         busy[exec].of \in {None, exec}
  PROVE  /\ m = n /\ n \in Nat /\ n >= 2 /\ exec = st[n] /\ exec \in Objects
         /\ current[Class(exec)] \in {exec} \cup Stale(Class(exec))
<1>1. n \in Nat /\ m \in Nat /\ m <= n /\ exec = st[m]
  BY DEF NestShape, NestLinks
<1>2. m >= 2 /\ exec \in Objects
  BY NestFacts
<1>3. m = n
  <2>1. SUFFICES ASSUME m < n PROVE FALSE
    BY <1>1
  <2>2. busy[exec].of = st[n] /\ st[n] /= exec /\ n >= 2
    BY <2>1, NestFacts
  <2>3. n \in 2..n
    BY <1>1, <2>2
  <2>4. st[n] \in Objects
    BY <2>3, NestFacts
  <2>5. QED BY <2>2, <2>4, ClassFacts
<1>4. TopOf(current[Class(exec)], st, n, Class(exec), Stale(Class(exec)))
  BY <1>2, <1>3, ClassFacts DEF NestPointers
<1>5. QED BY <1>1, <1>2, <1>3, <1>4, TopIs

(* a pointer that is Alive is not stale *)
LEMMA AliveIsExec ==
  ASSUME SwitchTypes, NEW n, NEW m, NEW st, NestShape(n, m, st),
         NestLinks(n, m, st), NestPointers(n, st), exec /= Main,
         busy[exec].of \in {None, exec}, Alive(Class(exec))
  PROVE  current[Class(exec)] = exec
BY PointerIsExec DEF Alive, Stale

(* Suspend of the pointer is Suspend of the frame that executes *)
LEMMA SuspendNests ==
  ASSUME SwitchTypes, NEW n, NEW st, NestShape(n, n, st), NestLinks(n, n, st),
         NestPointers(n, st), exec /= Main, exec \in Objects, Suspend(exec),
         UNCHANGED busy
  PROVE  /\ SwitchTypes' /\ NestShape(n, n - 1, st) /\ NestLinks(n, n - 1, st)'
         /\ NestPointers(n, st)' /\ UNCHANGED completed
<1>1. exec' = external[exec] /\ UNCHANGED <<external, completed, thrown, current, busy>>
  BY DEF Suspend
<1>2. context' = context
  BY DEF Suspend, SwitchTypes
<1>3. UNCHANGED <<context, external, current, busy>> /\ UNCHANGED <<completed, thrown>>
  BY <1>1, <1>2
<1>4. QED BY <1>1, <1>3, SwitchBackNests

LEMMA SuspendStep ==
  ASSUME CoroutineInv, CoroutineSuspend \/ \E p \in Proc : ReceiveLoop(p)
  PROVE  CoroutineInv'
<1>1. PICK n, m, st : Nested(n, m, st)
  BY DEF CoroutineInv
<1>2. /\ SwitchTypes /\ ValueTypes /\ NestShape(n, m, st) /\ NestLinks(n, m, st)
      /\ NestPointers(n, st) /\ NestValues(n, m, st)
  BY <1>1 DEF Nested, CoroutineInv
<1>3. /\ exec \in Coro \/ (exec \in Proc /\ ~hasNext[exec])
      /\ busy[exec].of \in {None, exec} /\ UNCHANGED <<busy, dataVars>>
      /\ exec \in Coro => Alive("coroutine") /\ Suspend(current["coroutine"])
      /\ exec \in Proc => Suspend(exec)
  BY CoroutineAssumption DEF CoroutineSuspend, ReceiveLoop, Receiving, Free
<1>4. exec /= Main /\ exec \notin Gen /\ exec \in Objects
  BY <1>3, ClassFacts, CoroutineAssumption
<1>5. m = n /\ n \in Nat /\ n >= 2 /\ exec = st[n]
  BY <1>2, <1>3, <1>4, PointerIsExec
<1>6. Suspend(exec)
  <2>1. exec \in Coro => Class(exec) = "coroutine"
    BY <1>4, ClassFacts
  <2>2. QED BY <1>2, <1>3, <1>4, <2>1, AliveIsExec
<1>7. /\ SwitchTypes' /\ NestShape(n, n - 1, st) /\ NestLinks(n, n - 1, st)'
      /\ NestPointers(n, st)' /\ completed' = completed
  BY <1>2, <1>3, <1>4, <1>5, <1>6, SuspendNests
<1>8. \A g \in Gen : g /= st[n] /\ ~(m < n)
  BY <1>4, <1>5
<1>9. ASSUME NEW p \in Proc, hasNext[p], \E i \in 2..m : st[i] = p
      PROVE  \E i \in 2..(n - 1) : st[i] = p
  <2>1. p /= st[n]
    BY <1>3, <1>5, <1>9, CoroutineAssumption
  <2>2. QED BY <1>5, <1>9, <2>1
<1>10. NestValues(n, n - 1, st)'
  BY <1>2, <1>3, <1>7, <1>8, <1>9, ValuesKept
<1>11. Nested(n, n - 1, st)'
  BY <1>7, <1>10 DEF Nested
<1>12. QED BY <1>2, <1>3, <1>7, <1>11, ValueTypesKept DEF CoroutineInv

LEMMA GeneratorSendStep ==
  ASSUME CoroutineInv, GeneratorSend
  PROVE  CoroutineInv'
<1>1. PICK n, m, st : Nested(n, m, st)
  BY DEF CoroutineInv
<1>2. /\ SwitchTypes /\ ValueTypes /\ NestShape(n, m, st) /\ NestLinks(n, m, st)
      /\ NestPointers(n, st) /\ NestValues(n, m, st)
  BY <1>1 DEF Nested, CoroutineInv
<1>3. exec \in Gen /\ busy[exec].of = None /\ busy' = busy /\ Alive("generator")
  BY DEF GeneratorSend, Free
<1>4. exec /= Main /\ exec \in Objects /\ Class(exec) = "generator"
  BY <1>3, ClassFacts
<1>5. m = n /\ n \in Nat /\ n >= 2 /\ exec = st[n]
  BY <1>2, <1>3, <1>4, PointerIsExec
<1>6. current["generator"] = exec
  BY <1>2, <1>3, <1>4, AliveIsExec
<1>7. /\ Suspend(exec) /\ hasNext' = hasNext /\ received' = received
      /\ given' = [given EXCEPT ![exec] = given[exec] + 1]
      /\ value' = [value EXCEPT ![exec] = given[exec] + 1]
  BY <1>6 DEF GeneratorSend
<1>8. /\ SwitchTypes' /\ NestShape(n, n - 1, st) /\ NestLinks(n, n - 1, st)'
      /\ NestPointers(n, st)' /\ completed' = completed
  BY <1>2, <1>3, <1>4, <1>5, <1>7, SuspendNests
<1>9. ValueTypes'
  BY <1>2, <1>4, <1>7 DEF ValueTypes
<1>10. NestValues(n, n - 1, st)'
  <2>0. n - 1 < n
    BY <1>5
  <2>1. ASSUME NEW g \in Gen \ completed'
        PROVE  IF g = st[n] THEN Len(received'[g]) + 1 = given'[g] /\ value'[g] = given'[g]
                            ELSE Len(received'[g]) = given'[g]
    <3>1. g \in Gen \ completed /\ g \in Objects /\ given[g] \in Nat
      BY <1>2, <1>8, ClassFacts DEF ValueTypes
    <3>2. Len(received[g]) = given[g]
      BY <1>2, <1>5, <3>1 DEF NestValues
    <3>3. CASE g = exec
      <4>1. given'[g] = given[g] + 1 /\ value'[g] = given[g] + 1
        BY <1>2, <1>7, <3>1, <3>3 DEF ValueTypes
      <4>2. QED BY <1>5, <1>7, <3>1, <3>2, <3>3, <4>1
    <3>4. CASE g /= exec
      <4>1. given'[g] = given[g]
        BY <1>2, <1>7, <3>1, <3>4 DEF ValueTypes
      <4>2. QED BY <1>5, <1>7, <3>2, <3>4, <4>1
    <3>5. QED BY <3>3, <3>4
  <2>2. ASSUME NEW p \in Proc \ completed'
        PROVE  IF hasNext'[p]
               THEN /\ Len(received'[p]) + 1 = given'[p] /\ value'[p] = given'[p]
                    /\ \E i \in 2..(n - 1) : st[i] = p
               ELSE Len(received'[p]) = given'[p]
    <3>1. p \in Proc \ completed /\ p \in Objects /\ p /= exec
      BY <1>3, <1>8, ClassFacts, ClassesApart
    <3>2. /\ given'[p] = given[p] /\ value'[p] = value[p]
          /\ hasNext'[p] = hasNext[p] /\ received'[p] = received[p]
      BY <1>2, <1>7, <3>1 DEF ValueTypes
    <3>3. (\E i \in 2..m : st[i] = p) => \E i \in 2..(n - 1) : st[i] = p
      BY <1>5, <3>1
    <3>4. IF hasNext[p]
          THEN /\ Len(received[p]) + 1 = given[p] /\ value[p] = given[p]
               /\ \E i \in 2..m : st[i] = p
          ELSE Len(received[p]) = given[p]
      BY <1>2, <3>1 DEF NestValues
    <3>5. QED BY <3>2, <3>3, <3>4
  <2>3. QED BY <2>0, <2>1, <2>2 DEF NestValues
<1>11. Nested(n, n - 1, st)'
  BY <1>8, <1>10 DEF Nested
<1>12. QED BY <1>8, <1>9, <1>11 DEF CoroutineInv

LEMMA RoutineEndsStep ==
  ASSUME CoroutineInv, RoutineEnds
  PROVE  CoroutineInv'
<1>1. PICK n, m, st : Nested(n, m, st)
  BY DEF CoroutineInv
<1>2. /\ SwitchTypes /\ ValueTypes /\ NestShape(n, m, st) /\ NestLinks(n, m, st)
      /\ NestPointers(n, st) /\ NestValues(n, m, st)
  BY <1>1 DEF Nested, CoroutineInv
<1>3. /\ exec /= Main /\ busy[exec].of = None /\ exec' = external[exec]
      /\ UNCHANGED <<context, external, current, busy>> /\ UNCHANGED dataVars
      /\ completed' = completed \cup {exec}
      /\ thrown' \in {thrown, thrown \cup {exec}}
  BY DEF RoutineEnds, Free, Exit
<1>4. m = n /\ n \in Nat /\ n >= 2 /\ exec = st[n]
  BY <1>2, <1>3, PointerIsExec
<1>5. /\ SwitchTypes' /\ NestShape(n, n - 1, st) /\ NestLinks(n, n - 1, st)'
      /\ NestPointers(n, st)'
  BY <1>2, <1>3, <1>4, SwitchBackNests
<1>6. \A g \in Gen \ completed' : g \notin completed /\ ~(m < n) /\ g /= st[n]
  BY <1>3, <1>4
<1>7. ASSUME NEW p \in Proc \ completed'
      PROVE  /\ p \notin completed
             /\ (\E i \in 2..m : st[i] = p) => \E i \in 2..(n - 1) : st[i] = p
  BY <1>3, <1>4
<1>8. NestValues(n, n - 1, st)'
  BY <1>2, <1>3, <1>6, <1>7, ValuesKept
<1>9. Nested(n, n - 1, st)'
  BY <1>5, <1>8 DEF Nested
<1>10. QED BY <1>2, <1>3, <1>5, <1>9, ValueTypesKept DEF CoroutineInv

(* The Resume of a coroutine or the Send to a processor returns, or the    *)
(* caller catches what they or a Receive throw.                            *)
LEMMA ReturnStep ==
  ASSUME CoroutineInv, NEW c \in Objects, ResumeReturns(c) \/ SendReturns(c) \/ Catch(c)
  PROVE  CoroutineInv'
<1>1. PICK n, m, st : Nested(n, m, st)
  BY DEF CoroutineInv
<1>2. /\ SwitchTypes /\ ValueTypes /\ NestShape(n, m, st) /\ NestLinks(n, m, st)
      /\ NestPointers(n, st) /\ NestValues(n, m, st)
  BY <1>1 DEF Nested, CoroutineInv
<1>3. /\ Back(c) /\ Done /\ UNCHANGED switchVars /\ UNCHANGED dataVars
      /\ current' = Restored(c) \/ (current' = Unwound(c) /\ c \in thrown)
      /\ c \notin Gen \/ c \in completed
  BY <1>2, ClassesApart DEF ResumeReturns, SendReturns, Catch, SwitchTypes
<1>4. m = n - 1 /\ n \in Nat /\ n >= 2 /\ c = st[n]
  BY <1>2, <1>3, BackFacts
<1>5. /\ SwitchTypes' /\ NestShape(n - 1, n - 1, st) /\ NestLinks(n - 1, n - 1, st)'
      /\ NestPointers(n - 1, st)'
  BY <1>2, <1>3, ReturnNests
<1>6. completed' = completed
  BY <1>3 DEF switchVars
<1>7. \A g \in Gen \ completed : g /= st[n] /\ ~(n - 1 < n - 1)
  BY <1>3, <1>4
<1>8. NestValues(n - 1, n - 1, st)'
  BY <1>2, <1>3, <1>4, <1>6, <1>7, ValuesKept
<1>9. Nested(n - 1, n - 1, st)'
  BY <1>5, <1>8 DEF Nested
<1>10. QED BY <1>2, <1>3, <1>5, <1>9, ValueTypesKept DEF CoroutineInv

(* what Append does to values received in order *)
LEMMA AppendsNext ==
  ASSUME NEW s \in Seq(Nat), NEW v \in Nat, v = Len(s) + 1, \A i \in 1..Len(s) : s[i] = i
  PROVE  /\ Append(s, v) \in Seq(Nat) /\ Len(Append(s, v)) = Len(s) + 1
         /\ \A i \in 1..Len(Append(s, v)) : Append(s, v)[i] = i
<1>1. /\ Append(s, v) \in Seq(Nat) /\ Len(Append(s, v)) = Len(s) + 1
      /\ Append(s, v)[Len(s) + 1] = v
      /\ \A i \in 1..Len(s) : Append(s, v)[i] = s[i]
  OBVIOUS
<1>2. Len(s) \in Nat
  OBVIOUS
<1>3. QED BY <1>1, <1>2

(* c receives the value v *)
LEMMA ReceivedValue ==
  ASSUME ValueTypes, NEW c \in Objects, Len(received[c]) + 1 = given[c], value[c] = given[c],
         received' = [received EXCEPT ![c] = Append(received[c], value[c])]
  PROVE  /\ received' \in [Objects -> Seq(Nat)] /\ Len(received'[c]) = given[c]
         /\ \A x \in Objects : x /= c => received'[x] = received[x]
         /\ \A x \in Objects : \A i \in 1..Len(received'[x]) : received'[x][i] = i
<1>1. PICK s, v : s = received[c] /\ v = value[c]
  OBVIOUS
<1>2. s \in Seq(Nat) /\ v \in Nat /\ v = Len(s) + 1 /\ \A i \in 1..Len(s) : s[i] = i
  BY <1>1 DEF ValueTypes
<1>3. PICK w : w = Append(s, v)
  OBVIOUS
<1>4. w \in Seq(Nat) /\ Len(w) = Len(s) + 1 /\ \A i \in 1..Len(w) : w[i] = i
  BY <1>2, <1>3, AppendsNext
<1>5. /\ received' \in [Objects -> Seq(Nat)] /\ received'[c] = w
      /\ \A x \in Objects : x /= c => received'[x] = received[x]
  BY <1>1, <1>3, <1>4 DEF ValueTypes
<1>6. \A x \in Objects : \A i \in 1..Len(received'[x]) : received'[x][i] = i
  BY <1>4, <1>5 DEF ValueTypes
<1>7. QED BY <1>1, <1>4, <1>5, <1>6

LEMMA ReceiveReturnsStep ==
  ASSUME CoroutineInv, NEW h \in Gen, ReceiveReturns(h)
  PROVE  CoroutineInv'
<1>1. PICK n, m, st : Nested(n, m, st)
  BY DEF CoroutineInv
<1>2. /\ SwitchTypes /\ ValueTypes /\ NestShape(n, m, st) /\ NestLinks(n, m, st)
      /\ NestPointers(n, st) /\ NestValues(n, m, st)
  BY <1>1 DEF Nested, CoroutineInv
<1>3. /\ Back(h) /\ h \notin thrown /\ current' = Restored(h) /\ Done
      /\ UNCHANGED switchVars /\ UNCHANGED <<value, hasNext, given>>
      /\ received' = IF h \in completed THEN received
                     ELSE [received EXCEPT ![h] = Append(received[h], value[h])]
  BY DEF ReceiveReturns
<1>4. m = n - 1 /\ n \in Nat /\ n >= 2 /\ h = st[n] /\ h \in Objects
  BY <1>2, <1>3, BackFacts
<1>5. /\ SwitchTypes' /\ NestShape(n - 1, n - 1, st) /\ NestLinks(n - 1, n - 1, st)'
      /\ NestPointers(n - 1, st)'
  BY <1>2, <1>3, ReturnNests
<1>6. completed' = completed
  BY <1>3 DEF switchVars
<1>7. /\ received' \in [Objects -> Seq(Nat)]
      /\ h \notin completed => Len(received'[h]) = given[h]
      /\ \A x \in Objects : x /= h => received'[x] = received[x]
      /\ \A x \in Objects : \A i \in 1..Len(received'[x]) : received'[x][i] = i
  <2>1. CASE h \in completed
    BY <1>2, <1>3, <2>1 DEF ValueTypes
  <2>2. CASE h \notin completed
    <3>1. Len(received[h]) + 1 = given[h] /\ value[h] = given[h]
      BY <1>2, <1>4, <2>2 DEF NestValues
    <3>2. QED BY <1>2, <1>3, <1>4, <2>2, <3>1, ReceivedValue
  <2>3. QED BY <2>1, <2>2
<1>8. ValueTypes'
  BY <1>2, <1>3, <1>7 DEF ValueTypes
<1>9. NestValues(n - 1, n - 1, st)'
  <2>1. ASSUME NEW g \in Gen \ completed'
        PROVE  Len(received'[g]) = given'[g]
    <3>1. g \in Gen \ completed /\ g \in Objects
      BY <1>6, ClassFacts
    <3>2. CASE g = h
      BY <1>3, <1>7, <3>1, <3>2
    <3>3. CASE g /= h
      BY <1>2, <1>3, <1>4, <1>7, <3>1, <3>3 DEF NestValues
    <3>4. QED BY <3>2, <3>3
  <2>2. ASSUME NEW p \in Proc \ completed'
        PROVE  IF hasNext'[p]
               THEN /\ Len(received'[p]) + 1 = given'[p] /\ value'[p] = given'[p]
                    /\ \E i \in 2..(n - 1) : st[i] = p
               ELSE Len(received'[p]) = given'[p]
    <3>1. p \in Proc \ completed /\ p \in Objects /\ p /= h
      BY <1>6, ClassFacts, ClassesApart
    <3>2. IF hasNext[p]
          THEN /\ Len(received[p]) + 1 = given[p] /\ value[p] = given[p]
               /\ \E i \in 2..m : st[i] = p
          ELSE Len(received[p]) = given[p]
      BY <1>2, <3>1 DEF NestValues
    <3>3. QED BY <1>3, <1>4, <1>7, <3>1, <3>2
  <2>3. ~(n - 1 < n - 1)
    BY <1>4
  <2>4. QED BY <2>1, <2>2, <2>3 DEF NestValues
<1>10. Nested(n - 1, n - 1, st)'
  BY <1>5, <1>9 DEF Nested
<1>11. QED BY <1>5, <1>8, <1>10 DEF CoroutineInv

LEMMA RethrowStep ==
  ASSUME CoroutineInv, NEW c \in Objects, Rethrow(c)
  PROVE  CoroutineInv'
<1>1. PICK n, m, st : Nested(n, m, st)
  BY DEF CoroutineInv
<1>2. /\ SwitchTypes /\ ValueTypes /\ NestShape(n, m, st) /\ NestLinks(n, m, st)
      /\ NestPointers(n, st) /\ NestValues(n, m, st)
  BY <1>1 DEF Nested, CoroutineInv
<1>3. Back(c) /\ c \in completed /\ UNCHANGED dataVars
  BY <1>2 DEF Rethrow, SwitchTypes
<1>4. m = n - 1 /\ n \in Nat /\ n >= 2 /\ c = st[n] /\ exec = st[n - 1]
  BY <1>2, <1>3, BackFacts
<1>5. SwitchTypes' /\ ValueTypes'
  BY <1>2, <1>3, RethrowNests, ValueTypesKept
<1>6. /\ n >= 3 /\ completed' = completed \cup {exec}
      /\ NestShape(n - 1, n - 2, st) /\ NestLinks(n - 1, n - 2, st)'
      /\ NestPointers(n - 1, st)'
  BY <1>2, RethrowNests
<1>7. \A g \in Gen \ completed' : /\ g \notin completed /\ ~(m < n /\ g = st[n])
                                  /\ ~(n - 2 < n - 1 /\ g = st[n - 1])
  BY <1>3, <1>4, <1>6
<1>8. ASSUME NEW p \in Proc \ completed'
      PROVE  /\ p \notin completed
             /\ (\E i \in 2..m : st[i] = p) => \E i \in 2..(n - 2) : st[i] = p
  BY <1>4, <1>6
<1>9. NestValues(n - 1, n - 2, st)'
  BY <1>2, <1>3, <1>7, <1>8, ValuesKept
<1>10. Nested(n - 1, n - 2, st)'
  BY <1>6, <1>9 DEF Nested
<1>11. QED BY <1>5, <1>10 DEF CoroutineInv

(* a processor enters or leaves its Receive *)
LEMMA ReceivingNests ==
  ASSUME SwitchTypes, NEW n, NEW st, NestShape(n, n, st), NestLinks(n, n, st),
         NestPointers(n, st), exec \in Proc, NEW o \in {None, exec},
         busy' = [busy EXCEPT ![exec] = [of |-> o, prev |-> None]],
         UNCHANGED switchVars, UNCHANGED current
  PROVE  SwitchTypes' /\ NestLinks(n, n, st)' /\ NestPointers(n, st)'
<1>1. n \in Nat /\ n >= 1 /\ exec = st[n] /\ exec \in Frame /\ exec \in Objects
  BY ClassFacts DEF NestShape, NestLinks
<1>2. UNCHANGED <<exec, context, external, completed, thrown, current>>
  BY DEF switchVars
<1>3. SwitchTypes'
  BY <1>1, <1>2 DEF SwitchTypes
<1>4. ASSUME NEW i \in 1..(n - 1)
      PROVE  busy'[st[i]] = busy[st[i]]
  <2>1. st[i] /= exec /\ st[i] \in Frame
    BY <1>1 DEF NestShape
  <2>2. QED BY <2>1 DEF SwitchTypes
<1>5. ASSUME NEW f \in Frame
      PROVE  \/ \E i \in 1..(n - 1) : f = st[i]
             \/ busy'[f].of = None
             \/ busy'[f].of = f /\ f \in Proc
  <2>1. CASE f = exec
    BY <1>1, <2>1 DEF SwitchTypes
  <2>2. CASE f /= exec
    <3>1. busy'[f] = busy[f]
      BY <2>2 DEF SwitchTypes
    <3>2. QED BY <3>1 DEF NestLinks
  <2>3. QED BY <2>1, <2>2
<1>6. NestLinks(n, n, st)'
  BY <1>2, <1>4, <1>5 DEF NestLinks
<1>7. NestPointers(n, st)'
  BY <1>2, <1>4 DEF NestPointers, Stale
<1>8. QED BY <1>3, <1>6, <1>7

LEMMA ProcessorReceiveStep ==
  ASSUME CoroutineInv, ProcessorReceive
  PROVE  CoroutineInv'
<1>1. PICK n, m, st : Nested(n, m, st)
  BY DEF CoroutineInv
<1>2. /\ SwitchTypes /\ ValueTypes /\ NestShape(n, m, st) /\ NestLinks(n, m, st)
      /\ NestPointers(n, st) /\ NestValues(n, m, st)
  BY <1>1 DEF Nested, CoroutineInv
<1>3. /\ exec \in Proc /\ busy[exec].of = None /\ Alive("processor") /\ UNCHANGED switchVars
      /\ UNCHANGED current /\ UNCHANGED dataVars
      /\ busy' = [busy EXCEPT ![exec] = [of |-> current["processor"], prev |-> None]]
  <2>1. [NoCall EXCEPT !.of = current["processor"]] = [of |-> current["processor"], prev |-> None]
    BY DEF NoCall
  <2>2. QED BY <2>1 DEF ProcessorReceive, Free
<1>4. exec /= Main /\ Class(exec) = "processor" /\ exec \in Objects
  BY <1>3, ClassFacts
<1>5. m = n /\ n \in Nat /\ current["processor"] = exec
  BY <1>2, <1>3, <1>4, PointerIsExec, AliveIsExec
<1>6. SwitchTypes' /\ NestLinks(n, n, st)' /\ NestPointers(n, st)'
  BY <1>2, <1>3, <1>5, ReceivingNests
<1>7. completed' = completed
  BY <1>3 DEF switchVars
<1>8. NestValues(n, n, st)'
  BY <1>2, <1>3, <1>5, <1>7, ValuesKept
<1>9. Nested(n, n, st)'
  BY <1>2, <1>5, <1>6, <1>8 DEF Nested
<1>10. QED BY <1>2, <1>3, <1>6, <1>9, ValueTypesKept DEF CoroutineInv

LEMMA TakeValueStep ==
  ASSUME CoroutineInv, NEW q \in Proc, TakeValue(q)
  PROVE  CoroutineInv'
<1>1. PICK n, m, st : Nested(n, m, st)
  BY DEF CoroutineInv
<1>2. /\ SwitchTypes /\ ValueTypes /\ NestShape(n, m, st) /\ NestLinks(n, m, st)
      /\ NestPointers(n, st) /\ NestValues(n, m, st)
  BY <1>1 DEF Nested, CoroutineInv
<1>3. /\ exec \in Proc /\ busy[exec].of = exec /\ q = exec /\ hasNext[q]
      /\ received' = [received EXCEPT ![q] = Append(received[q], value[q])]
      /\ hasNext' = [hasNext EXCEPT ![q] = FALSE]
      /\ busy' = [busy EXCEPT ![exec] = [of |-> None, prev |-> None]]
      /\ UNCHANGED switchVars /\ UNCHANGED current /\ UNCHANGED <<value, given>>
  BY DEF TakeValue, Receiving, Done, NoCall
<1>4. exec /= Main /\ exec \in Objects /\ q \in Objects
  BY <1>3, ClassFacts
<1>5. m = n /\ n \in Nat
  BY <1>2, <1>3, <1>4, PointerIsExec
<1>6. SwitchTypes' /\ NestLinks(n, n, st)' /\ NestPointers(n, st)'
  BY <1>2, <1>3, <1>5, ReceivingNests
<1>7. completed' = completed /\ q \notin completed
  BY <1>2, <1>3, NestFacts DEF switchVars
<1>8. Len(received[q]) + 1 = given[q] /\ value[q] = given[q]
  BY <1>2, <1>3, <1>7 DEF NestValues
<1>9. /\ received' \in [Objects -> Seq(Nat)] /\ Len(received'[q]) = given[q]
      /\ \A x \in Objects : x /= q => received'[x] = received[x]
      /\ \A x \in Objects : \A i \in 1..Len(received'[x]) : received'[x][i] = i
  BY <1>2, <1>3, <1>4, <1>8, ReceivedValue
<1>10. ValueTypes'
  <2>1. hasNext' \in [Objects -> BOOLEAN]
    BY <1>2, <1>3 DEF ValueTypes
  <2>2. QED BY <1>2, <1>3, <1>9, <2>1 DEF ValueTypes
<1>11. NestValues(n, n, st)'
  <2>1. ASSUME NEW g \in Gen \ completed'
        PROVE  Len(received'[g]) = given'[g]
    <3>1. g \in Gen \ completed /\ g \in Objects /\ g /= q
      BY <1>7, ClassFacts, ClassesApart
    <3>2. QED BY <1>2, <1>3, <1>5, <1>9, <3>1 DEF NestValues
  <2>2. ASSUME NEW p \in Proc \ completed'
        PROVE  IF hasNext'[p]
               THEN /\ Len(received'[p]) + 1 = given'[p] /\ value'[p] = given'[p]
                    /\ \E i \in 2..n : st[i] = p
               ELSE Len(received'[p]) = given'[p]
    <3>1. p \in Proc \ completed /\ p \in Objects
      BY <1>7, ClassFacts
    <3>2. CASE p = q
      <4>1. ~hasNext'[p]
        BY <1>2, <1>3, <1>4, <3>2 DEF ValueTypes
      <4>2. QED BY <1>3, <1>9, <3>2, <4>1
    <3>3. CASE p /= q
      <4>1. hasNext'[p] = hasNext[p]
        BY <1>2, <1>3, <3>1, <3>3 DEF ValueTypes
      <4>2. IF hasNext[p]
            THEN /\ Len(received[p]) + 1 = given[p] /\ value[p] = given[p]
                 /\ \E i \in 2..n : st[i] = p
            ELSE Len(received[p]) = given[p]
        BY <1>2, <1>5, <3>1 DEF NestValues
      <4>3. received'[p] = received[p] /\ given' = given /\ value' = value
        BY <1>3, <1>9, <3>1, <3>3
      <4>4. QED BY <4>1, <4>2, <4>3
    <3>4. QED BY <3>2, <3>3
  <2>3. ~(n < n)
    BY <1>5
  <2>4. QED BY <2>1, <2>2, <2>3 DEF NestValues
<1>12. Nested(n, n, st)'
  BY <1>2, <1>5, <1>6, <1>11 DEF Nested
<1>13. QED BY <1>6, <1>10, <1>12 DEF CoroutineInv

LEMMA CoroutineSame ==
  ASSUME CoroutineInv, UNCHANGED coroutineVars
  PROVE  CoroutineInv'
<1>1. PICK n, m, st : Nested(n, m, st)
  BY DEF CoroutineInv
<1>2. Nested(n, m, st)'
  BY <1>1 DEF Nested, NestLinks, NestPointers, Stale, NestValues, coroutineVars, switchVars, dataVars
<1>3. SwitchTypes' /\ ValueTypes'
  BY DEF CoroutineInv, SwitchTypes, ValueTypes, coroutineVars, switchVars, dataVars
<1>4. QED BY <1>2, <1>3 DEF CoroutineInv

(* the invariant of the stack of frames is kept until a stale pointer is used *)
LEMMA CoroutineStep ==
  ASSUME CoroutineInv, [CoroutinesNext]_coroutineVars
  PROVE  CoroutineInv' \/ LosesWay
<1>1. ASSUME NEW c \in Coro, CoroutineResume(c)
      PROVE  CoroutineInv'
  BY <1>1, CallStep DEF CoroutineResume
<1>2. ASSUME NEW g \in Gen, GeneratorReceive(g)
      PROVE  CoroutineInv'
  BY <1>2, CallStep DEF GeneratorReceive
<1>3. CASE MainEnds \/ Lost \/ UNCHANGED coroutineVars
  BY <1>3, CoroutineSame DEF MainEnds, Lost
<1>4. \A c \in Coro \cup Proc : ResumeReturns(c) \/ SendReturns(c) => CoroutineInv'
  BY ReturnStep, ClassFacts
<1>5. \A c \in Objects : Catch(c) => CoroutineInv'
  BY ReturnStep
<1>6. QED
  BY <1>1, <1>2, <1>3, <1>4, <1>5, ProcessorSendStep, ReceiveReturnsStep, SuspendStep,
     GeneratorSendStep, ProcessorReceiveStep, TakeValueStep, RoutineEndsStep, RethrowStep
     DEF CoroutinesNext

LEMMA CoroutineStart ==
  ASSUME CoroutinesInit
  PROVE  CoroutineInv
<1>1. PICK st : st = [i \in Nat |-> Main]
  OBVIOUS
<1>2. SwitchTypes
  BY ClassFacts DEF CoroutinesInit, SwitchTypes, NoCall, Kinds
<1>3. ValueTypes
  <2>1. << >> \in Seq(Nat) /\ Len(<< >>) = 0
    OBVIOUS
  <2>2. QED BY <2>1 DEF CoroutinesInit, ValueTypes
<1>4. NestShape(1, 1, st)
  BY <1>1, ClassFacts DEF NestShape
<1>5. NestLinks(1, 1, st)
  BY <1>1 DEF CoroutinesInit, NestLinks, NoCall
<1>6. NestPointers(1, st)
  <2>1. \A k \in Kinds : current[k] = None
    BY DEF CoroutinesInit, Kinds
  <2>2. \A k \in Kinds : TopOf(current[k], st, 1, k, Stale(k))
    BY <2>1, TopIs
  <2>3. QED BY <2>2 DEF NestPointers
<1>7. NestValues(1, 1, st)
  BY ClassFacts DEF CoroutinesInit, NestValues
<1>8. Nested(1, 1, st)
  BY <1>4, <1>5, <1>6, <1>7 DEF Nested
<1>9. QED BY <1>2, <1>3, <1>8 DEF CoroutineInv

LEMMA FollowFromInv ==
  ASSUME CoroutineInv
  PROVE  PointersFollow
<1>1. PICK n, m, st : Nested(n, m, st)
  BY DEF CoroutineInv
<1>2. /\ SwitchTypes /\ NestShape(n, m, st) /\ NestLinks(n, m, st)
      /\ NestPointers(n, st)
  BY <1>1 DEF Nested, CoroutineInv
<1>3. exec \notin completed
  BY <1>2, NestFacts
<1>4. exec \in Objects /\ busy[exec].of \in {None, exec} =>
        current[Class(exec)] \in {exec} \cup Stale(Class(exec))
  BY <1>2, PointerIsExec, ClassFacts
<1>5. ASSUME exec = Main, Free
      PROVE  \A k \in DOMAIN current : current[k] \in {None} \cup Stale(k)
  <2>1. m = 1 /\ n \in Nat /\ m <= n
    BY <1>2, <1>5, NestFacts DEF NestShape
  <2>2. n = 1
    <3>1. SUFFICES ASSUME m < n PROVE FALSE
      BY <2>1
    <3>2. busy[exec].of = st[n] /\ n >= 2
      BY <1>2, <3>1, NestFacts
    <3>3. n \in 2..n
      BY <2>1, <3>2
    <3>4. st[n] \in Objects
      BY <1>2, <3>3, NestFacts
    <3>5. QED BY <1>5, <3>2, <3>4, ClassFacts DEF Free
  <2>3. \A k \in Kinds : TopOf(current[k], st, 1, k, Stale(k))
    BY <1>2, <2>2 DEF NestPointers
  <2>4. \A k \in Kinds : current[k] \in {None} \cup Stale(k)
    BY <2>3, TopIs
  <2>5. QED BY <1>2, <2>4 DEF SwitchTypes
<1>6. QED BY <1>3, <1>4, <1>5 DEF PointersFollow

LEMMA DeliveryFromInv ==
  ASSUME CoroutineInv
  PROVE  Delivery
<1>1. PICK n, m, st : Nested(n, m, st)
  BY DEF CoroutineInv
<1>2. ValueTypes /\ NestValues(n, m, st)
  BY <1>1 DEF Nested, CoroutineInv
<1>3. ASSUME NEW c \in Gen \cup Proc
      PROVE  /\ \A i \in DOMAIN received[c] : received[c][i] = i
             /\ c \notin completed => Len(received[c]) \in {given[c] - 1, given[c]}
  <2>1. c \in Objects /\ received[c] \in Seq(Nat) /\ given[c] \in Nat /\ Len(received[c]) \in Nat
    BY <1>2, ClassFacts DEF ValueTypes
  <2>2. DOMAIN received[c] = 1..Len(received[c])
    BY <2>1
  <2>3. c \notin completed => Len(received[c]) + 1 = given[c] \/ Len(received[c]) = given[c]
    BY <1>2 DEF NestValues
  <2>4. QED BY <1>2, <2>1, <2>2, <2>3 DEF ValueTypes
<1>4. QED BY <1>3 DEF Delivery

(* a stale pointer has been used *)
LostInv == exec = None /\ None \notin completed /\ Delivery

LEMMA LosesWayStep ==
  ASSUME CoroutineInv, LosesWay
  PROVE  LostInv'
<1>1. Delivery /\ None \notin completed
  BY DeliveryFromInv, ClassFacts DEF CoroutineInv, SwitchTypes
<1>2. exec' = None /\ UNCHANGED <<completed, dataVars>>
  BY DEF LosesWay
<1>3. QED BY <1>1, <1>2 DEF LostInv, Delivery, dataVars

(* nothing goes on then *)
LEMMA LostStep ==
  ASSUME LostInv, [CoroutinesNext]_coroutineVars
  PROVE  LostInv'
<1>1. exec \notin Objects /\ exec /= Main /\ exec = None
  BY ClassFacts DEF LostInv
<1>2. exec \notin Coro /\ exec \notin Gen /\ exec \notin Proc
  BY <1>1, ClassFacts
<1>3. ~Free /\ \A c : ~Back(c)
  BY <1>1 DEF Free, Back
<1>4. \A c : ~Resume(c) /\ ~ResumeReturns(c) /\ ~ReceiveReturns(c) /\ ~SendReturns(c)
  BY <1>3 DEF Resume, ResumeReturns, ReceiveReturns, SendReturns
<1>5. \A c : ~Rethrow(c) /\ ~Catch(c) /\ ~ReceiveLoop(c) /\ ~TakeValue(c)
  BY <1>2, <1>3 DEF Rethrow, Catch, ReceiveLoop, TakeValue, Receiving
<1>6. UNCHANGED coroutineVars
  BY <1>1, <1>2, <1>3, <1>4, <1>5
     DEF CoroutinesNext, CoroutineResume, GeneratorReceive, ProcessorSend, CoroutineSuspend,
         GeneratorSend, ProcessorReceive, RoutineEnds, LosesWay, Lost, MainEnds
<1>7. QED BY <1>6 DEF LostInv, Delivery, coroutineVars, switchVars, dataVars

(* The coroutines keep the invariant of the stack of frames until a stale *)
(* pointer is used.                                                        *)
THEOREM CoroutineInvariance == CoroutinesSpec => [](CoroutineInv \/ LostInv)
<1>1. CoroutinesInit => CoroutineInv
  BY CoroutineStart
<1>2. (CoroutineInv \/ LostInv) /\ [CoroutinesNext]_coroutineVars => (CoroutineInv \/ LostInv)'
  BY CoroutineStep, LosesWayStep, LostStep
<1>3. QED BY <1>1, <1>2, PTL DEF CoroutinesSpec

(* However coroutines, generators and processors are nested, and whoever   *)
(* throws or catches, a static Suspend finds its own Coroutine in the      *)
(* thread-local pointer, and a static Send or Receive its own Generator or *)
(* Processor or one whose routine has thrown.                              *)
THEOREM PointersFollowHolds == CoroutinesSpec => []PointersFollow
<1>1. CoroutineInv => PointersFollow
  BY FollowFromInv
<1>2. LostInv => PointersFollow
  BY ClassFacts DEF LostInv, PointersFollow
<1>3. QED BY <1>1, <1>2, CoroutineInvariance, PTL

(* A generator and a processor deliver each value once and in order,      *)
(* whoever throws or catches.                                              *)
THEOREM DeliveryHolds == CoroutinesSpec => []Delivery
<1>1. CoroutineInv \/ LostInv => Delivery
  BY DeliveryFromInv DEF LostInv
<1>2. QED BY <1>1, CoroutineInvariance, PTL

----------------------------------------------------------------------------
(***************************************************************************)
(* The reader, on texts put together from a prefix without the character   *)
(* in question and the rest.                                               *)
(***************************************************************************)
Char == Keys \cup Space \cup {"colon", "http", "k"} \cup UNION {ToSet(v) : v \in Values}
Without(s, C) == \A i \in 1..Len(s) : s[i] \notin C

LEMMA CharFacts ==
  /\ "lf" \in Char /\ "cr" \in Char /\ "space" \in Char /\ "colon" \in Char
  /\ "http" \in Char /\ "k" \in Char
BY DEF Char, Space

(* \o as an uninterpreted operator *)
Cat(s, t) == s \o t

LEMMA CatFacts ==
  ASSUME NEW S, NEW s \in Seq(S), NEW t \in Seq(S)
  PROVE  Cat(s, t) \in Seq(S)
BY ConcatProperties DEF Cat

LEMMA CatItems ==
  ASSUME NEW S, NEW s \in Seq(S), NEW t \in Seq(S)
  PROVE  /\ Len(Cat(s, t)) = Len(s) + Len(t)
         /\ \A i \in 1..(Len(s) + Len(t)) :
              Cat(s, t)[i] = IF i <= Len(s) THEN s[i] ELSE t[i - Len(s)]
BY ConcatProperties DEF Cat

LEMMA CatAssociative ==
  ASSUME NEW S, NEW s \in Seq(S), NEW t \in Seq(S), NEW u \in Seq(S)
  PROVE  Cat(Cat(s, t), u) = Cat(s, Cat(t, u))
BY ConcatAssociative DEF Cat

LEMMA OneChar ==
  ASSUME NEW c \in Char
  PROVE  <<c>> \in Seq(Char) /\ Len(<<c>>) = 1 /\ <<c>>[1] = c
OBVIOUS

LEMMA FrontChar ==
  ASSUME NEW c \in Char, NEW t \in Seq(Char)
  PROVE  /\ Cat(<<c>>, t) \in Seq(Char) /\ Cat(<<c>>, t) /= << >> /\ Cat(<<c>>, t)[1] = c
         /\ Len(Cat(<<c>>, t)) = 1 + Len(t)
<1> USE DEF Cat
<1>1. <<c>> \in Seq(Char) /\ Len(<<c>>) = 1 /\ <<c>>[1] = c /\ Len(t) \in Nat
  BY OneChar, LenProperties
<1>2. PICK d : d = <<c>> \o t
  OBVIOUS
<1>3. /\ d \in Seq(Char) /\ Len(d) = 1 + Len(t)
      /\ \A i \in 1..(1 + Len(t)) : d[i] = IF i <= 1 THEN <<c>>[i] ELSE t[i - 1]
  BY <1>1, <1>2, ConcatProperties
<1>4. d[1] = c /\ d /= << >>
  BY <1>1, <1>3
<1>5. QED BY <1>2, <1>3, <1>4

LEMMA TwoChars ==
  ASSUME NEW a \in Char, NEW b \in Char
  PROVE  <<a, b>> \in Seq(Char) /\ <<a>> \o <<b>> = <<a, b>>
<1>1. <<a, b>> \in Seq(Char) /\ Len(<<a, b>>) = 2 /\ <<a, b>>[1] = a /\ <<a, b>>[2] = b
  OBVIOUS
<1>2. /\ <<a>> \in Seq(Char) /\ Len(<<a>>) = 1 /\ <<a>>[1] = a
      /\ <<b>> \in Seq(Char) /\ Len(<<b>>) = 1 /\ <<b>>[1] = b
  BY OneChar
<1>3. PICK c, d : c = <<a>> \o <<b>> /\ d = <<a, b>>
  OBVIOUS
<1>4. /\ c \in Seq(Char) /\ Len(c) = 1 + 1
      /\ \A i \in 1..(1 + 1) : c[i] = IF i <= 1 THEN <<a>>[i] ELSE <<b>>[i - 1]
  BY <1>2, <1>3, ConcatProperties
<1>5. Len(c) = 2 /\ c[1] = a /\ c[2] = b
  BY <1>2, <1>4
<1>6. d \in Seq(Char) /\ Len(d) = 2 /\ d[1] = a /\ d[2] = b
  BY <1>1, <1>3
<1>7. c = d
  <2>1. \A i \in 1..2 : i = 1 \/ i = 2
    OBVIOUS
  <2>2. \A i \in 1..Len(c) : c[i] = d[i]
    BY <1>5, <1>6, <2>1
  <2>3. QED BY <1>4, <1>5, <1>6, <2>2, SeqEqual
<1>8. QED BY <1>1, <1>3, <1>7

LEMMA ThreeChars ==
  ASSUME NEW a \in Char, NEW b \in Char, NEW c \in Char
  PROVE  <<a, b, c>> \in Seq(Char) /\ <<a>> \o (<<b>> \o <<c>>) = <<a, b, c>>
<1>1. PICK d, e, r : d = <<a, b, c>> /\ e = <<b, c>> /\ r = <<a>> \o e
  OBVIOUS
<1>2. d \in Seq(Char) /\ Len(d) = 3 /\ d[1] = a /\ d[2] = b /\ d[3] = c
  BY <1>1
<1>3. e \in Seq(Char) /\ Len(e) = 2 /\ e[1] = b /\ e[2] = c
  BY <1>1
<1>4. <<a>> \in Seq(Char) /\ Len(<<a>>) = 1 /\ <<a>>[1] = a
  BY OneChar
<1>5. /\ r \in Seq(Char) /\ Len(r) = 1 + 2
      /\ \A i \in 1..(1 + 2) : r[i] = IF i <= 1 THEN <<a>>[i] ELSE e[i - 1]
  BY <1>1, <1>3, <1>4, ConcatProperties
<1>6. Len(r) = 3 /\ r[1] = a /\ r[2] = b /\ r[3] = c
  BY <1>3, <1>4, <1>5
<1>7. d = r
  <2>1. \A i \in 1..3 : i = 1 \/ i = 2 \/ i = 3
    OBVIOUS
  <2>2. \A i \in 1..Len(d) : d[i] = r[i]
    BY <1>2, <1>6, <2>1
  <2>3. QED BY <1>2, <1>5, <1>6, <2>2, SeqEqual
<1>8. <<b>> \o <<c>> = e
  BY <1>1, TwoChars
<1>9. QED BY <1>1, <1>2, <1>7, <1>8

(* a minimum that is known is Min *)
LEMMA MinIs ==
  ASSUME NEW S, S \subseteq Nat, NEW m \in S, \A y \in S : m =< y
  PROVE  Min(S) = m
<1>1. \E x \in S : \A y \in S : x =< y
  OBVIOUS
<1>2. PICK x : x = Min(S)
  OBVIOUS
<1>3. x \in S /\ \A y \in S : x =< y
  BY <1>1, <1>2 DEF Min
<1>4. QED BY <1>2, <1>3

LEMMA SkipPrefix ==
  ASSUME NEW S, NEW s \in Seq(S), NEW t \in Seq(S)
  PROVE  Skip(s \o t, Len(s)) = t /\ SubSeq(s \o t, 1, Len(s)) = s
<1>1. Len(s) \in Nat /\ Len(t) \in Nat
  BY LenProperties
<1>2. PICK c : c = s \o t
  OBVIOUS
<1>3. /\ c \in Seq(S) /\ Len(c) = Len(s) + Len(t)
      /\ \A i \in 1..(Len(s) + Len(t)) : c[i] = IF i <= Len(s) THEN s[i] ELSE t[i - Len(s)]
  BY <1>2, ConcatProperties
<1>4. \A i \in 1..Len(c) : c[i] \in S
  BY <1>3, ElementOfSeq
<1>5. Skip(c, Len(s)) = t
  <2>1. PICK d : d = SubSeq(c, Len(s) + 1, Len(c))
    OBVIOUS
  <2>2. Len(s) + 1 \in Int /\ Len(c) \in Int /\ \A i \in (Len(s) + 1)..Len(c) : c[i] \in S
    BY <1>1, <1>3, <1>4
  <2>3. /\ d \in Seq(S) /\ Len(d) = IF Len(s) + 1 <= Len(c) THEN Len(c) - (Len(s) + 1) + 1 ELSE 0
        /\ \A i \in 1..(Len(c) - (Len(s) + 1) + 1) : d[i] = c[(Len(s) + 1) + i - 1]
    BY <2>1, <2>2, SubSeqProperties
  <2>4. Len(d) = Len(t)
    BY <1>1, <1>3, <2>3
  <2>5. ASSUME NEW i \in 1..Len(d)
        PROVE  d[i] = t[i]
    <3>1. d[i] = c[Len(s) + i] /\ (Len(s) + i) - Len(s) = i
      BY <1>1, <1>3, <2>3, <2>4
    <3>2. Len(s) + i \in 1..(Len(s) + Len(t)) /\ ~(Len(s) + i <= Len(s))
      BY <1>1, <2>4
    <3>3. c[Len(s) + i] = t[(Len(s) + i) - Len(s)]
      BY <1>3, <3>2
    <3>4. QED BY <3>1, <3>3
  <2>6. d = t
    BY <2>3, <2>4, <2>5, SeqEqual
  <2>7. QED BY <2>1, <2>6 DEF Skip
<1>6. SubSeq(c, 1, Len(s)) = s
  <2>1. PICK d : d = SubSeq(c, 1, Len(s))
    OBVIOUS
  <2>2. 1 \in Int /\ Len(s) \in Int /\ \A i \in 1..Len(s) : c[i] \in S
    BY <1>1, <1>3, <1>4
  <2>3. /\ d \in Seq(S) /\ Len(d) = IF 1 <= Len(s) THEN Len(s) - 1 + 1 ELSE 0
        /\ \A i \in 1..(Len(s) - 1 + 1) : d[i] = c[1 + i - 1]
    BY <2>1, <2>2, SubSeqProperties
  <2>4. Len(d) = Len(s)
    BY <1>1, <2>3
  <2>5. ASSUME NEW i \in 1..Len(d)
        PROVE  d[i] = s[i]
    <3>1. d[i] = c[i]
      BY <1>1, <2>3, <2>4
    <3>2. QED BY <1>1, <1>3, <2>4, <3>1
  <2>6. d = s
    BY <2>3, <2>4, <2>5, SeqEqual
  <2>7. QED BY <2>1, <2>6
<1>7. QED BY <1>2, <1>5, <1>6

(* s \o t, with the first character of t in C and none of s *)
LEMMA FirstIndex ==
  ASSUME NEW s \in Seq(Char), NEW t \in Seq(Char), NEW C, Without(s, C), t /= << >>, t[1] \in C
  PROVE  /\ {i \in 1..Len(s \o t) : (s \o t)[i] \in C} /= {}
         /\ Min({i \in 1..Len(s \o t) : (s \o t)[i] \in C}) = Len(s) + 1
<1>1. Len(s) \in Nat /\ Len(t) \in Nat /\ Len(t) >= 1
  BY LenProperties, EmptySeq
<1>2. PICK c : c = s \o t
  OBVIOUS
<1>3. /\ c \in Seq(Char) /\ Len(c) = Len(s) + Len(t)
      /\ \A i \in 1..(Len(s) + Len(t)) : c[i] = IF i <= Len(s) THEN s[i] ELSE t[i - Len(s)]
  BY <1>2, ConcatProperties
<1>4. PICK I : I = {i \in 1..Len(c) : c[i] \in C}
  OBVIOUS
<1>5. Len(s) + 1 \in I
  BY <1>1, <1>3, <1>4
<1>6. \A i \in I : Len(s) + 1 =< i
  BY <1>1, <1>3, <1>4 DEF Without
<1>7. I \subseteq Nat
  BY <1>1, <1>3, <1>4
<1>8. QED BY <1>2, <1>4, <1>5, <1>6, <1>7, MinIs

LEMMA OffsetIs ==
  ASSUME NEW s \in Seq(Char), NEW t \in Seq(Char), NEW ch, Without(s, {ch}), t /= << >>, t[1] = ch
  PROVE  Offset(s \o t, ch) = Len(s) + 1
<1>1. /\ {i \in 1..Len(s \o t) : (s \o t)[i] \in {ch}} /= {}
      /\ Min({i \in 1..Len(s \o t) : (s \o t)[i] \in {ch}}) = Len(s) + 1
  BY FirstIndex
<1>2. {i \in 1..Len(s \o t) : (s \o t)[i] \in {ch}} = {i \in 1..Len(s \o t) : (s \o t)[i] = ch}
  OBVIOUS
<1>3. QED BY <1>1, <1>2 DEF Offset, SelectInSeq

LEMMA ReadUntilIs ==
  ASSUME NEW s \in Seq(Char), NEW t \in Seq(Char), NEW ch, Without(s, {ch}), t /= << >>, t[1] = ch
  PROVE  /\ ReadUntil(Cat(s, t), ch) = [text |-> s, rest |-> t]
         /\ SkipUntil(Cat(s, t), ch) = t
<1> USE DEF Cat
<1>1. Offset(s \o t, ch) = Len(s) + 1 /\ Len(s) \in Nat
  BY OffsetIs, LenProperties
<1>2. Offset(s \o t, ch) /= 0 /\ Offset(s \o t, ch) - 1 = Len(s)
  BY <1>1
<1>3. Skip(s \o t, Len(s)) = t /\ SubSeq(s \o t, 1, Len(s)) = s
  BY SkipPrefix
<1>4. QED BY <1>2, <1>3 DEF ReadUntil, SkipUntil

LEMMA SkipOneIs ==
  ASSUME NEW c \in Char, NEW t \in Seq(Char)
  PROVE  SkipOne(Cat(<<c>>, t)) = t
<1> USE DEF Cat
<1>1. <<c>> \in Seq(Char) /\ Len(<<c>>) = 1
  OBVIOUS
<1>2. Skip(<<c>> \o t, Len(<<c>>)) = t
  BY <1>1, SkipPrefix
<1>3. QED BY <1>1, <1>2 DEF SkipOne

(* s \o t, with spaces in s only at its beginning *)
LEMMA SkipSpacesIs ==
  ASSUME NEW s \in Seq(Char), NEW t \in Seq(Char), Without(s, Char \ Space), t /= << >>,
         t[1] \notin Space
  PROVE  SkipSpaces(Cat(s, t)) = t
<1> USE DEF Cat
<1>1. s \o t \in Seq(Char) /\ Len(s) \in Nat
  BY ConcatProperties, LenProperties
<1>2. t[1] \in Char \ Space
  <2>1. Len(t) \in Nat /\ Len(t) >= 1
    BY LenProperties, EmptySeq
  <2>2. QED BY <2>1, ElementOfSeq
<1>3. /\ {i \in 1..Len(s \o t) : (s \o t)[i] \in Char \ Space} /= {}
      /\ Min({i \in 1..Len(s \o t) : (s \o t)[i] \in Char \ Space}) = Len(s) + 1
  BY <1>2, FirstIndex
<1>4. {i \in 1..Len(s \o t) : (s \o t)[i] \in Char \ Space}
        = {i \in 1..Len(s \o t) : (s \o t)[i] \notin Space}
  BY <1>1, ElementOfSeq
<1>5. SelectInSeq(s \o t, LAMBDA c : c \notin Space) = Len(s) + 1
  BY <1>3, <1>4 DEF SelectInSeq
<1>6. Skip(s \o t, (Len(s) + 1) - 1) = t
  <2>1. (Len(s) + 1) - 1 = Len(s)
    BY <1>1
  <2>2. QED BY <2>1, SkipPrefix
<1>7. Len(s) + 1 /= 0
  BY <1>1
<1>8. QED BY <1>5, <1>6, <1>7 DEF SkipSpaces

LEMMA SkipSpacesNone ==
  ASSUME NEW t \in Seq(Char), t /= << >>, t[1] \notin Space
  PROVE  SkipSpaces(t) = t
<1> USE DEF Cat
<1>1. << >> \in Seq(Char) /\ Without(<< >>, Char \ Space)
  BY DEF Without
<1>2. << >> \o t = t
  BY ConcatEmptySeq
<1>3. QED BY <1>1, <1>2, SkipSpacesIs

LEMMA SkipSpacesAll ==
  ASSUME NEW s \in Seq(Char), Without(s, Char \ Space)
  PROVE  SkipSpaces(s) = << >>
<1>1. \A i \in 1..Len(s) : s[i] \in Space
  BY ElementOfSeq DEF Without
<1>2. {i \in 1..Len(s) : s[i] \notin Space} = {}
  BY <1>1
<1>3. SelectInSeq(s, LAMBDA c : c \notin Space) = 0
  BY <1>2 DEF SelectInSeq
<1>4. QED BY <1>3 DEF SkipSpaces

(* SkipLine, of the rest of a line and what follows its LF *)
LEMMA SkipLineIs ==
  ASSUME NEW s \in Seq(Char), Without(s, {"lf"}), NEW u \in Seq(Char)
  PROVE  SkipLine(Cat(s, Cat(<<"lf">>, u))) = IF u /= << >> /\ Head(u) = "cr" THEN SkipOne(u) ELSE u
<1> USE DEF Cat
<1>1. "lf" \in Char /\ <<"lf">> \in Seq(Char)
  BY CharFacts, OneChar
<1>2. PICK t : t = <<"lf">> \o u
  OBVIOUS
<1>3. t \in Seq(Char) /\ t /= << >> /\ t[1] = "lf"
  BY <1>1, <1>2, PushFacts, ConcatProperties
<1>4. SkipUntil(s \o t, "lf") = t
  BY <1>3, ReadUntilIs
<1>5. SkipOne(t) = u
  BY <1>1, <1>2, SkipOneIs
<1>6. SkipAfter(s \o t, "lf") = u
  BY <1>4, <1>5 DEF SkipAfter
<1>7. QED BY <1>2, <1>6 DEF SkipLine

(* what is left after a line and the spaces that follow: the next line, or *)
(* nothing                                                                 *)
LEMMA AfterLine ==
  ASSUME NEW s \in Seq(Char), Without(s, {"lf"}), NEW p \in {<< >>, <<"cr">>}, NEW t \in Seq(Char)
  PROVE  /\ t /= << >> /\ t[1] \notin Space
              => SkipSpaces(SkipLine(Cat(s, Cat(<<"lf">>, Cat(p, t))))) = t
         /\ Without(t, Char \ Space)
              => SkipSpaces(SkipLine(Cat(s, Cat(<<"lf">>, Cat(p, t))))) = << >>
<1> USE DEF Cat
<1>1. "cr" \in Char /\ "cr" \in Space /\ <<"cr">> \in Seq(Char) /\ << >> \in Seq(Char)
  <2>1. "cr" \in Char /\ <<"cr">> \in Seq(Char)
    BY CharFacts, OneChar
  <2>2. QED BY <2>1 DEF Space
<1>2. PICK u, r : u = p \o t /\ r = SkipLine(s \o (<<"lf">> \o u))
  OBVIOUS
<1>3. u \in Seq(Char)
  BY <1>1, <1>2, ConcatProperties
<1>4. r = IF u /= << >> /\ Head(u) = "cr" THEN SkipOne(u) ELSE u
  BY <1>2, <1>3, SkipLineIs
<1>5. CASE p = <<"cr">>
  <2>1. u /= << >> /\ Head(u) = "cr" /\ SkipOne(u) = t
    BY <1>1, <1>2, <1>5, PushFacts, ConcatHeadTail, SkipOneIs
  <2>2. r = t
    BY <1>4, <2>1
  <2>3. QED BY <1>2, <2>2, SkipSpacesNone, SkipSpacesAll
<1>6. CASE p = << >>
  <2>1. u = t
    BY <1>2, <1>6, ConcatEmptySeq
  <2>2. ASSUME t /= << >>, t[1] \notin Space
        PROVE  SkipSpaces(r) = t
    <3>1. Head(t) /= "cr"
      BY <1>1, <2>2
    <3>2. QED BY <1>4, <2>1, <2>2, <3>1, SkipSpacesNone
  <2>3. ASSUME Without(t, Char \ Space)
        PROVE  SkipSpaces(r) = << >>
    <3>1. CASE u /= << >> /\ Head(u) = "cr"
      <4>1. Len(t) \in Nat /\ Len(t) >= 1 /\ \A i \in 1..Len(t) : t[i] \in Char
        BY <2>1, <3>1, LenProperties, EmptySeq, ElementOfSeq
      <4>2. PICK d : d = SubSeq(t, 1 + 1, Len(t))
        OBVIOUS
      <4>3. 1 + 1 \in Int /\ Len(t) \in Int /\ \A i \in (1 + 1)..Len(t) : t[i] \in Char
        BY <4>1
      <4>4. /\ d \in Seq(Char) /\ Len(d) = IF 1 + 1 <= Len(t) THEN Len(t) - (1 + 1) + 1 ELSE 0
            /\ \A i \in 1..(Len(t) - (1 + 1) + 1) : d[i] = t[(1 + 1) + i - 1]
        BY <4>2, <4>3, SubSeqProperties
      <4>5. ASSUME NEW i \in 1..Len(d)
            PROVE  d[i] \notin Char \ Space
        <5>1. d[i] = t[(1 + 1) + i - 1] /\ (1 + 1) + i - 1 \in 1..Len(t)
          BY <4>1, <4>4
        <5>2. QED BY <2>3, <5>1 DEF Without
      <4>6. Without(d, Char \ Space)
        BY <4>5 DEF Without
      <4>7. r = d
        BY <1>4, <2>1, <3>1, <4>2 DEF SkipOne, Skip
      <4>8. QED BY <4>4, <4>6, <4>7, SkipSpacesAll
    <3>2. CASE ~(u /= << >> /\ Head(u) = "cr")
      BY <1>4, <2>1, <2>3, <3>2, SkipSpacesAll
    <3>3. QED BY <3>1, <3>2
  <2>4. QED BY <1>2, <2>2, <2>3
<1>7. QED BY <1>5, <1>6

----------------------------------------------------------------------------
(***************************************************************************)
(* The header of a response.  T[i] is the text from field i on; Parse has  *)
(* read j of the fields when T[j + 1] is left, and the dictionary has the  *)
(* last value of each name among those j.                                  *)
(***************************************************************************)
Field == [key : Keys, value : Values, colon : BOOLEAN]
BeforeLF(eol) == IF Head(eol) = "cr" THEN <<"cr">> ELSE << >>
AfterLF(eol) == IF eol = <<"lf", "cr">> THEN <<"cr">> ELSE << >>

SentType == sent \in [fields : Seq(Field), eol : LineEnds]

LineOf(f, eol) ==
  (IF f.colon THEN <<f.key, "colon", "space">> ELSE <<f.key>>) \o f.value \o eol

Tails(T, end) ==
  /\ T \in [Nat -> Seq(Char)]
  /\ T[Len(sent.fields) + 1] = end
  /\ \A i \in 1..Len(sent.fields) : T[i] = Cat(LineOf(sent.fields[i], sent.eol), T[i + 1])

ParsedFrom(dict, s, j) ==
  /\ DOMAIN dict = {<<s.fields[i].key>> : i \in 1..j}
  /\ \A i \in 1..j : \E l \in 1..j :
       /\ s.fields[l].key = s.fields[i].key
       /\ \A x \in (l + 1)..j : s.fields[x].key /= s.fields[i].key
       /\ dict[<<s.fields[i].key>>] = Cat(s.fields[l].value, BeforeLF(s.eol))

Parsed(j) == ParsedFrom(dictionary, sent, j)

LeftToRead(T, j) ==
  /\ j \in 0..Len(sent.fields)
  /\ SkipSpaces(reader) = IF j < Len(sent.fields) THEN T[j + 1] ELSE << >>

HeaderInv ==
  /\ call.at = "perform" =>
       /\ SentType
       /\ \E T : Tails(T, << >>) /\ header = Cat(Cat(<<"http", "k">>, sent.eol), T[1])
  /\ call.at = "parse" /\ WellFormed =>
       /\ SentType
       /\ \E T, j : Tails(T, sent.eol) /\ LeftToRead(T, j) /\ Parsed(j)
  /\ call.at = "parsed" /\ WellFormed => SentType /\ Parsed(Len(sent.fields))

LEMMA LineEndFacts ==
  ASSUME NEW eol \in LineEnds
  PROVE  /\ eol \in Seq(Char) /\ BeforeLF(eol) \in Seq(Char) /\ AfterLF(eol) \in Seq(Char)
         /\ AfterLF(eol) \in {<< >>, <<"cr">>}
         /\ Without(BeforeLF(eol), {"lf"}) /\ Without(eol, Char \ Space)
         /\ eol = BeforeLF(eol) \o (<<"lf">> \o AfterLF(eol))
<1>1. "lf" \in Char /\ "cr" \in Char
  BY CharFacts
<1>2. eol \in {<<"lf">>, <<"cr", "lf">>, <<"lf", "cr">>}
  BY HttpAssumption
<1>3. CASE eol = <<"lf">>
  <2>1. BeforeLF(eol) = << >> /\ AfterLF(eol) = << >>
    BY <1>3 DEF BeforeLF, AfterLF
  <2>2. <<"lf">> \o << >> = <<"lf">> /\ << >> \o <<"lf">> = <<"lf">>
    OBVIOUS
  <2>3. eol \in Seq(Char) /\ << >> \in Seq(Char)
    BY <1>1, <1>3
  <2>4. Without(<< >>, {"lf"}) /\ Without(eol, Char \ Space)
    BY <1>3 DEF Without, Space
  <2>5. QED BY <1>3, <2>1, <2>2, <2>3, <2>4
<1>4. CASE eol = <<"cr", "lf">>
  <2>1. BeforeLF(eol) = <<"cr">> /\ AfterLF(eol) = << >>
    BY <1>4 DEF BeforeLF, AfterLF
  <2>2. <<"lf">> \o << >> = <<"lf">> /\ <<"cr">> \o <<"lf">> = <<"cr", "lf">>
    BY <1>1, TwoChars, OneChar, ConcatEmptySeq
  <2>3. eol \in Seq(Char) /\ << >> \in Seq(Char) /\ <<"cr">> \in Seq(Char)
    BY <1>1, <1>4
  <2>4. Without(<<"cr">>, {"lf"}) /\ Without(eol, Char \ Space)
    BY <1>4 DEF Without, Space
  <2>5. QED BY <1>4, <2>1, <2>2, <2>3, <2>4
<1>5. CASE eol = <<"lf", "cr">>
  <2>1. BeforeLF(eol) = << >> /\ AfterLF(eol) = <<"cr">>
    BY <1>5 DEF BeforeLF, AfterLF
  <2>2. << >> \o <<"lf", "cr">> = <<"lf", "cr">> /\ <<"lf">> \o <<"cr">> = <<"lf", "cr">>
    BY <1>1, TwoChars, ConcatEmptySeq
  <2>3. eol \in Seq(Char) /\ << >> \in Seq(Char) /\ <<"cr">> \in Seq(Char)
    BY <1>1, <1>5
  <2>4. Without(<< >>, {"lf"}) /\ Without(eol, Char \ Space)
    BY <1>5 DEF Without, Space
  <2>5. QED BY <1>5, <2>1, <2>2, <2>3, <2>4
<1>6. QED BY <1>2, <1>3, <1>4, <1>5

(* names and values are texts *)
LEMMA ValueText ==
  ASSUME NEW v \in Values
  PROVE  /\ v \in Seq(Char) /\ Without(v, {"lf"})
         /\ v /= << >> => v[1] \notin Space
<1>1. v \in Seq(ToSet(v)) /\ "lf" \notin ToSet(v) /\ (v /= << >> => Head(v) \notin Space)
  BY HttpAssumption
<1>2. \A c \in ToSet(v) : c \in Char
  BY DEF Char
<1>3. Len(v) \in Nat /\ DOMAIN v = 1..Len(v) /\ v \in [1..Len(v) -> ToSet(v)]
  BY <1>1, LenProperties
<1>4. v \in Seq(Char)
  BY <1>2, <1>3, <1>1, SeqDef
<1>5. \A i \in 1..Len(v) : v[i] \in ToSet(v)
  BY <1>3
<1>6. Without(v, {"lf"})
  BY <1>1, <1>5 DEF Without
<1>7. QED BY <1>1, <1>4, <1>6

LEMMA KeyChar ==
  ASSUME NEW k \in Keys
  PROVE  k \in Char /\ k \notin Space /\ Without(<<k>>, {"colon"}) /\ <<k>> \in Seq(Char)
<1>1. k \in Char /\ k \notin Space /\ k /= "colon"
  BY HttpAssumption DEF Char
<1>2. QED BY <1>1, OneChar DEF Without

LEMMA LineText ==
  ASSUME SentType, NEW f \in Field
  PROVE  Line(f) \in Seq(Char)
<1>1. f.key \in Char /\ f.value \in Seq(Char) /\ sent.eol \in Seq(Char)
  BY KeyChar, ValueText, LineEndFacts DEF Field, SentType
<1>2. PICK s : s = IF f.colon THEN <<f.key, "colon", "space">> ELSE <<f.key>>
  OBVIOUS
<1>3. s \in Seq(Char)
  BY <1>1, <1>2, ThreeChars, OneChar, CharFacts
<1>4. s \o f.value \in Seq(Char)
  BY <1>1, <1>3, ConcatProperties
<1>5. (s \o f.value) \o sent.eol \in Seq(Char)
  BY <1>1, <1>4, ConcatProperties
<1>6. QED BY <1>2, <1>5 DEF Line

(* a line from its parts, and the parts as the reader takes them *)
Regrouped(a, b, c, v, p, l, q, t) ==
  Cat(Cat(Cat(Cat(a, Cat(b, c)), v), Cat(p, Cat(l, q))), t)
    = Cat(a, Cat(b, Cat(c, Cat(Cat(v, p), Cat(l, Cat(q, t))))))

LEMMA Regroup ==
  ASSUME NEW a \in Seq(Char), NEW b \in Seq(Char), NEW c \in Seq(Char), NEW v \in Seq(Char),
         NEW p \in Seq(Char), NEW l \in Seq(Char), NEW q \in Seq(Char), NEW t \in Seq(Char)
  PROVE  Regrouped(a, b, c, v, p, l, q, t)
<1> DEFINE bc == Cat(b, c)
           lq == Cat(l, q)
           tail == Cat(l, Cat(q, t))
           line == Cat(Cat(v, p), tail)
<1>1. bc \in Seq(Char) /\ lq \in Seq(Char) /\ Cat(q, t) \in Seq(Char) /\ Cat(v, p) \in Seq(Char)
  BY CatFacts
<1>2. Cat(a, bc) \in Seq(Char) /\ Cat(p, lq) \in Seq(Char) /\ tail \in Seq(Char)
  BY <1>1, CatFacts
<1>3. Cat(Cat(a, bc), v) \in Seq(Char) /\ Cat(p, tail) \in Seq(Char) /\ line \in Seq(Char)
  BY <1>1, <1>2, CatFacts
<1>4. Cat(Cat(p, lq), t) = Cat(p, tail)
  <2>1. Cat(Cat(p, lq), t) = Cat(p, Cat(lq, t))
    BY <1>1, CatAssociative
  <2>2. Cat(lq, t) = tail
    BY CatAssociative
  <2>3. QED BY <2>1, <2>2
<1>5. Cat(Cat(Cat(Cat(a, bc), v), Cat(p, lq)), t) = Cat(Cat(Cat(a, bc), v), Cat(p, tail))
  <2>1. Cat(Cat(Cat(Cat(a, bc), v), Cat(p, lq)), t)
          = Cat(Cat(Cat(a, bc), v), Cat(Cat(p, lq), t))
    BY <1>2, <1>3, CatAssociative
  <2>2. QED BY <1>4, <2>1
<1>6. Cat(Cat(Cat(a, bc), v), Cat(p, tail)) = Cat(Cat(a, bc), line)
  <2>1. Cat(Cat(Cat(a, bc), v), Cat(p, tail)) = Cat(Cat(a, bc), Cat(v, Cat(p, tail)))
    BY <1>2, <1>3, CatAssociative
  <2>2. Cat(v, Cat(p, tail)) = line
    BY <1>2, CatAssociative
  <2>3. QED BY <2>1, <2>2
<1>7. Cat(Cat(a, bc), line) = Cat(a, Cat(b, Cat(c, line)))
  <2>1. Cat(Cat(a, bc), line) = Cat(a, Cat(bc, line))
    BY <1>1, <1>3, CatAssociative
  <2>2. Cat(bc, line) = Cat(b, Cat(c, line))
    BY <1>3, CatAssociative
  <2>3. QED BY <2>1, <2>2
<1>8. QED BY <1>5, <1>6, <1>7 DEF Regrouped

(* the parts of the line of a field, and what follows it *)
Parts(k, v, p, q, t) ==
  Cat(<<k>>, Cat(<<"colon">>, Cat(<<"space">>, Cat(Cat(v, p), Cat(<<"lf">>, Cat(q, t))))))

LEMMA LineParts ==
  ASSUME SentType, NEW f \in Field, f.colon, NEW t \in Seq(Char)
  PROVE  Cat(Line(f), t)
           = Parts(f.key, f.value, BeforeLF(sent.eol), AfterLF(sent.eol), t)
<1>1. f.key \in Keys /\ f.value \in Values /\ sent.eol \in LineEnds
  BY DEF Field, SentType
<1>2. f.value \in Seq(Char) /\ BeforeLF(sent.eol) \in Seq(Char) /\ AfterLF(sent.eol) \in Seq(Char)
  BY <1>1, ValueText, LineEndFacts
<1>3. sent.eol = Cat(BeforeLF(sent.eol), Cat(<<"lf">>, AfterLF(sent.eol)))
  BY <1>1, LineEndFacts DEF Cat
<1>4. /\ <<f.key>> \in Seq(Char) /\ <<"colon">> \in Seq(Char) /\ <<"space">> \in Seq(Char)
      /\ <<"lf">> \in Seq(Char)
  BY <1>1, KeyChar, CharFacts, OneChar
<1>5. <<f.key, "colon", "space">> = Cat(<<f.key>>, Cat(<<"colon">>, <<"space">>))
  BY <1>1, KeyChar, CharFacts, ThreeChars DEF Cat
<1>6. Line(f) = Cat(Cat(<<f.key, "colon", "space">>, f.value), sent.eol)
  BY DEF Line, Cat
<1>7. QED
  <2> DEFINE a == <<f.key>>
             b == <<"colon">>
             c == <<"space">>
             l == <<"lf">>
             v == f.value
             p == BeforeLF(sent.eol)
             q == AfterLF(sent.eol)
  <2>1. /\ a \in Seq(Char) /\ b \in Seq(Char) /\ c \in Seq(Char) /\ l \in Seq(Char)
        /\ v \in Seq(Char) /\ p \in Seq(Char) /\ q \in Seq(Char)
    BY <1>2, <1>4
  <2>2. Line(f) = Cat(Cat(Cat(a, Cat(b, c)), v), Cat(p, Cat(l, q)))
    BY <1>3, <1>5, <1>6
  <2> HIDE DEF a, b, c, l, v, p, q
  <2>3. Cat(Line(f), t) = Cat(a, Cat(b, Cat(c, Cat(Cat(v, p), Cat(l, Cat(q, t))))))
    <3>1. Regrouped(a, b, c, v, p, l, q, t)
      BY <2>1, Regroup
    <3>2. QED BY <2>2, <3>1 DEF Regrouped
  <2>4. QED BY <2>3 DEF Parts, a, b, c, l, v, p, q

(* one round of Parse, on the line of a field in its parts *)
Reads(s, k, x, t) ==
  LET key == ReadUntil(s, "colon")
      val == ReadToEndLine(SkipSpaces(SkipOne(key.rest)))
  IN  /\ s \in Seq(Char) /\ s /= << >> /\ s[1] = k
      /\ key.text = <<k>> /\ key.rest /= << >>
      /\ val.text = x
      /\ t /= << >> /\ t[1] \notin Space => SkipSpaces(val.rest) = t
      /\ Without(t, Char \ Space) => SkipSpaces(val.rest) = << >>

LEMMA ReadParts ==
  ASSUME NEW k \in Keys, NEW v \in Values, v /= << >>, NEW p \in Seq(Char), Without(p, {"lf"}),
         NEW q \in {<< >>, <<"cr">>}, q \in Seq(Char), NEW t \in Seq(Char)
  PROVE  Reads(Parts(k, v, p, q, t), k, Cat(v, p), t)
<1> DEFINE r == Cat(<<"lf">>, Cat(q, t))
           x == Cat(v, p)
           s3 == Cat(x, r)
           s2 == Cat(<<"space">>, s3)
           s1 == Cat(<<"colon">>, s2)
           s == Cat(<<k>>, s1)
<1>1. /\ k \in Char /\ Without(<<k>>, {"colon"}) /\ <<k>> \in Seq(Char)
      /\ v \in Seq(Char) /\ Without(v, {"lf"}) /\ v[1] \notin Space
  BY KeyChar, ValueText
<1>2. "lf" \in Char /\ "colon" \in Char /\ "space" \in Char /\ "space" \in Space
  BY CharFacts DEF Space
<1>3. r \in Seq(Char) /\ r /= << >> /\ r[1] = "lf" /\ x \in Seq(Char)
  <2>1. Cat(q, t) \in Seq(Char) /\ x \in Seq(Char)
    BY <1>1, CatFacts
  <2>2. QED BY <1>2, <2>1, FrontChar
<1>4. /\ Len(x) = Len(v) + Len(p)
      /\ \A i \in 1..(Len(v) + Len(p)) : x[i] = IF i <= Len(v) THEN v[i] ELSE p[i - Len(v)]
  BY <1>1, CatItems
<1>5. /\ s3 \in Seq(Char) /\ Len(s3) = Len(x) + Len(r)
      /\ \A i \in 1..(Len(x) + Len(r)) : s3[i] = IF i <= Len(x) THEN x[i] ELSE r[i - Len(x)]
  <2> HIDE DEF x, r
  <2>1. QED BY <1>3, CatFacts, CatItems
<1> HIDE DEF r, x, s3
<1>6. s3 /= << >> /\ s3[1] \notin Space /\ Without(x, {"lf"})
  <2>1. Len(v) \in Nat /\ Len(v) >= 1 /\ Len(p) \in Nat /\ Len(r) \in Nat
    BY <1>1, <1>3, LenProperties, EmptySeq
  <2>2. s3[1] = v[1] /\ Len(s3) >= 1
    BY <1>4, <1>5, <2>1
  <2>3. s3 /= << >>
    BY <2>2
  <2>4. ASSUME NEW i \in 1..Len(x)
        PROVE  x[i] \notin {"lf"}
    <3>1. CASE i <= Len(v)
      BY <1>1, <1>4, <2>1, <3>1 DEF Without
    <3>2. CASE ~(i <= Len(v))
      <4>1. i - Len(v) \in 1..Len(p) /\ x[i] = p[i - Len(v)]
        BY <1>4, <2>1, <3>2
      <4>2. QED BY <4>1 DEF Without
    <3>3. QED BY <3>1, <3>2
  <2>5. QED BY <1>1, <2>2, <2>3, <2>4 DEF Without
<1>7. s2 \in Seq(Char) /\ SkipSpaces(s2) = s3
  <2>1. <<"space">> \in Seq(Char) /\ Len(<<"space">>) = 1 /\ <<"space">>[1] = "space"
    BY <1>2, OneChar
  <2>2. Without(<<"space">>, Char \ Space)
    BY <1>2, <2>1 DEF Without
  <2>3. QED BY <1>5, <1>6, <2>1, <2>2, CatFacts, SkipSpacesIs
<1> HIDE DEF s2
<1>8. s1 \in Seq(Char) /\ s1 /= << >> /\ s1[1] = "colon" /\ SkipOne(s1) = s2
  BY <1>2, <1>7, FrontChar, SkipOneIs
<1> HIDE DEF s1
<1>9. ReadUntil(s, "colon") = [text |-> <<k>>, rest |-> s1]
  BY <1>1, <1>8, ReadUntilIs
<1>10. s \in Seq(Char) /\ s /= << >> /\ s[1] = k
  BY <1>1, <1>8, FrontChar
<1>11. ReadUntil(s3, "lf") = [text |-> x, rest |-> r]
  BY <1>3, <1>6, ReadUntilIs DEF s3
<1>12. ReadToEndLine(s3) = [text |-> x, rest |-> SkipLine(r)]
  BY <1>11 DEF ReadToEndLine
<1>13. /\ t /= << >> /\ t[1] \notin Space => SkipSpaces(SkipLine(r)) = t
       /\ Without(t, Char \ Space) => SkipSpaces(SkipLine(r)) = << >>
  <2>1. << >> \in Seq(Char) /\ Without(<< >>, {"lf"})
    BY DEF Without
  <2>2. Cat(<< >>, r) = r
    BY <1>3, ConcatEmptySeq DEF Cat
  <2>3. /\ t /= << >> /\ t[1] \notin Space => SkipSpaces(SkipLine(Cat(<< >>, r))) = t
        /\ Without(t, Char \ Space) => SkipSpaces(SkipLine(Cat(<< >>, r))) = << >>
    BY <2>1, AfterLine DEF r
  <2>4. QED BY <2>2, <2>3
<1> HIDE DEF s
<1>14. /\ ReadUntil(s, "colon").text = <<k>> /\ ReadUntil(s, "colon").rest = s1
       /\ ReadToEndLine(SkipSpaces(SkipOne(ReadUntil(s, "colon").rest))).text = x
       /\ ReadToEndLine(SkipSpaces(SkipOne(ReadUntil(s, "colon").rest))).rest = SkipLine(r)
  BY <1>7, <1>8, <1>9, <1>12
<1>15. s = Parts(k, v, p, q, t) /\ x = Cat(v, p)
  BY DEF Parts, s, s1, s2, s3, x, r
<1>16. Reads(s, k, x, t)
  BY <1>8, <1>10, <1>13, <1>14 DEF Reads
<1>17. QED BY <1>15, <1>16

LEMMA ReadLine ==
  ASSUME SentType, NEW f \in Field, f.colon, f.value /= << >>, NEW t \in Seq(Char)
  PROVE  Reads(Cat(Line(f), t), f.key, Cat(f.value, BeforeLF(sent.eol)), t)
<1>1. f.key \in Keys /\ f.value \in Values /\ sent.eol \in LineEnds
  BY DEF Field, SentType
<1>2. /\ BeforeLF(sent.eol) \in Seq(Char) /\ Without(BeforeLF(sent.eol), {"lf"})
      /\ AfterLF(sent.eol) \in Seq(Char) /\ AfterLF(sent.eol) \in {<< >>, <<"cr">>}
  BY <1>1, LineEndFacts
<1>3. Reads(Parts(f.key, f.value, BeforeLF(sent.eol), AfterLF(sent.eol), t), f.key,
            Cat(f.value, BeforeLF(sent.eol)), t)
  BY <1>1, <1>2, ReadParts
<1>4. QED BY <1>3, LineParts

LEMMA CatEmpty ==
  ASSUME NEW s \in Seq(Char)
  PROVE  Cat(s, << >>) = s /\ Cat(<< >>, s) = s
BY ConcatEmptySeq DEF Cat

(* texts that get u at their end, as the text of the fields does when a    *)
(* line or the empty line is received                                      *)
Longer(T, n, u) == [i \in Nat |-> IF i <= n THEN Cat(T[i], u) ELSE << >>]

LEMMA LongerFacts ==
  ASSUME NEW T \in [Nat -> Seq(Char)], NEW n \in Nat, NEW u \in Seq(Char)
  PROVE  /\ Longer(T, n, u) \in [Nat -> Seq(Char)]
         /\ \A i \in Nat : i <= n => Longer(T, n, u)[i] = Cat(T[i], u)
         /\ Longer(T, n, u)[n + 1] = << >>
<1>1. \A i \in Nat : Cat(T[i], u) \in Seq(Char)
  BY CatFacts
<1>2. << >> \in Seq(Char)
  OBVIOUS
<1>3. QED BY <1>1, <1>2 DEF Longer

LEMMA LongerChain ==
  ASSUME NEW T \in [Nat -> Seq(Char)], NEW n \in Nat, NEW u \in Seq(Char), NEW i \in 1..n,
         NEW l \in Seq(Char), T[i] = Cat(l, T[i + 1])
  PROVE  Longer(T, n + 1, u)[i] = Cat(l, Longer(T, n + 1, u)[i + 1])
<1>1. i \in Nat /\ i + 1 \in Nat /\ i <= n + 1 /\ i + 1 <= n + 1 /\ n + 1 \in Nat
  OBVIOUS
<1>2. Longer(T, n + 1, u)[i] = Cat(T[i], u) /\ Longer(T, n + 1, u)[i + 1] = Cat(T[i + 1], u)
  <2>1. \A j \in Nat : j <= n + 1 => Longer(T, n + 1, u)[j] = Cat(T[j], u)
    BY <1>1, LongerFacts
  <2>2. QED BY <1>1, <2>1
<1>3. T[i + 1] \in Seq(Char)
  BY <1>1
<1>4. Cat(Cat(l, T[i + 1]), u) = Cat(l, Cat(T[i + 1], u))
  BY <1>3, CatAssociative
<1>5. QED BY <1>2, <1>4

LEMMA StartHeader ==
  ASSUME NEW by, NEW r, NEW eol \in LineEnds, StartPerform(by, r, eol)
  PROVE  HeaderInv'
<1> DEFINE T == [i \in Nat |-> << >>]
<1>1. /\ call'.at = "perform" /\ header' = <<"http", "k">> \o eol
      /\ sent'.fields = << >> /\ sent'.eol = eol /\ sent' = [fields |-> << >>, eol |-> eol]
  BY DEF StartPerform
<1>2. SentType'
  BY <1>1 DEF SentType
<1>3. Len(sent'.fields) = 0
  BY <1>1
<1>4. Tails(T, << >>)'
  <2>1. << >> \in Seq(Char) /\ T \in [Nat -> Seq(Char)] /\ T[0 + 1] = << >>
    OBVIOUS
  <2>2. QED BY <1>3, <2>1 DEF Tails
<1>5. header' = Cat(Cat(<<"http", "k">>, sent'.eol), T[1])
  <2>1. eol \in Seq(Char) /\ <<"http", "k">> \in Seq(Char)
    BY LineEndFacts, CharFacts, TwoChars
  <2>2. Cat(<<"http", "k">>, eol) \in Seq(Char)
    BY <2>1, CatFacts
  <2>3. Cat(Cat(<<"http", "k">>, eol), << >>) = Cat(<<"http", "k">>, eol)
    BY <2>2, CatEmpty
  <2>4. T[1] = << >> /\ header' = Cat(<<"http", "k">>, eol)
    BY <1>1 DEF Cat
  <2>5. QED BY <1>1, <2>3, <2>4
<1> HIDE DEF T
<1>6. QED BY <1>1, <1>2, <1>4, <1>5 DEF HeaderInv

LEMMA WriteStep ==
  ASSUME HeaderInv, WriteHeader
  PROVE  HeaderInv'
<1>1. /\ call.at = "perform" /\ call' = call
      /\ SentType
  BY DEF HeaderInv, WriteHeader
<1>2. PICK T : Tails(T, << >>) /\ header = Cat(Cat(<<"http", "k">>, sent.eol), T[1])
  BY <1>1 DEF HeaderInv
<1>3. PICK f \in Field : /\ sent' = [sent EXCEPT !.fields = Append(@, f)]
                         /\ header' = header \o LineOf(f, sent.eol)
  BY DEF WriteHeader, Field, WriteFunction, Line, LineOf
<1> DEFINE n == Len(sent.fields)
           L == LineOf(f, sent.eol)
<1>4. /\ sent'.fields = Append(sent.fields, f) /\ sent'.eol = sent.eol
      /\ sent.fields \in Seq(Field) /\ sent.eol \in LineEnds /\ n \in Nat
      /\ SentType'
  <2>1. sent.fields \in Seq(Field) /\ sent.eol \in LineEnds
    BY <1>1 DEF SentType
  <2>2. Append(sent.fields, f) \in Seq(Field) /\ n \in Nat
    BY <2>1, AppendFacts, LenProperties
  <2>3. sent'.fields = Append(sent.fields, f) /\ sent'.eol = sent.eol
    BY <1>1, <1>3 DEF SentType
  <2>4. SentType'
    BY <1>1, <1>3, <2>1, <2>2 DEF SentType
  <2>5. QED BY <2>1, <2>2, <2>3, <2>4
<1>5. L \in Seq(Char)
  BY <1>1, LineText DEF Line, LineOf
<1>6. /\ T \in [Nat -> Seq(Char)] /\ T[n + 1] = << >>
      /\ \A i \in 1..n : T[i] = Cat(LineOf(sent.fields[i], sent.eol), T[i + 1])
  BY <1>2 DEF Tails
<1>8. /\ Len(sent'.fields) = n + 1 /\ sent'.fields[n + 1] = f
      /\ \A i \in 1..n : sent'.fields[i] = sent.fields[i]
  BY <1>4, AppendProperties
<1>7. PICK U : U = Longer(T, n + 1, L)
  OBVIOUS
<1> HIDE DEF n, L
<1>9. /\ U \in [Nat -> Seq(Char)] /\ U[(n + 1) + 1] = << >> /\ U[n + 1] = L
      /\ U[1] = Cat(T[1], L)
  <2>1. n + 1 \in Nat /\ 1 \in Nat /\ 1 <= n + 1
    BY <1>4
  <2>2. /\ U \in [Nat -> Seq(Char)] /\ U[(n + 1) + 1] = << >>
        /\ \A i \in Nat : i <= n + 1 => U[i] = Cat(T[i], L)
    <3>1. /\ Longer(T, n + 1, L) \in [Nat -> Seq(Char)]
          /\ Longer(T, n + 1, L)[(n + 1) + 1] = << >>
          /\ \A i \in Nat : i <= n + 1 => Longer(T, n + 1, L)[i] = Cat(T[i], L)
      BY <1>5, <1>6, <2>1, LongerFacts
    <3>2. QED BY <1>7, <3>1
  <2>3. U[n + 1] = Cat(<< >>, L)
    BY <1>6, <2>1, <2>2
  <2>4. U[n + 1] = L
    BY <1>5, <2>3, CatEmpty
  <2>5. QED BY <2>1, <2>2, <2>4
<1>10. \A i \in 1..n : LineOf(sent.fields[i], sent.eol) \in Seq(Char)
  BY <1>1, <1>4, LineText, ElementOfSeq DEF n, Line, LineOf
<1>11. \A i \in 1..n : U[i] = Cat(LineOf(sent.fields[i], sent.eol), U[i + 1])
  BY <1>4, <1>5, <1>6, <1>7, <1>10, LongerChain
<1>12. U[n + 1] = Cat(L, U[(n + 1) + 1])
  BY <1>5, <1>9, CatEmpty
<1>13. Tails(U, << >>)'
  <2>1. \A i \in 1..(n + 1) : U[i] = Cat(LineOf(sent'.fields[i], sent'.eol), U[i + 1])
    <3>1. TAKE i \in 1..(n + 1)
    <3>2. CASE i = n + 1
      BY <1>4, <1>8, <1>12, <3>2 DEF L
    <3>3. CASE i \in 1..n
      BY <1>4, <1>8, <1>11, <3>3
    <3>4. n \in Nat
      BY <1>4
    <3>5. i = n + 1 \/ i \in 1..n
      BY <3>4
    <3>6. QED BY <3>2, <3>3, <3>5
  <2>2. QED BY <1>8, <1>9, <2>1 DEF Tails
<1>14. header' = Cat(Cat(<<"http", "k">>, sent'.eol), U[1])
  <2>1. header' = Cat(header, L)
    BY <1>3 DEF Cat, L
  <2> DEFINE h == Cat(<<"http", "k">>, sent.eol)
  <2>2. h \in Seq(Char) /\ T[1] \in Seq(Char)
    BY <1>4, <1>6, LineEndFacts, CharFacts, TwoChars, CatFacts
  <2> HIDE DEF h
  <2>3. Cat(Cat(h, T[1]), L) = Cat(h, Cat(T[1], L))
    BY <1>5, <2>2, CatAssociative
  <2>4. header = Cat(h, T[1])
    BY <1>2 DEF h
  <2>5. header' = Cat(h, U[1])
    BY <1>9, <2>1, <2>3, <2>4
  <2>6. QED BY <1>4, <2>5 DEF h
<1>15. QED BY <1>1, <1>4, <1>13, <1>14 DEF HeaderInv

(* what is left begins with the line of a field, or has no field *)
LEMMA NextLine ==
  ASSUME SentType, WellFormed, NEW T, Tails(T, sent.eol), NEW j \in 0..Len(sent.fields)
  PROVE  /\ j < Len(sent.fields) =>
              /\ sent.fields[j + 1] \in Field /\ T[j + 2] \in Seq(Char)
              /\ Reads(T[j + 1], sent.fields[j + 1].key,
                       Cat(sent.fields[j + 1].value, BeforeLF(sent.eol)), T[j + 2])
              /\ T[j + 1] /= << >> /\ T[j + 1][1] \notin Space
         /\ j = Len(sent.fields) => Without(T[j + 1], Char \ Space)
<1>1. /\ sent.fields \in Seq(Field) /\ sent.eol \in LineEnds
      /\ Len(sent.fields) \in Nat /\ DOMAIN sent.fields = 1..Len(sent.fields)
  BY LenProperties DEF SentType
<1>2. ASSUME j < Len(sent.fields)
      PROVE  /\ sent.fields[j + 1] \in Field /\ T[j + 2] \in Seq(Char)
             /\ Reads(T[j + 1], sent.fields[j + 1].key,
                      Cat(sent.fields[j + 1].value, BeforeLF(sent.eol)), T[j + 2])
             /\ T[j + 1] /= << >> /\ T[j + 1][1] \notin Space
  <2>1. j + 1 \in 1..Len(sent.fields) /\ (j + 1) + 1 = j + 2 /\ j + 2 \in Nat
    BY <1>1, <1>2
  <2> DEFINE f == sent.fields[j + 1]
             s == T[j + 1]
  <2>2. f \in Field /\ f.colon /\ f.value /= << >>
    BY <1>1, <2>1, ElementOfSeq DEF WellFormed
  <2>3. T[j + 2] \in Seq(Char) /\ s = Cat(LineOf(f, sent.eol), T[j + 2])
    BY <2>1 DEF Tails
  <2>4. LineOf(f, sent.eol) = Line(f)
    BY DEF Line, LineOf
  <2> HIDE DEF f
  <2>5. Reads(Cat(Line(f), T[j + 2]), f.key, Cat(f.value, BeforeLF(sent.eol)), T[j + 2])
    BY <2>2, <2>3, ReadLine
  <2>6. Reads(s, f.key, Cat(f.value, BeforeLF(sent.eol)), T[j + 2])
    BY <2>3, <2>4, <2>5
  <2>7. f.key \notin Space
    BY <2>2, KeyChar DEF Field
  <2> HIDE DEF s
  <2>8. s /= << >> /\ s[1] \notin Space
    BY <2>6, <2>7 DEF Reads
  <2>9. QED BY <2>2, <2>3, <2>6, <2>8 DEF f, s
<1>3. ASSUME j = Len(sent.fields)
      PROVE  Without(T[j + 1], Char \ Space)
  <2>1. T[j + 1] = sent.eol
    BY <1>3 DEF Tails
  <2>2. QED BY <1>1, <2>1, LineEndFacts
<1>4. QED BY <1>2, <1>3

(* the first line, which Parse skips *)
LEMMA SkipStatus ==
  ASSUME NEW eol \in LineEnds, NEW t \in Seq(Char)
  PROVE  LET r == SkipLine(SkipUntil(Cat(Cat(<<"http", "k">>, eol), t), "http"))
         IN  /\ t /= << >> /\ t[1] \notin Space => SkipSpaces(r) = t
             /\ Without(t, Char \ Space) => SkipSpaces(r) = << >>
<1> DEFINE p == BeforeLF(eol)
           q == AfterLF(eol)
           l == <<"lf">>
           w == <<"http", "k">>
           s == Cat(w, p)
           u == Cat(l, Cat(q, t))
           h == Cat(s, u)
<1>1. /\ eol \in Seq(Char) /\ p \in Seq(Char) /\ q \in Seq(Char) /\ q \in {<< >>, <<"cr">>}
      /\ Without(p, {"lf"}) /\ eol = Cat(p, Cat(l, q))
  BY LineEndFacts DEF Cat
<1>2. l \in Seq(Char) /\ w \in Seq(Char) /\ w = Cat(<<"http">>, <<"k">>)
  BY CharFacts, OneChar, TwoChars DEF Cat
<1>3. s \in Seq(Char) /\ Without(s, {"lf"})
  <2>1. /\ Len(s) = Len(w) + Len(p)
        /\ \A i \in 1..(Len(w) + Len(p)) : s[i] = IF i <= Len(w) THEN w[i] ELSE p[i - Len(w)]
    BY <1>1, <1>2, CatItems
  <2>2. s \in Seq(Char)
    BY <1>1, <1>2, CatFacts
  <2>3. Len(w) = 2 /\ w[1] = "http" /\ w[2] = "k" /\ Len(p) \in Nat
    BY <1>1, LenProperties
  <2> HIDE DEF s, p, w
  <2>4. ASSUME NEW i \in 1..Len(s)
        PROVE  s[i] \notin {"lf"}
    <3>1. CASE i = 1 \/ i = 2
      BY <2>1, <2>3, <3>1
    <3>2. CASE i > 2
      <4>1. i - 2 \in 1..Len(p) /\ s[i] = p[i - 2]
        BY <2>1, <2>3, <3>2
      <4>2. QED BY <1>1, <4>1 DEF Without
    <3>3. QED BY <2>1, <2>3, <3>1, <3>2
  <2>5. QED BY <2>2, <2>4 DEF Without
<1>4. Cat(q, t) \in Seq(Char) /\ Cat(l, q) \in Seq(Char)
  BY <1>1, <1>2, CatFacts
<1>5. u \in Seq(Char)
  BY <1>2, <1>4, CatFacts
<1>6. Cat(Cat(w, eol), t) = h
  <2> HIDE DEF p, q, l, w
  <2>1. Cat(Cat(w, Cat(p, Cat(l, q))), t) = Cat(w, Cat(Cat(p, Cat(l, q)), t))
    BY <1>1, <1>2, CatAssociative
  <2>2. Cat(Cat(p, Cat(l, q)), t) = Cat(p, Cat(Cat(l, q), t))
    BY <1>1, <1>4, CatAssociative
  <2>3. Cat(Cat(l, q), t) = u
    BY <1>1, <1>2, CatAssociative
  <2>4. Cat(w, Cat(p, u)) = h
    <3> HIDE DEF u
    <3>1. QED BY <1>1, <1>2, <1>5, CatAssociative
  <2>5. QED BY <1>1, <2>1, <2>2, <2>3, <2>4
<1>7. h \in Seq(Char) /\ h /= << >> /\ h[1] = "http"
  <2>1. Cat(<<"k">>, Cat(p, u)) \in Seq(Char)
    BY <1>1, <1>5, CharFacts, OneChar, CatFacts
  <2>2. h = Cat(<<"http">>, Cat(<<"k">>, Cat(p, u)))
    <3> DEFINE a == <<"http">>
               b == <<"k">>
               x == Cat(p, u)
    <3>1. a \in Seq(Char) /\ b \in Seq(Char) /\ x \in Seq(Char)
      BY <1>1, <1>5, CharFacts, OneChar, CatFacts
    <3>2. w = Cat(a, b)
      BY <1>2
    <3> HIDE DEF a, b, w, u, p
    <3>3. Cat(Cat(w, p), u) = Cat(w, x)
      BY <1>1, <1>2, <1>5, CatAssociative
    <3> HIDE DEF x
    <3>4. Cat(Cat(a, b), x) = Cat(a, Cat(b, x))
      BY <3>1, CatAssociative
    <3>5. Cat(Cat(w, p), u) = Cat(a, Cat(b, x))
      BY <3>2, <3>3, <3>4
    <3>6. QED BY <3>5 DEF a, b, x, p, u, w
  <2> DEFINE y == Cat(<<"k">>, Cat(p, u))
  <2> HIDE DEF y, h
  <2>3. h = Cat(<<"http">>, y)
    BY <2>2 DEF y
  <2>4. y \in Seq(Char)
    BY <2>1 DEF y
  <2>5. Cat(<<"http">>, y) \in Seq(Char) /\ Cat(<<"http">>, y) /= << >> /\ Cat(<<"http">>, y)[1] = "http"
    BY <2>4, CharFacts, FrontChar
  <2>6. QED BY <2>3, <2>5
<1>8. SkipUntil(h, "http") = h
  <2> HIDE DEF h
  <2>1. << >> \in Seq(Char) /\ Without(<< >>, {"http"})
    BY DEF Without
  <2>2. SkipUntil(Cat(<< >>, h), "http") = h
    BY <1>7, <2>1, ReadUntilIs
  <2>3. Cat(<< >>, h) = h
    BY <1>7, CatEmpty
  <2>4. QED BY <2>2, <2>3
<1>9. /\ t /= << >> /\ t[1] \notin Space => SkipSpaces(SkipLine(h)) = t
      /\ Without(t, Char \ Space) => SkipSpaces(SkipLine(h)) = << >>
  <2> HIDE DEF s, q
  <2>1. QED BY <1>1, <1>3, AfterLine
<1> HIDE DEF h
<1>10. QED BY <1>6, <1>8, <1>9

LEMMA ParseStep ==
  ASSUME HeaderInv, CallInv, Parse
  PROVE  HeaderInv'
<1>1. /\ call.at = "perform" /\ SentType /\ sent' = sent /\ dictionary' = NoFields
      /\ call' = [call EXCEPT !.at = "parse"] /\ header' = header \o sent.eol
      /\ reader' = SkipLine(SkipUntil(header', "http"))
  BY DEF HeaderInv, Parse, WriteFunction
<1>2. call'.at = "parse"
  BY <1>1 DEF CallInv
<1>3. SUFFICES ASSUME WellFormed'
               PROVE  SentType' /\ \E T, j : (Tails(T, sent.eol) /\ LeftToRead(T, j) /\ Parsed(j))'
  BY <1>2 DEF HeaderInv
<1>4. SentType' /\ WellFormed
  BY <1>1, <1>3 DEF SentType, WellFormed
<1>5. PICK T : Tails(T, << >>) /\ header = Cat(Cat(<<"http", "k">>, sent.eol), T[1])
  BY <1>1 DEF HeaderInv
<1> DEFINE n == Len(sent.fields)
           e == sent.eol
<1>6. sent.fields \in Seq(Field) /\ e \in LineEnds /\ n \in Nat /\ e \in Seq(Char)
  BY <1>1, LineEndFacts, LenProperties DEF SentType
<1>7. /\ T \in [Nat -> Seq(Char)] /\ T[n + 1] = << >>
      /\ \A i \in 1..n : T[i] = Cat(LineOf(sent.fields[i], e), T[i + 1])
  BY <1>5 DEF Tails
<1>8. \A i \in 1..n : LineOf(sent.fields[i], e) \in Seq(Char)
  BY <1>1, <1>6, LineText, ElementOfSeq DEF Line, LineOf
<1>9. PICK U : U = Longer(T, n + 1, e)
  OBVIOUS
<1> HIDE DEF n, e
<1>10. U \in [Nat -> Seq(Char)] /\ U[n + 1] = e /\ U[1] = Cat(T[1], e)
  <2>1. n + 1 \in Nat /\ 1 \in Nat /\ 1 <= n + 1
    BY <1>6
  <2>2. /\ Longer(T, n + 1, e) \in [Nat -> Seq(Char)]
        /\ \A i \in Nat : i <= n + 1 => Longer(T, n + 1, e)[i] = Cat(T[i], e)
    BY <1>6, <1>7, <2>1, LongerFacts
  <2>3. U \in [Nat -> Seq(Char)] /\ U[n + 1] = Cat(T[n + 1], e) /\ U[1] = Cat(T[1], e)
    <3>1. U \in [Nat -> Seq(Char)] /\ \A i \in Nat : i <= n + 1 => U[i] = Cat(T[i], e)
      BY <1>9, <2>2
    <3>2. n + 1 <= n + 1
      BY <2>1
    <3>3. QED BY <2>1, <3>1, <3>2
  <2>4. Cat(<< >>, e) = e
    BY <1>6, CatEmpty
  <2>5. QED BY <1>7, <2>3, <2>4
<1>11. \A i \in 1..n : U[i] = Cat(LineOf(sent.fields[i], e), U[i + 1])
  BY <1>6, <1>7, <1>8, <1>9, LongerChain
<1>12. Tails(U, sent.eol)
  BY <1>10, <1>11 DEF Tails, n, e
<1>13. header' = Cat(Cat(<<"http", "k">>, e), U[1])
  <2>1. header' = Cat(header, e)
    BY <1>1 DEF Cat, e
  <2> DEFINE h == Cat(<<"http", "k">>, e)
  <2>2. h \in Seq(Char) /\ T[1] \in Seq(Char)
    BY <1>6, <1>7, CharFacts, TwoChars, CatFacts
  <2>3. header = Cat(h, T[1])
    BY <1>5 DEF e
  <2> HIDE DEF h
  <2>4. Cat(Cat(h, T[1]), e) = Cat(h, Cat(T[1], e))
    BY <1>6, <2>2, CatAssociative
  <2>5. header' = Cat(h, U[1])
    BY <1>10, <2>1, <2>3, <2>4
  <2>6. QED BY <2>5 DEF h
<1>14. SkipSpaces(reader') = IF 0 < n THEN U[0 + 1] ELSE << >>
  <2>1. U[1] \in Seq(Char) /\ 0 \in 0..n /\ 0 + 1 = 1
    BY <1>6, <1>10
  <2>2. reader' = SkipLine(SkipUntil(Cat(Cat(<<"http", "k">>, e), U[1]), "http"))
    BY <1>1, <1>13
  <2>3. /\ U[1] /= << >> /\ U[1][1] \notin Space => SkipSpaces(reader') = U[1]
        /\ Without(U[1], Char \ Space) => SkipSpaces(reader') = << >>
    BY <1>6, <2>1, <2>2, SkipStatus
  <2>4. /\ 0 < n => U[0 + 1] /= << >> /\ U[0 + 1][1] \notin Space
        /\ 0 = n => Without(U[0 + 1], Char \ Space)
    BY <1>1, <1>4, <1>12, <2>1, NextLine DEF n
  <2>5. QED BY <1>6, <2>1, <2>3, <2>4
<1>15. Tails(U, sent.eol)'
  BY <1>1, <1>12 DEF Tails
<1>16. LeftToRead(U, 0)'
  BY <1>1, <1>6, <1>14 DEF LeftToRead, n
<1>17. Parsed(0)'
  BY <1>1 DEF Parsed, ParsedFrom, NoFields
<1>18. QED BY <1>4, <1>15, <1>16, <1>17

(* the dictionary after one more field *)
LEMMA ParsedMore ==
  ASSUME NEW j \in Nat, NEW s, NEW d, NEW e, ParsedFrom(d, s, j), NEW k, k = s.fields[j + 1].key,
         e = [x \in DOMAIN d \cup {<<k>>} |->
                IF x = <<k>> THEN Cat(s.fields[j + 1].value, BeforeLF(s.eol)) ELSE d[x]]
  PROVE  ParsedFrom(e, s, j + 1)
<1>1. j \in Nat /\ j + 1 \in Nat /\ \A i \in 1..(j + 1) : i = j + 1 \/ i \in 1..j
  OBVIOUS
<1>2. /\ DOMAIN d = {<<s.fields[i].key>> : i \in 1..j}
      /\ \A i \in 1..j : \E l \in 1..j :
           /\ s.fields[l].key = s.fields[i].key
           /\ \A x \in (l + 1)..j : s.fields[x].key /= s.fields[i].key
           /\ d[<<s.fields[i].key>>] = Cat(s.fields[l].value, BeforeLF(s.eol))
  BY DEF ParsedFrom
<1>3. DOMAIN e = {<<s.fields[i].key>> : i \in 1..(j + 1)}
  <2>1. DOMAIN e = DOMAIN d \cup {<<k>>}
    OBVIOUS
  <2>2. {<<s.fields[i].key>> : i \in 1..(j + 1)}
          = {<<s.fields[i].key>> : i \in 1..j} \cup {<<s.fields[j + 1].key>>}
    BY <1>1
  <2>3. QED BY <1>2, <2>1, <2>2
<1>4. ASSUME NEW i \in 1..(j + 1)
      PROVE  \E l \in 1..(j + 1) :
               /\ s.fields[l].key = s.fields[i].key
               /\ \A x \in (l + 1)..(j + 1) : s.fields[x].key /= s.fields[i].key
               /\ e[<<s.fields[i].key>>]
                    = Cat(s.fields[l].value, BeforeLF(s.eol))
  <2>1. CASE s.fields[i].key = k
    <3>1. j + 1 \in 1..(j + 1) /\ ((j + 1) + 1)..(j + 1) = {}
      BY <1>1
    <3>2. e[<<k>>] = Cat(s.fields[j + 1].value, BeforeLF(s.eol))
      OBVIOUS
    <3>3. QED BY <2>1, <3>1, <3>2
  <2>2. CASE s.fields[i].key /= k
    <3>1. i \in 1..j
      BY <1>1, <2>2
    <3>2. PICK l \in 1..j :
            /\ s.fields[l].key = s.fields[i].key
            /\ \A x \in (l + 1)..j : s.fields[x].key /= s.fields[i].key
            /\ d[<<s.fields[i].key>>] = Cat(s.fields[l].value, BeforeLF(s.eol))
      BY <1>2, <3>1
    <3>3. <<s.fields[i].key>> \in DOMAIN d /\ <<s.fields[i].key>> /= <<k>>
      BY <1>2, <2>2, <3>1
    <3>4. e[<<s.fields[i].key>>] = d[<<s.fields[i].key>>]
      BY <3>3
    <3>5. l \in 1..(j + 1) /\ \A x \in (l + 1)..(j + 1) : x = j + 1 \/ x \in (l + 1)..j
      BY <1>1
    <3>6. QED BY <2>2, <3>2, <3>4, <3>5
  <2>3. QED BY <2>1, <2>2
<1>5. QED BY <1>3, <1>4 DEF ParsedFrom

LEMMA FieldStep ==
  ASSUME HeaderInv, CallInv, ParseField
  PROVE  HeaderInv'
<1>1. call.at = "parse" /\ sent' = sent /\ SkipSpaces(reader) /= << >>
  BY DEF ParseField
<1>2. call'.at \in {"parse", "assert"}
  <2>1. call' = call \/ call' = [call EXCEPT !.at = "assert"]
    BY DEF ParseField
  <2>2. CASE call' = call
    BY <1>1, <2>2
  <2>3. CASE call' = [call EXCEPT !.at = "assert"]
    <3>1. call'.at = "assert"
      BY <2>3 DEF CallInv
    <3>2. QED BY <3>1
  <2>4. QED BY <2>1, <2>2, <2>3
<1>3. SUFFICES ASSUME WellFormed
               PROVE  /\ call' = call /\ SentType'
                      /\ \E T, j : (Tails(T, sent.eol) /\ LeftToRead(T, j) /\ Parsed(j))'
  <2>1. WellFormed' => WellFormed
    BY <1>1 DEF WellFormed
  <2>2. QED BY <1>2, <2>1 DEF HeaderInv
<1>4. SentType /\ \E T, j : Tails(T, sent.eol) /\ LeftToRead(T, j) /\ Parsed(j)
  BY <1>1, <1>3 DEF HeaderInv
<1>5. PICK T, j : Tails(T, sent.eol) /\ LeftToRead(T, j) /\ Parsed(j)
  BY <1>4
<1> DEFINE n == Len(sent.fields)
           f == sent.fields[j + 1]
           x == Cat(f.value, BeforeLF(sent.eol))
           s == SkipSpaces(reader)
           key == ReadUntil(s, "colon")
           val == ReadToEndLine(SkipSpaces(SkipOne(key.rest)))
<1>6. n \in Nat /\ j \in 0..n /\ j < n /\ s = T[j + 1] /\ j \in Nat
  <2>1. n \in Nat
    BY <1>4, LenProperties DEF SentType
  <2>2. QED BY <1>1, <1>5, <2>1 DEF LeftToRead
<1>7. Reads(s, f.key, x, T[j + 2]) /\ T[j + 2] \in Seq(Char)
  BY <1>3, <1>4, <1>5, <1>6, NextLine
<1>8. /\ key.text = <<f.key>> /\ key.rest /= << >> /\ val.text = x
      /\ T[j + 2] /= << >> /\ T[j + 2][1] \notin Space => SkipSpaces(val.rest) = T[j + 2]
      /\ Without(T[j + 2], Char \ Space) => SkipSpaces(val.rest) = << >>
  <2> HIDE DEF s, x, f
  <2>1. QED BY <1>7 DEF Reads
<1>9. /\ call' = call /\ reader' = val.rest
      /\ dictionary' = [k \in DOMAIN dictionary \cup {key.text} |->
                          IF k = key.text THEN val.text ELSE dictionary[k]]
  BY <1>8 DEF ParseField
<1>10. SkipSpaces(reader') = IF j + 1 < n THEN T[(j + 1) + 1] ELSE << >>
  <2>1. j + 1 \in 0..n /\ (j + 1) + 1 = j + 2
    BY <1>6
  <2>2. /\ j + 1 < n => T[(j + 1) + 1] /= << >> /\ T[(j + 1) + 1][1] \notin Space
        /\ j + 1 = n => Without(T[(j + 1) + 1], Char \ Space)
    BY <1>3, <1>4, <1>5, <2>1, NextLine
  <2> HIDE DEF val, n
  <2>3. CASE j + 1 < n
    BY <1>8, <1>9, <2>1, <2>2, <2>3
  <2>4. CASE j + 1 = n
    <3>1. ~(j + 1 < n)
      BY <1>6, <2>4
    <3>2. SkipSpaces(val.rest) = << >>
      BY <1>8, <2>1, <2>2, <2>4
    <3>3. QED BY <1>9, <3>1, <3>2
  <2>5. QED BY <1>6, <2>3, <2>4
<1>11. ParsedFrom(dictionary', sent, j + 1)
  <2>1. dictionary' = [k \in DOMAIN dictionary \cup {<<f.key>>} |->
                         IF k = <<f.key>> THEN x ELSE dictionary[k]]
    <3> HIDE DEF key, val, x, f
    <3>1. QED BY <1>8, <1>9
  <2>2. ParsedFrom(dictionary, sent, j)
    BY <1>5 DEF Parsed
  <2>3. QED BY <1>6, <2>1, <2>2, ParsedMore
<1>12. Parsed(j + 1)'
  BY <1>1, <1>11 DEF Parsed
<1>13. LeftToRead(T, j + 1)'
  BY <1>1, <1>6, <1>10 DEF LeftToRead
<1>14. Tails(T, sent.eol)' /\ SentType'
  BY <1>1, <1>4, <1>5 DEF Tails, SentType
<1>15. QED BY <1>9, <1>12, <1>13, <1>14

LEMMA EndsStep ==
  ASSUME HeaderInv, CallInv, ParseEnds
  PROVE  HeaderInv'
<1>1. /\ call.at = "parse" /\ sent' = sent /\ dictionary' = dictionary
      /\ SkipSpaces(reader) = << >> /\ call' = [call EXCEPT !.at = "parsed"]
  BY DEF ParseEnds
<1>2. call'.at = "parsed"
  BY <1>1 DEF CallInv
<1>3. SUFFICES ASSUME WellFormed
               PROVE  SentType' /\ Parsed(Len(sent.fields))'
  <2>1. WellFormed' => WellFormed
    BY <1>1 DEF WellFormed
  <2>2. QED BY <1>2, <2>1 DEF HeaderInv
<1>4. SentType /\ \E T, j : Tails(T, sent.eol) /\ LeftToRead(T, j) /\ Parsed(j)
  BY <1>1, <1>3 DEF HeaderInv
<1>5. PICK T, j : Tails(T, sent.eol) /\ LeftToRead(T, j) /\ Parsed(j)
  BY <1>4
<1>6. Len(sent.fields) \in Nat
  BY <1>4, LenProperties DEF SentType
<1>7. j \in 0..Len(sent.fields)
  BY <1>5 DEF LeftToRead
<1>8. j < Len(sent.fields) => T[j + 1] /= << >>
  BY <1>3, <1>4, <1>5, <1>7, NextLine
<1>9. j = Len(sent.fields)
  BY <1>1, <1>5, <1>6, <1>7, <1>8 DEF LeftToRead
<1>10. ParsedFrom(dictionary, sent, Len(sent.fields))
  BY <1>5, <1>9 DEF Parsed
<1>11. QED BY <1>1, <1>4, <1>10 DEF Parsed, SentType

LEMMA HeaderSame ==
  ASSUME HeaderInv, UNCHANGED httpVars
  PROVE  HeaderInv'
BY DEF HeaderInv, httpVars, SentType, Tails, LeftToRead, Parsed, WellFormed

LEMMA HeaderStep ==
  ASSUME HeaderInv, CallInv, [HttpNext]_<<resultVars, httpVars>>
  PROVE  HeaderInv'
<1>1. ASSUME call' = Idle
      PROVE  HeaderInv'
  BY <1>1 DEF Idle, HeaderInv
<1>2. CASE NewBuilder \/ ResultStep
  BY <1>2, HeaderSame DEF NewBuilder, ResultStep
<1>3. ASSUME NEW q \in Requests,
             Build(q) \/ \E p \in Requests : MoveRequest(q, p) \/ MoveAssignRequest(q, p)
      PROVE  HeaderInv'
  BY <1>3, HeaderSame DEF Build, MoveRequest, MoveAssignRequest
<1>4. ASSUME NEW c \in Requests \cup {Builder}, DestroyOwner(c)
      PROVE  HeaderInv'
  BY <1>4, HeaderSame DEF DestroyOwner
<1>5. ASSUME NEW r \in Results, NEW q \in Requests, RunMoved(q, r)
      PROVE  HeaderInv'
  BY <1>5, HeaderSame DEF RunMoved
<1>6. ASSUME NEW r \in Results, NEW eol \in LineEnds,
             Get(r, eol) \/ \E q \in Requests : Run(q, r, eol)
      PROVE  HeaderInv'
  <2>1. PICK by : StartPerform(by, r, eol)
    BY <1>6 DEF Get, Run
  <2>2. QED BY <2>1, StartHeader
<1>7. CASE WriteHeader
  BY <1>7, WriteStep
<1>8. CASE RunFails \/ GetFails
  BY <1>1, <1>8 DEF RunFails, GetFails, Fails
<1>9. CASE RunParse \/ GetParse
  BY <1>9, ParseStep DEF RunParse, GetParse
<1>10. CASE ParseField
  BY <1>10, FieldStep
<1>11. CASE ParseEnds
  BY <1>11, EndsStep
<1>12. CASE Return
  BY <1>1, <1>12 DEF Return
<1>13. CASE Aborted \/ UNCHANGED <<resultVars, httpVars>>
  BY <1>13, HeaderSame DEF Aborted
<1>14. QED
  BY <1>2, <1>3, <1>4, <1>5, <1>6, <1>7, <1>8, <1>9, <1>10, <1>11, <1>12, <1>13 DEF HttpNext

LEMMA ParsedFromInv ==
  ASSUME HeaderInv
  PROVE  ParsedAsSent
<1>1. SUFFICES ASSUME call.at = "parsed", WellFormed
               PROVE  LET last(k) == CHOOSE i \in DOMAIN sent.fields :
                                       /\ sent.fields[i].key = k
                                       /\ \A j \in DOMAIN sent.fields : sent.fields[j].key = k => j <= i
                          cr == IF Head(sent.eol) = "cr" THEN <<"cr">> ELSE << >>
                      IN  /\ DOMAIN dictionary = {<<sent.fields[i].key>> : i \in DOMAIN sent.fields}
                          /\ \A k \in Keys : <<k>> \in DOMAIN dictionary =>
                               dictionary[<<k>>] = sent.fields[last(k)].value \o cr
  BY DEF ParsedAsSent
<1> DEFINE n == Len(sent.fields)
           last(k) == CHOOSE i \in DOMAIN sent.fields :
                        /\ sent.fields[i].key = k
                        /\ \A j \in DOMAIN sent.fields : sent.fields[j].key = k => j <= i
<1>2. SentType /\ ParsedFrom(dictionary, sent, n)
  BY <1>1 DEF HeaderInv, Parsed
<1>3. n \in Nat /\ DOMAIN sent.fields = 1..n
  BY <1>2, LenProperties DEF SentType
<1>4. DOMAIN dictionary = {<<sent.fields[i].key>> : i \in DOMAIN sent.fields}
  BY <1>2, <1>3 DEF ParsedFrom
<1>5. ASSUME NEW k \in Keys, <<k>> \in DOMAIN dictionary
      PROVE  dictionary[<<k>>] = sent.fields[last(k)].value \o BeforeLF(sent.eol)
  <2>1. PICK i \in 1..n : sent.fields[i].key = k
    <3>1. PICK i \in 1..n : <<k>> = <<sent.fields[i].key>>
      BY <1>3, <1>4, <1>5
    <3>2. <<k>>[1] = <<sent.fields[i].key>>[1]
      BY <3>1
    <3>3. QED BY <3>2
  <2>2. PICK l \in 1..n :
          /\ sent.fields[l].key = sent.fields[i].key
          /\ \A x \in (l + 1)..n : sent.fields[x].key /= sent.fields[i].key
          /\ dictionary[<<sent.fields[i].key>>] = Cat(sent.fields[l].value, BeforeLF(sent.eol))
    BY <1>2 DEF ParsedFrom
  <2>3. \A j \in 1..n : sent.fields[j].key = k => j <= l
    BY <1>3, <2>1, <2>2
  <2>4. last(k) = l
    <3> DEFINE P(m) == /\ sent.fields[m].key = k
                       /\ \A j \in 1..n : sent.fields[j].key = k => j <= m
    <3>1. l \in 1..n /\ P(l)
      BY <2>1, <2>2, <2>3
    <3>2. \A m \in 1..n : P(m) => m = l
      BY <1>3, <3>1
    <3>3. last(k) = CHOOSE m \in 1..n : P(m)
      BY <1>3
    <3> HIDE DEF P
    <3>4. (CHOOSE m \in 1..n : P(m)) \in 1..n /\ P(CHOOSE m \in 1..n : P(m))
      BY <3>1
    <3>5. (CHOOSE m \in 1..n : P(m)) = l
      BY <3>2, <3>4
    <3>6. QED BY <3>3, <3>5
  <2>5. QED BY <2>1, <2>2, <2>4 DEF Cat
<1>6. QED BY <1>4, <1>5 DEF BeforeLF

(* The dictionary of a response has exactly the fields the server sent,    *)
(* each with the value of the last field of its name, for every number of  *)
(* fields, every text of a value and every way a line ends.                *)
THEOREM ParsedAsSentHolds == HttpSpec => []ParsedAsSent
<1>1. HttpInit => HttpInv /\ HeaderInv
  BY HttpStart DEF HttpInit, HeaderInv, Idle
<1>2. HttpInv /\ HeaderInv /\ [HttpNext]_<<resultVars, httpVars>> => (HttpInv /\ HeaderInv)'
  BY HttpStep, HeaderStep DEF HttpInv
<1>3. HeaderInv => ParsedAsSent
  BY ParsedFromInv
<1>4. QED BY <1>1, <1>2, <1>3, PTL DEF HttpSpec
=============================================================================
