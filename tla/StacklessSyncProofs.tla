------------------------ MODULE StacklessSyncProofs ------------------------
(***************************************************************************)
(* Proofs about StacklessSync for every set of coroutines, contenders and  *)
(* workers, with and without Stop.                                         *)
(*                                                                         *)
(* PlaceInv says where a coroutine is: on one stack, in the queue of the   *)
(* pool, or nowhere because it waits, has not started or has ended.        *)
(* LockInv says who holds the lock and who is linked into the mutex;       *)
(* EventInv who is linked into the event; CountInv ties counter_ to the    *)
(* contenders that have not called Done, and the one call of Fire to the   *)
(* last Done; StageInv says what Stop leaves behind.                       *)
(***************************************************************************)
EXTENDS SequenceFacts, StacklessSync, FiniteSetTheorems

Labels == {"new", "body", "enqueue", "locked", "yielded", "unlock", "wait", "done",
           "fire", "take", "firing", "enlist", "parked", "end", "finished", "destroyed"}

(* a coroutine at one of these is neither queued nor on a stack *)
Away == {"new", "wait", "parked", "finished", "destroyed"}

Words == {"Unlocked", "LockedNoWaiters", "NoWaiters", "Signaled"}

(* The types of the variables *)
TypeInv ==
  /\ pc \in [Coroutine -> Labels]
  /\ doomed \subseteq Coroutine
  /\ stack \in [Thread -> Seq(Coroutine)]
  /\ runq \in Seq(Coroutine)
  /\ stage \in {"running", "closing", "joining", "stopped"}
  /\ locked \in BOOLEAN
  /\ listed \in Seq(Coroutine) /\ waiters \in Seq(Coroutine)
  /\ seen \in [Coroutine -> Coroutine \cup {None} \cup Words]
  /\ counter \in Nat
  /\ signaled \in BOOLEAN
  /\ queued \in Seq(Coroutine)
  /\ firing \in [Coroutine -> Seq(Coroutine)]

Placed(c) == c \in ToSet(runq) \/ \E t \in Thread : c \in ToSet(stack[t])

PlaceInv ==
  /\ OneActivation
  /\ IsInjective(runq)
  /\ \A c \in Coroutine : Placed(c) <=> pc[c] \notin Away
  /\ \A c \in ToSet(runq) : pc[c] \in {"body", "yielded"} /\ c \notin doomed
  /\ \A c \in doomed : pc[c] \in {"unlock", "end"}

LabelInv ==
  /\ \A c \in Contenders : pc[c] \notin {"enlist", "parked"}
  /\ \A c \in Coroutine \ Contenders :
       pc[c] \in {"new", "body", "enlist", "parked", "end", "finished", "destroyed"}

StageInv ==
  /\ stage \in {"joining", "stopped"} => runq = <<>> /\ stack[Main] = <<>>
  /\ stage = "stopped" => \A t \in Thread : stack[t] = <<>>

LockInv ==
  /\ \A c, d \in Coroutine : Holds(c) /\ Holds(d) => c = d
  /\ locked <=> \E c \in Coroutine : Holds(c)
  /\ ~locked => listed = <<>> /\ waiters = <<>>
  /\ IsInjective(listed) /\ IsInjective(waiters)
  /\ ToSet(listed) \cap ToSet(waiters) = {}
  /\ \A c \in Coroutine : pc[c] = "wait" <=> c \in ToSet(listed) \cup ToSet(waiters)

(* what a coroutine has loaded and not used yet *)
SeenInv ==
  /\ \A c \in Coroutine : seen[c] /= None => pc[c] \in {"enqueue", "unlock", "enlist"}
  /\ \A c \in Coroutine : pc[c] = "unlock" /\ seen[c] /= None =>
       /\ waiters = <<>>
       /\ seen[c] /= "LockedNoWaiters" => listed /= <<>>
  /\ \A c \in Coroutine : pc[c] = "enlist" => seen[c] /= "Signaled"

EventInv ==
  /\ IsInjective(queued)
  /\ \A c \in Contenders : /\ IsInjective(firing[c])
                           /\ ToSet(queued) \cap ToSet(firing[c]) = {}
  /\ \A c, d \in Contenders : c /= d => ToSet(firing[c]) \cap ToSet(firing[d]) = {}
  /\ \A c \in Coroutine :
       pc[c] = "parked" <=>
         c \in ToSet(queued) \/ \E d \in Contenders : c \in ToSet(firing[d])
  /\ signaled => queued = <<>>
  /\ \A c \in Coroutine : firing[c] /= <<>> => pc[c] = "firing" /\ signaled

(* the body of c has ended, or is about to, and not by being destroyed *)
Ended(c) == pc[c] = "finished" \/ (pc[c] = "end" /\ c \notin doomed)

(* c has called Done *)
Did(c) == pc[c] \in {"fire", "take", "firing"} \/ Ended(c)

InFire(c) == pc[c] \in {"fire", "take"}

Left == {c \in Contenders : ~Did(c)}

CountInv ==
  /\ Added => counter = Cardinality(Left)
  /\ \A c, d \in Contenders : InFire(c) /\ InFire(d) => c = d
  /\ (\E c \in Contenders : InFire(c)) => \A c \in Contenders : Did(c)
  /\ signaled => \A c \in Contenders : Did(c) /\ ~InFire(c)
  /\ \A c \in Coroutine \ Contenders : Ended(c) => signaled

SyncInv ==
  /\ TypeInv
  /\ PlaceInv
  /\ LabelInv
  /\ StageInv
  /\ LockInv
  /\ SeenInv
  /\ EventInv
  /\ CountInv

----------------------------------------------------------------------------
(* Where coroutines are *)

(* The coroutine that a thread executes is on the top of its stack and     *)
(* nowhere else.                                                           *)
LEMMA TopFacts ==
  ASSUME SyncInv, NEW t \in Thread, NEW c \in Executing(t)
  PROVE  /\ c \in Coroutine /\ stack[t] /= <<>> /\ stack[t] \in Seq(Coroutine)
         /\ Front(stack[t]) \in Seq(Coroutine) /\ IsInjective(Front(stack[t]))
         /\ ToSet(stack[t]) = ToSet(Front(stack[t])) \cup {c}
         /\ c \notin ToSet(Front(stack[t]))
         /\ c \notin ToSet(runq)
         /\ \A u \in Thread : u /= t => c \notin ToSet(stack[u])
         /\ pc[c] \notin Away
<1>1. stack[t] /= <<>> /\ c = Last(stack[t]) /\ stack[t] \in Seq(Coroutine)
  BY DEF Executing, SyncInv, TypeInv
<1>2. IsInjective(stack[t])
  BY DEF SyncInv, PlaceInv, OneActivation
<1>3. /\ c \in Coroutine
      /\ Front(stack[t]) \in Seq(Coroutine) /\ IsInjective(Front(stack[t]))
      /\ ToSet(stack[t]) = ToSet(Front(stack[t])) \cup {c}
      /\ c \notin ToSet(Front(stack[t]))
  BY <1>1, <1>2, FrontFacts DEF Front, Last
<1>4. /\ c \notin ToSet(runq)
      /\ \A u \in Thread : u /= t => c \notin ToSet(stack[u])
  BY <1>3 DEF SyncInv, PlaceInv, OneActivation
<1>5. pc[c] \notin Away
  BY <1>3 DEF SyncInv, PlaceInv, Placed
<1>6. QED BY <1>1, <1>3, <1>4, <1>5

(* The executing coroutine goes on. *)
LEMMA MovePlace ==
  ASSUME SyncInv, NEW t \in Thread, NEW c \in Executing(t),
         UNCHANGED <<stack, runq, stage>>,
         doomed' = doomed \/ doomed' = doomed \cup {c},
         \A g \in Coroutine : g /= c => pc'[g] = pc[g],
         pc'[c] \notin Away,
         c \in doomed' => pc'[c] \in {"unlock", "end"}
  PROVE  PlaceInv' /\ StageInv'
<1> USE DEF SyncInv
<1>1. c \in Coroutine /\ c \notin ToSet(runq) /\ pc[c] \notin Away
  BY TopFacts
<1>2. StageInv'
  BY DEF StageInv
<1>3. \A g \in Coroutine : Placed(g)' <=> Placed(g)
  BY DEF Placed
<1>4. \A g \in Coroutine : Placed(g)' <=> pc'[g] \notin Away
  BY <1>1, <1>3 DEF PlaceInv
<1>5. OneActivation' /\ IsInjective(runq')
  BY DEF PlaceInv, OneActivation
<1>6. \A g \in ToSet(runq') : pc'[g] \in {"body", "yielded"} /\ g \notin doomed'
  <2>1. ASSUME NEW g \in ToSet(runq)
        PROVE  pc'[g] \in {"body", "yielded"} /\ g \notin doomed'
    <3>1. g \in Coroutine
      BY ToSetMember DEF TypeInv
    <3>2. QED BY <1>1, <3>1 DEF PlaceInv
  <2>2. QED BY <2>1
<1>7. \A g \in doomed' : pc'[g] \in {"unlock", "end"}
  BY <1>1 DEF PlaceInv, TypeInv
<1>8. QED BY <1>2, <1>4, <1>5, <1>6, <1>7 DEF PlaceInv

(* The executing coroutine suspends or ends. *)
LEMMA PopPlace ==
  ASSUME SyncInv, NEW t \in Thread, NEW c \in Executing(t),
         stack' = [stack EXCEPT ![t] = Front(stack[t])],
         UNCHANGED <<runq, stage>>, doomed' = doomed \ {c},
         \A g \in Coroutine : g /= c => pc'[g] = pc[g],
         pc'[c] \in Away
  PROVE  PlaceInv' /\ StageInv' /\ stack' \in [Thread -> Seq(Coroutine)]
<1> USE DEF SyncInv
<1>1. /\ c \in Coroutine /\ c \notin ToSet(runq) /\ stack[t] /= <<>>
      /\ Front(stack[t]) \in Seq(Coroutine) /\ IsInjective(Front(stack[t]))
      /\ ToSet(stack[t]) = ToSet(Front(stack[t])) \cup {c}
      /\ c \notin ToSet(Front(stack[t]))
      /\ \A u \in Thread : u /= t => c \notin ToSet(stack[u])
  BY TopFacts
<1>2. PICK r : r = Front(stack[t])
  OBVIOUS
<1>3. stack'[t] = r /\ \A u \in Thread : u /= t => stack'[u] = stack[u]
  BY <1>2 DEF TypeInv
<1>4. stack' \in [Thread -> Seq(Coroutine)]
  BY <1>1 DEF TypeInv
<1>5. StageInv'
  BY <1>1, <1>3 DEF StageInv, Thread
<1>6. \A g \in Coroutine : Placed(g)' <=> Placed(g) /\ g /= c
  BY <1>1, <1>2, <1>3 DEF Placed
<1>7. \A g \in Coroutine : Placed(g)' <=> pc'[g] \notin Away
  BY <1>1, <1>6 DEF PlaceInv
<1>8. OneActivation' /\ IsInjective(runq')
  <2>1. \A u \in Thread : ToSet(stack'[u]) \subseteq ToSet(stack[u]) /\ IsInjective(stack'[u])
    BY <1>1, <1>2, <1>3 DEF PlaceInv, OneActivation
  <2>2. QED BY <2>1 DEF PlaceInv, OneActivation
<1>9. \A g \in ToSet(runq') : pc'[g] \in {"body", "yielded"} /\ g \notin doomed'
  <2>1. ASSUME NEW g \in ToSet(runq)
        PROVE  pc'[g] \in {"body", "yielded"} /\ g \notin doomed'
    <3>1. g \in Coroutine
      BY ToSetMember DEF TypeInv
    <3>2. QED BY <1>1, <3>1 DEF PlaceInv
  <2>2. QED BY <2>1
<1>10. \A g \in doomed' : pc'[g] \in {"unlock", "end"}
  BY DEF PlaceInv, TypeInv
<1>11. QED BY <1>4, <1>5, <1>7, <1>8, <1>9, <1>10 DEF PlaceInv

(* The executing coroutine resumes one that is suspended. *)
LEMMA PushPlace ==
  ASSUME SyncInv, NEW t \in Thread, NEW c \in Executing(t), NEW n \in Coroutine,
         pc[n] \in Away,
         stack' = [stack EXCEPT ![t] = Append(stack[t], n)],
         UNCHANGED <<runq, stage, doomed>>,
         \A g \in Coroutine : g /= c /\ g /= n => pc'[g] = pc[g],
         pc'[c] \notin Away, pc'[n] \notin Away,
         c \in doomed => pc'[c] \in {"unlock", "end"}
  PROVE  PlaceInv' /\ StageInv' /\ stack' \in [Thread -> Seq(Coroutine)]
<1> USE DEF SyncInv
<1>1. /\ c \in Coroutine /\ c \notin ToSet(runq) /\ stack[t] /= <<>>
      /\ stack[t] \in Seq(Coroutine) /\ pc[c] \notin Away
  BY TopFacts
<1>2. ~Placed(n) /\ n \notin doomed
  BY DEF PlaceInv, Away
<1>3. PICK r : r = Append(stack[t], n)
  OBVIOUS
<1>4. /\ r \in Seq(Coroutine) /\ ToSet(r) = ToSet(stack[t]) \cup {n} /\ IsInjective(r)
  BY <1>1, <1>2, <1>3, AppendFacts DEF Placed, PlaceInv, OneActivation
<1>5. stack'[t] = r /\ \A u \in Thread : u /= t => stack'[u] = stack[u]
  BY <1>3 DEF TypeInv
<1>6. stack' \in [Thread -> Seq(Coroutine)]
  BY <1>3, <1>4 DEF TypeInv
<1>7. StageInv'
  BY <1>1, <1>5 DEF StageInv, Thread
<1>8. \A g \in Coroutine : Placed(g)' <=> Placed(g) \/ g = n
  <2>1. \A g \in Coroutine, u \in Thread :
          g \in ToSet(stack'[u]) <=> g \in ToSet(stack[u]) \/ (g = n /\ u = t)
    BY <1>4, <1>5
  <2>2. QED BY <2>1 DEF Placed
<1>9. \A g \in Coroutine : Placed(g)' <=> pc'[g] \notin Away
  BY <1>1, <1>8 DEF PlaceInv
<1>10. OneActivation' /\ IsInjective(runq')
  <2>1. \A u \in Thread : IsInjective(stack'[u])
    BY <1>4, <1>5 DEF PlaceInv, OneActivation
  <2>2. n \notin ToSet(runq) /\ \A u \in Thread : n \notin ToSet(stack[u])
    BY <1>2 DEF Placed
  <2>3. \A u \in Thread : ToSet(stack'[u]) \cap ToSet(runq') = {}
    <3>1. ToSet(r) \cap ToSet(runq) = {}
      BY <1>4, <2>2 DEF PlaceInv, OneActivation
    <3>2. QED BY <1>5, <3>1 DEF PlaceInv, OneActivation
  <2>4. \A u, v \in Thread : u /= v => ToSet(stack'[u]) \cap ToSet(stack'[v]) = {}
    <3>1. \A u \in Thread : u /= t => ToSet(r) \cap ToSet(stack[u]) = {}
      BY <1>4, <2>2 DEF PlaceInv, OneActivation
    <3>2. QED BY <1>5, <3>1 DEF PlaceInv, OneActivation
  <2>5. QED BY <2>1, <2>3, <2>4 DEF PlaceInv, OneActivation
<1>11. \A g \in ToSet(runq') : pc'[g] \in {"body", "yielded"} /\ g \notin doomed'
  <2>1. ASSUME NEW g \in ToSet(runq)
        PROVE  pc'[g] \in {"body", "yielded"} /\ g \notin doomed'
    <3>1. g \in Coroutine
      BY ToSetMember DEF TypeInv
    <3>2. QED BY <1>1, <1>2, <3>1 DEF PlaceInv, Placed
  <2>2. QED BY <2>1
<1>12. \A g \in doomed' : pc'[g] \in {"unlock", "end"}
  BY <1>2 DEF PlaceInv, TypeInv
<1>13. QED BY <1>6, <1>7, <1>9, <1>10, <1>11, <1>12 DEF PlaceInv

(* The executing coroutine suspends and is queued in the pool. *)
LEMMA QueuePlace ==
  ASSUME SyncInv, NEW t \in Thread, NEW c \in Executing(t),
         stage = "running", UNCHANGED <<stage, doomed>>,
         runq' = Append(runq, c),
         stack' = [stack EXCEPT ![t] = Front(stack[t])],
         \A g \in Coroutine : g /= c => pc'[g] = pc[g],
         pc'[c] = "yielded", c \notin doomed
  PROVE  /\ PlaceInv' /\ StageInv'
         /\ stack' \in [Thread -> Seq(Coroutine)] /\ runq' \in Seq(Coroutine)
<1> USE DEF SyncInv
<1>1. /\ c \in Coroutine /\ c \notin ToSet(runq) /\ pc[c] \notin Away
      /\ Front(stack[t]) \in Seq(Coroutine) /\ IsInjective(Front(stack[t]))
      /\ ToSet(stack[t]) = ToSet(Front(stack[t])) \cup {c}
      /\ c \notin ToSet(Front(stack[t]))
      /\ \A u \in Thread : u /= t => c \notin ToSet(stack[u])
  BY TopFacts
<1>2. PICK r : r = Front(stack[t])
  OBVIOUS
<1>3. stack'[t] = r /\ \A u \in Thread : u /= t => stack'[u] = stack[u]
  BY <1>2 DEF TypeInv
<1>4. stack' \in [Thread -> Seq(Coroutine)]
  BY <1>1 DEF TypeInv
<1>5. /\ runq' \in Seq(Coroutine) /\ ToSet(runq') = ToSet(runq) \cup {c}
      /\ IsInjective(runq')
  BY <1>1, AppendFacts DEF TypeInv, PlaceInv
<1>6. \A u \in Thread : /\ c \notin ToSet(stack'[u])
                        /\ ToSet(stack'[u]) \subseteq ToSet(stack[u])
                        /\ IsInjective(stack'[u])
  BY <1>1, <1>2, <1>3 DEF PlaceInv, OneActivation
<1>7. \A g \in Coroutine : Placed(g)' <=> Placed(g)
  <2>1. \A g \in Coroutine, u \in Thread :
          g /= c => (g \in ToSet(stack'[u]) <=> g \in ToSet(stack[u]))
    BY <1>1, <1>2, <1>3
  <2>2. Placed(c) /\ Placed(c)'
    BY <1>1, <1>5 DEF Placed
  <2>3. QED BY <1>5, <2>1, <2>2 DEF Placed
<1>8. \A g \in Coroutine : Placed(g)' <=> pc'[g] \notin Away
  BY <1>1, <1>7 DEF PlaceInv, Away
<1>9. OneActivation'
  <2>1. \A u \in Thread : ToSet(stack'[u]) \cap ToSet(runq') = {}
    <3>1. \A u \in Thread : ToSet(stack[u]) \cap ToSet(runq) = {}
      BY DEF PlaceInv, OneActivation
    <3>2. QED BY <1>5, <1>6, <3>1
  <2>2. \A u, v \in Thread : u /= v => ToSet(stack'[u]) \cap ToSet(stack'[v]) = {}
    <3>1. \A u, v \in Thread : u /= v => ToSet(stack[u]) \cap ToSet(stack[v]) = {}
      BY DEF PlaceInv, OneActivation
    <3>2. QED BY <1>6, <3>1
  <2>3. QED BY <1>6, <2>1, <2>2 DEF OneActivation
<1>10. \A g \in ToSet(runq') : pc'[g] \in {"body", "yielded"} /\ g \notin doomed'
  <2>1. ASSUME NEW g \in ToSet(runq)
        PROVE  pc'[g] \in {"body", "yielded"} /\ g \notin doomed'
    <3>1. g \in Coroutine
      BY ToSetMember DEF TypeInv
    <3>2. QED BY <1>1, <3>1 DEF PlaceInv
  <2>2. QED BY <1>5, <2>1
<1>11. \A g \in doomed' : pc'[g] \in {"unlock", "end"}
  BY DEF PlaceInv, TypeInv
<1>12. StageInv'
  BY DEF StageInv
<1>13. QED BY <1>4, <1>5, <1>8, <1>9, <1>10, <1>11, <1>12 DEF PlaceInv

(* Main starts a coroutine, which dispatches itself. *)
LEMMA StartPlace ==
  ASSUME SyncInv, NEW c \in Coroutine, FireAndForget(c)
  PROVE  PlaceInv' /\ StageInv' /\ runq' \in Seq(Coroutine)
<1> USE DEF SyncInv
<1>1. /\ pc[c] = "new" /\ stage = "running"
      /\ runq' = Append(runq, c) /\ pc' = [pc EXCEPT ![c] = "body"]
      /\ UNCHANGED <<doomed, stack, stage>>
  BY DEF FireAndForget, Goto
<1>2. pc'[c] = "body" /\ \A g \in Coroutine : g /= c => pc'[g] = pc[g]
  BY <1>1 DEF TypeInv
<1>3. ~Placed(c) /\ c \notin doomed
  BY <1>1 DEF PlaceInv, Away
<1>4. /\ runq' \in Seq(Coroutine) /\ ToSet(runq') = ToSet(runq) \cup {c}
      /\ IsInjective(runq')
  BY <1>1, <1>3, AppendFacts DEF TypeInv, PlaceInv, Placed
<1>5. \A g \in Coroutine : Placed(g)' <=> Placed(g) \/ g = c
  BY <1>1, <1>4 DEF Placed
<1>6. \A g \in Coroutine : Placed(g)' <=> pc'[g] \notin Away
  BY <1>2, <1>5 DEF PlaceInv, Away
<1>7. OneActivation'
  BY <1>1, <1>3, <1>4 DEF PlaceInv, OneActivation, Placed
<1>8. \A g \in ToSet(runq') : pc'[g] \in {"body", "yielded"} /\ g \notin doomed'
  <2>1. ASSUME NEW g \in ToSet(runq)
        PROVE  pc'[g] \in {"body", "yielded"} /\ g \notin doomed'
    <3>1. g \in Coroutine
      BY ToSetMember DEF TypeInv
    <3>2. QED BY <1>1, <1>2, <3>1 DEF PlaceInv
  <2>2. QED BY <1>1, <1>2, <1>3, <1>4, <2>1
<1>9. \A g \in doomed' : pc'[g] \in {"unlock", "end"}
  BY <1>1, <1>2, <1>3 DEF PlaceInv, TypeInv
<1>10. StageInv'
  BY <1>1 DEF StageInv
<1>11. QED BY <1>4, <1>6, <1>7, <1>8, <1>9, <1>10 DEF PlaceInv

(* The first coroutine of the queue goes to the empty stack of a thread,   *)
(* which runs or destroys it.                                              *)
LEMMA TakePlace ==
  ASSUME SyncInv, NEW t \in Thread, NEW c \in Coroutine,
         stack[t] = <<>>, runq /= <<>>, c = Head(runq), runq' = Tail(runq),
         stack' = [stack EXCEPT ![t] = <<c>>],
         UNCHANGED stage,
         doomed' = doomed \/ doomed' = doomed \cup {c},
         \A g \in Coroutine : g /= c => pc'[g] = pc[g],
         pc'[c] \notin Away,
         c \in doomed' => pc'[c] \in {"unlock", "end"}
  PROVE  /\ PlaceInv' /\ StageInv'
         /\ stack' \in [Thread -> Seq(Coroutine)] /\ runq' \in Seq(Coroutine)
<1> USE DEF SyncInv
<1>1. PICK q \in Seq(Coroutine) :
        /\ q = runq' /\ IsInjective(q)
        /\ ToSet(runq) = {c} \cup ToSet(q) /\ c \notin ToSet(q)
  BY PopFacts DEF TypeInv, PlaceInv
<1>2. PICK r : r = <<c>>
  OBVIOUS
<1>3. r \in Seq(Coroutine) /\ ToSet(r) = {c} /\ IsInjective(r)
  <2>1. DOMAIN r = {1} /\ r[1] = c
    BY <1>2
  <2>2. QED BY <1>2, <2>1 DEF ToSet, IsInjective
<1>4. stack'[t] = r /\ \A u \in Thread : u /= t => stack'[u] = stack[u]
  BY <1>2 DEF TypeInv
<1>5. stack' \in [Thread -> Seq(Coroutine)]
  BY <1>2, <1>3 DEF TypeInv
<1>6. c \in ToSet(runq) /\ \A u \in Thread : c \notin ToSet(stack[u])
  BY <1>1 DEF PlaceInv, OneActivation
<1>7. ToSet(stack[t]) = {}
  BY EmptyFacts
<1>8. \A g \in Coroutine : Placed(g)' <=> Placed(g)
  <2>1. \A g \in Coroutine, u \in Thread :
          g \in ToSet(stack'[u]) <=> g \in ToSet(stack[u]) \/ (g = c /\ u = t)
    BY <1>3, <1>4, <1>7
  <2>2. QED BY <1>1, <2>1 DEF Placed
<1>9. \A g \in Coroutine : Placed(g)' <=> pc'[g] \notin Away
  <2>1. Placed(c)
    BY <1>6 DEF Placed
  <2>2. QED BY <1>8, <2>1 DEF PlaceInv
<1>10. OneActivation' /\ IsInjective(runq')
  <2>1. \A u \in Thread : IsInjective(stack'[u])
    BY <1>3, <1>4 DEF PlaceInv, OneActivation
  <2>2. \A u \in Thread : ToSet(stack'[u]) \cap ToSet(runq') = {}
    BY <1>1, <1>3, <1>4 DEF PlaceInv, OneActivation
  <2>3. \A u, v \in Thread : u /= v => ToSet(stack'[u]) \cap ToSet(stack'[v]) = {}
    <3>1. \A u \in Thread : u /= t => ToSet(r) \cap ToSet(stack[u]) = {}
      BY <1>3, <1>6
    <3>2. QED BY <1>4, <3>1 DEF PlaceInv, OneActivation
  <2>4. QED BY <1>1, <2>1, <2>2, <2>3 DEF OneActivation
<1>11. \A g \in ToSet(runq') : pc'[g] \in {"body", "yielded"} /\ g \notin doomed'
  <2>1. ASSUME NEW g \in ToSet(q)
        PROVE  pc'[g] \in {"body", "yielded"} /\ g \notin doomed'
    <3>1. g \in Coroutine /\ g /= c /\ g \in ToSet(runq)
      BY <1>1, ToSetMember DEF TypeInv
    <3>2. QED BY <3>1 DEF PlaceInv
  <2>2. QED BY <1>1, <2>1
<1>12. \A g \in doomed' : pc'[g] \in {"unlock", "end"}
  BY DEF PlaceInv, TypeInv
<1>13. StageInv'
  <2>1. stage \notin {"joining", "stopped"}
    BY DEF StageInv
  <2>2. QED BY <2>1 DEF StageInv
<1>14. QED BY <1>1, <1>5, <1>9, <1>10, <1>11, <1>12, <1>13 DEF PlaceInv

----------------------------------------------------------------------------
(* Steps that leave a part of the state alone *)

(* Nobody gets or gives up the lock, or starts or stops waiting for it. *)
LEMMA LockFrame ==
  ASSUME SyncInv, UNCHANGED <<locked, listed, waiters>>,
         \A g \in Coroutine : Holds(g)' <=> Holds(g),
         \A g \in Coroutine : pc'[g] = "wait" <=> pc[g] = "wait"
  PROVE  LockInv'
BY DEF SyncInv, LockInv

(* What the others have loaded stays current; c has nothing loaded now. *)
LEMMA SeenFrame ==
  ASSUME SyncInv, NEW c \in Coroutine,
         seen'[c] = None,
         \A g \in Coroutine : g /= c => seen'[g] = seen[g],
         \A g \in Coroutine : g /= c /\ seen[g] /= None => pc'[g] = pc[g],
         \/ /\ waiters = <<>> => waiters' = <<>>
            /\ listed /= <<>> => listed' /= <<>>
         \/ \A g \in Coroutine : pc[g] = "unlock" => g = c
  PROVE  SeenInv'
<1>1. None /= "Signaled"
  BY SyncAssumption
<1>2. \A g \in Coroutine : pc'[g] = "enlist" => seen'[g] /= "Signaled"
  BY <1>1 DEF SyncInv, SeenInv
<1>3. \A g \in Coroutine : pc'[g] = "unlock" /\ seen'[g] /= None =>
        waiters' = <<>> /\ (seen'[g] /= "LockedNoWaiters" => listed' /= <<>>)
  BY DEF SyncInv, SeenInv
<1>4. \A g \in Coroutine :
        seen'[g] /= None => pc'[g] \in {"enqueue", "unlock", "enlist"}
  BY DEF SyncInv, SeenInv
<1>5. QED BY <1>2, <1>3, <1>4 DEF SeenInv

(* A coroutine moves that has nothing loaded. *)
LEMMA SeenMove ==
  ASSUME SyncInv, NEW c \in Coroutine, pc[c] \notin {"enqueue", "unlock", "enlist"},
         UNCHANGED <<seen, listed, waiters>>,
         \A g \in Coroutine : g /= c /\ pc[g] \in {"enqueue", "unlock", "enlist"} =>
           pc'[g] = pc[g]
  PROVE  SeenInv'
<1>1. seen'[c] = None
  BY DEF SyncInv, SeenInv
<1>2. \A g \in Coroutine : g /= c /\ seen[g] /= None => pc'[g] = pc[g]
  BY DEF SyncInv, SeenInv
<1>3. \A g \in Coroutine : g /= c => seen'[g] = seen[g]
  OBVIOUS
<1>4. QED BY <1>1, <1>2, <1>3, SeenFrame

(* Nobody starts or stops waiting for the event. *)
LEMMA EventFrame ==
  ASSUME SyncInv, UNCHANGED <<signaled, queued, firing>>,
         \A g \in Coroutine : pc'[g] = "parked" <=> pc[g] = "parked",
         \A g \in Coroutine : firing[g] /= <<>> => pc'[g] = "firing"
  PROVE  EventInv'
<1>1. \A g \in Coroutine :
        pc'[g] = "parked" <=>
          g \in ToSet(queued') \/ \E d \in Contenders : g \in ToSet(firing'[d])
  BY DEF SyncInv, EventInv
<1>2. QED BY <1>1 DEF SyncInv, EventInv

(* Nobody calls Done or Fire, and nobody leaves Wait. *)
LEMMA CountFrame ==
  ASSUME SyncInv, UNCHANGED <<counter, signaled>>, Added,
         \A g \in Contenders : Did(g)' <=> Did(g),
         \A g \in Contenders : InFire(g)' <=> InFire(g),
         \A g \in Coroutine \ Contenders : Ended(g)' => Ended(g) \/ signaled
  PROVE  CountInv'
<1> USE DEF SyncInv
<1>1. Left' = Left
  BY DEF Left
<1>2. Added' => counter' = Cardinality(Left')
  BY <1>1 DEF CountInv
<1>3. \A c, d \in Contenders : InFire(c)' /\ InFire(d)' => c = d
  BY DEF CountInv
<1>4. (\E c \in Contenders : InFire(c)') => \A c \in Contenders : Did(c)'
  BY DEF CountInv
<1>5. signaled' => \A c \in Contenders : Did(c)' /\ ~InFire(c)'
  BY DEF CountInv
<1>6. \A c \in Coroutine \ Contenders : Ended(c)' => signaled'
  BY DEF CountInv
<1>7. QED BY <1>2, <1>3, <1>4, <1>5, <1>6 DEF CountInv

MutexLabels == {"body", "enqueue", "locked", "yielded", "unlock", "wait", "done"}

(* A contender makes a step of the mutex, which may resume another. *)
LEMMA MutexAside ==
  ASSUME SyncInv, NEW c \in Contenders, UNCHANGED evars,
         \A g \in Coroutine : g /= c =>
           pc'[g] = pc[g] \/ (pc[g] = "wait" /\ pc'[g] = "locked"),
         doomed' = doomed \/ doomed' = doomed \cup {c},
         pc[c] \in MutexLabels,
         pc'[c] \in MutexLabels \/ (pc'[c] = "end" /\ c \in doomed')
  PROVE  EventInv' /\ CountInv' /\ LabelInv'
<1> USE DEF SyncInv
<1>1. c \in Coroutine /\ Contenders \subseteq Coroutine
  BY SyncAssumption
<1>2. UNCHANGED <<counter, signaled, queued, firing>>
  BY DEF evars
<1>3. EventInv'
  <2>1. \A g \in Coroutine : pc'[g] = "parked" <=> pc[g] = "parked"
    BY <1>1 DEF MutexLabels
  <2>2. \A g \in Coroutine : firing[g] /= <<>> => pc'[g] = "firing"
    BY <1>1 DEF EventInv, MutexLabels
  <2>3. QED BY <1>2, <2>1, <2>2, EventFrame
<1>4. CountInv'
  <2>1. Added
    BY <1>1 DEF Added, MutexLabels
  <2>2. ~Did(c) /\ ~Did(c)' /\ ~InFire(c) /\ ~InFire(c)'
    BY DEF Did, Ended, InFire, MutexLabels
  <2>3. \A g \in Coroutine : g /= c =>
          (Did(g)' <=> Did(g)) /\ (InFire(g)' <=> InFire(g)) /\ (Ended(g)' <=> Ended(g))
    BY DEF Did, Ended, InFire
  <2>4. QED BY <1>1, <1>2, <2>1, <2>2, <2>3, CountFrame
<1>5. LabelInv'
  BY <1>1 DEF LabelInv, MutexLabels
<1>6. QED BY <1>3, <1>4, <1>5

(* What loads of the two state_ words return *)
LEMMA WordFacts ==
  ASSUME TypeInv
  PROVE  /\ Word \in Coroutine \cup Words
         /\ Word = "Unlocked" <=> ~locked
         /\ Word = "LockedNoWaiters" <=> locked /\ listed = <<>>
         /\ EventWord \in Coroutine \cup Words
         /\ EventWord = "Signaled" <=> signaled
         /\ EventWord = "NoWaiters" <=> ~signaled /\ queued = <<>>
<1>1. \A x \in Coroutine : x \notin Words
  BY SyncAssumption DEF Words
<1>2. listed /= <<>> => Head(listed) \in Coroutine
  BY PopFacts DEF TypeInv
<1>3. queued /= <<>> => Head(queued) \in Coroutine
  BY PopFacts DEF TypeInv
<1>4. PICK h, k : h = Head(listed) /\ k = Head(queued)
  OBVIOUS
<1>5. /\ Word \in Coroutine \cup Words
      /\ Word = "Unlocked" <=> ~locked
      /\ Word = "LockedNoWaiters" <=> locked /\ listed = <<>>
  BY <1>1, <1>2, <1>4 DEF Word, Words, TypeInv
<1>6. /\ EventWord \in Coroutine \cup Words
      /\ EventWord = "Signaled" <=> signaled
      /\ EventWord = "NoWaiters" <=> ~signaled /\ queued = <<>>
  BY <1>1, <1>3, <1>4 DEF EventWord, Words, TypeInv
<1>7. QED BY <1>5, <1>6

(* Only what a coroutine has loaded changes. *)
LEMMA LoadStep ==
  ASSUME SyncInv, NEW c \in Coroutine, NEW x \in Coroutine \cup {None} \cup Words,
         Load(c, x), UNCHANGED <<rvars, mvars, evars>>,
         x = None \/ /\ pc[c] \in {"enqueue", "unlock", "enlist"}
                     /\ pc[c] = "unlock" =>
                          waiters = <<>> /\ (x /= "LockedNoWaiters" => listed /= <<>>)
                     /\ pc[c] = "enlist" => x /= "Signaled"
  PROVE  SyncInv'
<1> USE DEF SyncInv
<1>1. /\ UNCHANGED <<pc, doomed, stack, runq, stage, locked, listed, waiters, counter,
                     signaled, queued, firing>>
      /\ seen' = [seen EXCEPT ![c] = x]
  BY DEF rvars, mvars, evars, Load
<1>2. TypeInv'
  BY <1>1 DEF TypeInv
<1>3. PlaceInv' /\ StageInv'
  BY <1>1 DEF PlaceInv, StageInv, OneActivation, Placed
<1>4. LabelInv' /\ LockInv'
  BY <1>1 DEF LabelInv, LockInv, Holds
<1>5. EventInv' /\ CountInv'
  BY <1>1 DEF EventInv, CountInv, Added, Left, Did, Ended, InFire
<1>6. SeenInv'
  <2>1. None /= "Signaled"
    BY SyncAssumption
  <2>2. seen'[c] = x /\ \A g \in Coroutine : g /= c => seen'[g] = seen[g]
    BY <1>1 DEF TypeInv
  <2>3. QED BY <1>1, <2>1, <2>2 DEF SeenInv
<1>7. QED BY <1>2, <1>3, <1>4, <1>5, <1>6

----------------------------------------------------------------------------
(* Lock *)

(* One attempt to lock: c owns the mutex afterwards if it was open. *)
LEMMA LockTaken ==
  ASSUME SyncInv, NEW c \in Coroutine, ~Holds(c), pc[c] /= "wait", pc'[c] /= "wait",
         \A g \in Coroutine : g /= c => pc'[g] = pc[g],
         locked' = TRUE, UNCHANGED <<listed, waiters>>,
         Holds(c)' <=> ~locked
  PROVE  LockInv'
<1> USE DEF SyncInv
<1>1. \A g \in Coroutine : g /= c => (Holds(g)' <=> Holds(g))
  BY DEF Holds
<1>2. \A g, d \in Coroutine : Holds(g)' /\ Holds(d)' => g = d
  BY <1>1 DEF LockInv
<1>3. \E g \in Coroutine : Holds(g)'
  BY <1>1 DEF LockInv
<1>4. QED BY <1>2, <1>3 DEF LockInv

LEMMA TryLockStep ==
  ASSUME SyncInv, NEW t \in Thread, NEW c \in Executing(t), TryLock(t, c)
  PROVE  SyncInv'
<1> USE DEF SyncInv
<1>1. PICK l : l = (IF locked THEN "enqueue" ELSE "locked") /\ Continue(c, l)
  BY DEF TryLock
<1>2. /\ c \in Contenders /\ c \in Coroutine /\ pc[c] = "body"
      /\ pc' = [pc EXCEPT ![c] = l] /\ locked' = TRUE
      /\ UNCHANGED <<doomed, stack, runq, stage, listed, waiters, seen, evars>>
  BY <1>1, TopFacts DEF TryLock, Continue, Goto
<1>3. pc'[c] = l /\ \A g \in Coroutine : g /= c => pc'[g] = pc[g]
  BY <1>2 DEF TypeInv
<1>4. TypeInv'
  BY <1>1, <1>2 DEF TypeInv, Labels, evars
<1>5. PlaceInv' /\ StageInv'
  <2>1. c \notin doomed /\ pc'[c] \notin Away
    BY <1>1, <1>2, <1>3 DEF PlaceInv, Away
  <2>2. UNCHANGED <<stack, runq, stage>> /\ doomed' = doomed
    BY <1>2
  <2>3. QED BY <1>3, <2>1, <2>2, MovePlace
<1>6. LockInv'
  <2>1. ~Holds(c) /\ (Holds(c)' <=> ~locked) /\ pc[c] /= "wait" /\ pc'[c] /= "wait"
    BY <1>1, <1>2, <1>3 DEF Holds
  <2>2. QED BY <1>2, <1>3, <2>1, LockTaken
<1>7. SeenInv'
  BY <1>2, <1>3, SeenMove
<1>8. EventInv' /\ CountInv' /\ LabelInv'
  <2>1. pc[c] \in MutexLabels /\ pc'[c] \in MutexLabels /\ c \in Contenders
    BY <1>1, <1>2, <1>3 DEF MutexLabels
  <2>2. UNCHANGED evars /\ doomed' = doomed
    BY <1>2
  <2>3. QED BY <1>3, <2>1, <2>2, MutexAside
<1>9. QED BY <1>4, <1>5, <1>6, <1>7, <1>8

LEMMA EnqueueLoadStep ==
  ASSUME SyncInv, NEW t \in Thread, NEW c \in Executing(t), EnqueueLoad(t, c)
  PROVE  SyncInv'
<1>1. c \in Coroutine /\ pc[c] = "enqueue"
  BY TopFacts DEF EnqueueLoad
<1>2. PICK x : x = Word
  OBVIOUS
<1>3. /\ x \in Coroutine \cup {None} \cup Words
      /\ Load(c, x) /\ UNCHANGED <<rvars, mvars, evars>>
  BY <1>2, WordFacts DEF EnqueueLoad, SyncInv
<1>4. QED BY <1>1, <1>3, LoadStep

LEMMA EnqueueTryLockStep ==
  ASSUME SyncInv, NEW t \in Thread, NEW c \in Executing(t), EnqueueTryLock(t, c)
  PROVE  SyncInv'
<1> USE DEF SyncInv
<1>1. PICK l : l = (IF locked THEN "enqueue" ELSE "locked") /\ Continue(c, l)
  BY DEF EnqueueTryLock
<1>2. /\ c \in Coroutine /\ pc[c] = "enqueue"
      /\ pc' = [pc EXCEPT ![c] = l] /\ locked' = TRUE
      /\ seen' = [seen EXCEPT ![c] = None]
      /\ UNCHANGED <<doomed, stack, runq, stage, listed, waiters, evars>>
  BY <1>1, TopFacts DEF EnqueueTryLock, Continue, Goto, Retry, Load
<1>3. pc'[c] = l /\ \A g \in Coroutine : g /= c => pc'[g] = pc[g]
  BY <1>2 DEF TypeInv
<1>4. TypeInv'
  BY <1>1, <1>2 DEF TypeInv, Labels, evars
<1>5. PlaceInv' /\ StageInv'
  <2>1. c \notin doomed /\ pc'[c] \notin Away
    BY <1>1, <1>2, <1>3 DEF PlaceInv, Away
  <2>2. UNCHANGED <<stack, runq, stage>> /\ doomed' = doomed
    BY <1>2
  <2>3. QED BY <1>3, <2>1, <2>2, MovePlace
<1>6. LockInv'
  <2>1. ~Holds(c) /\ (Holds(c)' <=> ~locked) /\ pc[c] /= "wait" /\ pc'[c] /= "wait"
    BY <1>1, <1>2, <1>3 DEF Holds
  <2>2. QED BY <1>2, <1>3, <2>1, LockTaken
<1>7. SeenInv'
  <2>1. seen'[c] = None /\ \A g \in Coroutine : g /= c => seen'[g] = seen[g]
    BY <1>2 DEF TypeInv
  <2>2. QED BY <1>2, <1>3, <2>1, SeenFrame
<1>8. EventInv' /\ CountInv' /\ LabelInv'
  <2>1. pc[c] \in MutexLabels /\ pc'[c] \in MutexLabels /\ c \in Contenders
    BY <1>1, <1>2, <1>3 DEF MutexLabels, LabelInv
  <2>2. UNCHANGED evars /\ doomed' = doomed
    BY <1>2
  <2>3. QED BY <1>3, <2>1, <2>2, MutexAside
<1>9. QED BY <1>4, <1>5, <1>6, <1>7, <1>8

(* The awaiter is linked, if state_ is still what the coroutine has seen. *)
LEMMA EnqueueCasStep ==
  ASSUME SyncInv, NEW t \in Thread, NEW c \in Executing(t), EnqueueCas(t, c)
  PROVE  SyncInv'
<1> USE DEF SyncInv
<1>1. /\ c \in Coroutine /\ pc[c] = "enqueue" /\ seen[c] /= "Unlocked"
      /\ Retry(c) /\ UNCHANGED <<locked, waiters, evars>>
  BY TopFacts DEF EnqueueCas
<1>2. CASE Word /= seen[c]
  <2>1. UNCHANGED <<rvars, mvars, evars>>
    BY <1>1, <1>2 DEF EnqueueCas, mvars
  <2>2. QED BY <1>1, <2>1, LoadStep DEF Retry
<1>3. CASE Word = seen[c]
  <2>1. locked
    BY <1>1, <1>3, WordFacts
  <2>2. /\ listed' = <<c>> \o listed
        /\ pc' = [pc EXCEPT ![c] = "wait"]
        /\ stack' = [stack EXCEPT ![t] = Front(stack[t])]
        /\ seen' = [seen EXCEPT ![c] = None]
        /\ UNCHANGED <<doomed, runq, stage>>
    BY <1>1, <1>3 DEF EnqueueCas, Suspend, Goto, Retry, Load
  <2>3. pc'[c] = "wait" /\ \A g \in Coroutine : g /= c => pc'[g] = pc[g]
    BY <1>1, <2>2 DEF TypeInv
  <2>4. c \notin ToSet(listed) /\ c \notin ToSet(waiters)
    BY <1>1 DEF LockInv
  <2>5. /\ listed' \in Seq(Coroutine) /\ listed' /= <<>>
        /\ ToSet(listed') = {c} \cup ToSet(listed) /\ IsInjective(listed')
    BY <1>1, <2>2, <2>4, PushFacts DEF TypeInv, LockInv
  <2>6. PlaceInv' /\ StageInv' /\ stack' \in [Thread -> Seq(Coroutine)]
    <3>1. pc'[c] \in Away /\ doomed' = doomed \ {c}
      BY <1>1, <2>2, <2>3 DEF PlaceInv, Away
    <3>2. UNCHANGED <<runq, stage>>
      BY <2>2
    <3>3. QED BY <2>2, <2>3, <3>1, <3>2, PopPlace
  <2>7. TypeInv'
    BY <1>1, <2>2, <2>5, <2>6 DEF TypeInv, Labels, evars
  <2>8. LockInv'
    <3>1. \A g \in Coroutine : Holds(g)' <=> Holds(g)
      BY <1>1, <2>3 DEF Holds
    <3>2. \A g \in Coroutine :
            pc'[g] = "wait" <=> g \in ToSet(listed') \cup ToSet(waiters')
      BY <1>1, <2>3, <2>5 DEF LockInv
    <3>3. ToSet(listed') \cap ToSet(waiters') = {}
      BY <1>1, <2>4, <2>5 DEF LockInv
    <3>4. QED BY <1>1, <2>1, <2>5, <3>1, <3>2, <3>3 DEF LockInv
  <2>9. SeenInv'
    <3>1. seen'[c] = None /\ \A g \in Coroutine : g /= c => seen'[g] = seen[g]
      BY <1>1, <2>2 DEF TypeInv
    <3>2. QED BY <1>1, <2>3, <2>5, <3>1, SeenFrame
  <2>10. EventInv' /\ CountInv' /\ LabelInv'
    <3>1. pc[c] \in MutexLabels /\ pc'[c] \in MutexLabels /\ c \in Contenders
      BY <1>1, <2>3 DEF MutexLabels, LabelInv
    <3>2. UNCHANGED evars /\ doomed' = doomed
      BY <1>1, <2>2
    <3>3. QED BY <2>3, <3>1, <3>2, MutexAside
  <2>11. QED BY <2>6, <2>7, <2>8, <2>9, <2>10
<1>4. QED BY <1>2, <1>3

(* The critical section, in which the coroutine may yield; a closed pool   *)
(* destroys the frame that yields.                                         *)
LEMMA SectionStep ==
  ASSUME SyncInv, NEW t \in Thread, NEW c \in Executing(t), Section(t, c)
  PROVE  SyncInv'
<1> USE DEF SyncInv
<1>1. /\ c \in Coroutine /\ pc[c] = "locked"
      /\ UNCHANGED <<locked, listed, waiters, seen, evars>>
  BY TopFacts DEF Section, mvars
<1>2. c \in Contenders /\ c \notin doomed
  BY <1>1 DEF LabelInv, PlaceInv
<1>3. /\ PlaceInv' /\ StageInv'
      /\ stack' \in [Thread -> Seq(Coroutine)] /\ runq' \in Seq(Coroutine)
      /\ UNCHANGED stage
      /\ pc' \in [Coroutine -> Labels] /\ pc'[c] \in {"yielded", "unlock"}
      /\ \A g \in Coroutine : g /= c => pc'[g] = pc[g]
      /\ doomed' = doomed \/ doomed' = doomed \cup {c}
  <2>1. CASE c \in Yielders /\ stage = "running"
    <3>1. /\ runq' = Append(runq, c)
          /\ stack' = [stack EXCEPT ![t] = Front(stack[t])]
          /\ pc' = [pc EXCEPT ![c] = "yielded"]
          /\ UNCHANGED <<stage, doomed>>
      BY <2>1 DEF Section, Dispatch, Goto
    <3>2. /\ pc' \in [Coroutine -> Labels]
          /\ pc'[c] = "yielded" /\ \A g \in Coroutine : g /= c => pc'[g] = pc[g]
      BY <1>1, <3>1 DEF TypeInv, Labels
    <3>3. QED BY <1>2, <2>1, <3>1, <3>2, QueuePlace
  <2>2. CASE c \in Yielders /\ stage /= "running"
    <3>1. /\ doomed' = doomed \cup {c}
          /\ pc' = [pc EXCEPT ![c] = "unlock"]
          /\ UNCHANGED <<stack, runq, stage>>
      BY <2>2 DEF Section, Dispatch, Goto
    <3>2. /\ pc' \in [Coroutine -> Labels]
          /\ pc'[c] = "unlock" /\ \A g \in Coroutine : g /= c => pc'[g] = pc[g]
      BY <1>1, <3>1 DEF TypeInv, Labels
    <3>3. pc'[c] \notin Away
      BY <3>2 DEF Away
    <3>4. PlaceInv' /\ StageInv'
      BY <3>1, <3>2, <3>3, MovePlace
    <3>5. QED BY <3>1, <3>2, <3>4 DEF TypeInv
  <2>3. CASE c \notin Yielders
    <3>1. /\ pc' = [pc EXCEPT ![c] = "unlock"]
          /\ UNCHANGED <<doomed, stack, runq, stage>>
      BY <2>3 DEF Section, Continue, Goto
    <3>2. /\ pc' \in [Coroutine -> Labels]
          /\ pc'[c] = "unlock" /\ \A g \in Coroutine : g /= c => pc'[g] = pc[g]
      BY <1>1, <3>1 DEF TypeInv, Labels
    <3>3. pc'[c] \notin Away
      BY <3>2 DEF Away
    <3>4. PlaceInv' /\ StageInv'
      BY <1>2, <3>1, <3>2, <3>3, MovePlace
    <3>5. QED BY <3>1, <3>2, <3>4 DEF TypeInv
  <2>4. QED BY <2>1, <2>2, <2>3
<1>4. TypeInv'
  BY <1>1, <1>2, <1>3 DEF TypeInv, evars
<1>5. LockInv'
  <2>1. \A g \in Coroutine : Holds(g)' <=> Holds(g)
    BY <1>1, <1>3 DEF Holds
  <2>2. \A g \in Coroutine : pc'[g] = "wait" <=> pc[g] = "wait"
    BY <1>1, <1>3
  <2>3. QED BY <1>1, <2>1, <2>2, LockFrame
<1>6. SeenInv'
  BY <1>1, <1>3, SeenMove
<1>7. EventInv' /\ CountInv' /\ LabelInv'
  <2>1. pc[c] \in MutexLabels /\ pc'[c] \in MutexLabels
    BY <1>1, <1>3 DEF MutexLabels
  <2>2. UNCHANGED evars
    BY <1>1
  <2>3. QED BY <1>2, <1>3, <2>1, <2>2, MutexAside
<1>8. QED BY <1>3, <1>4, <1>5, <1>6, <1>7

LEMMA ResumedStep ==
  ASSUME SyncInv, NEW t \in Thread, NEW c \in Executing(t), Resumed(t, c)
  PROVE  SyncInv'
<1> USE DEF SyncInv
<1>1. /\ c \in Coroutine /\ pc[c] = "yielded"
      /\ pc' = [pc EXCEPT ![c] = "unlock"]
      /\ UNCHANGED <<doomed, stack, runq, stage, locked, listed, waiters, seen, evars>>
  BY TopFacts DEF Resumed, Continue, Goto, mvars
<1>2. c \in Contenders /\ c \notin doomed
  BY <1>1 DEF LabelInv, PlaceInv
<1>3. pc'[c] = "unlock" /\ \A g \in Coroutine : g /= c => pc'[g] = pc[g]
  BY <1>1 DEF TypeInv
<1>4. TypeInv'
  BY <1>1 DEF TypeInv, Labels, evars
<1>5. PlaceInv' /\ StageInv'
  <2>1. UNCHANGED <<stack, runq, stage>> /\ doomed' = doomed /\ pc'[c] \notin Away
    BY <1>1, <1>3 DEF Away
  <2>2. QED BY <1>2, <1>3, <2>1, MovePlace
<1>6. LockInv'
  <2>1. \A g \in Coroutine : Holds(g)' <=> Holds(g)
    BY <1>1, <1>3 DEF Holds
  <2>2. \A g \in Coroutine : pc'[g] = "wait" <=> pc[g] = "wait"
    BY <1>1, <1>3
  <2>3. QED BY <1>1, <2>1, <2>2, LockFrame
<1>7. SeenInv'
  BY <1>1, <1>3, SeenMove
<1>8. EventInv' /\ CountInv' /\ LabelInv'
  <2>1. pc[c] \in MutexLabels /\ pc'[c] \in MutexLabels
    BY <1>1, <1>3 DEF MutexLabels
  <2>2. UNCHANGED evars /\ doomed' = doomed
    BY <1>1
  <2>3. QED BY <1>2, <1>3, <2>1, <2>2, MutexAside
<1>9. QED BY <1>4, <1>5, <1>6, <1>7, <1>8

----------------------------------------------------------------------------
(* Unlock *)

(* Unlock resumes the head of a list, which owns the mutex from then on. *)
LEMMA HandOver ==
  ASSUME SyncInv, NEW t \in Thread, NEW c \in Executing(t), pc[c] = "unlock",
         NEW list \in Seq(Coroutine), list /= <<>>, ResumeNextWaiter(t, c, list),
         \/ list = waiters /\ listed' = listed
         \/ list = listed /\ waiters = <<>> /\ listed' = <<>>,
         UNCHANGED <<locked, evars>>,
         seen' \in [Coroutine -> Coroutine \cup {None} \cup Words], seen'[c] = None,
         \A g \in Coroutine : g /= c => seen'[g] = seen[g]
  PROVE  SyncInv'
<1> USE DEF SyncInv
<1>1. c \in Coroutine /\ Holds(c)
  BY TopFacts DEF Holds
<1>2. c \in Contenders /\ locked /\ \A g \in Coroutine : Holds(g) => g = c
  BY <1>1 DEF LabelInv, LockInv
<1>3. PICK n \in Coroutine, rest \in Seq(Coroutine) :
        /\ n = Head(list) /\ rest = Tail(list)
        /\ ToSet(list) = {n} \cup ToSet(rest) /\ n \notin ToSet(rest) /\ IsInjective(rest)
  <2>1. IsInjective(list)
    BY DEF LockInv
  <2>2. Head(list) \in Coroutine /\ Tail(list) \in Seq(Coroutine)
    BY PopFacts
  <2>3. QED BY <2>1, <2>2, PopFacts
<1>4. PICK l : l = AfterUnlock(c)
  OBVIOUS
<1>5. /\ pc' = [pc EXCEPT ![c] = l, ![n] = "locked"]
      /\ stack' = [stack EXCEPT ![t] = Append(stack[t], n)]
      /\ waiters' = rest
      /\ UNCHANGED <<doomed, runq, stage>>
  BY <1>3, <1>4 DEF ResumeNextWaiter, Resume
<1>6. pc[n] = "wait" /\ n /= c
  BY <1>3 DEF LockInv
<1>7. /\ pc'[c] = l /\ pc'[n] = "locked"
      /\ \A g \in Coroutine : g /= c /\ g /= n => pc'[g] = pc[g]
      /\ l = IF c \in doomed THEN "end" ELSE "done"
  BY <1>1, <1>4, <1>5, <1>6 DEF TypeInv, AfterUnlock
<1>8. PlaceInv' /\ StageInv' /\ stack' \in [Thread -> Seq(Coroutine)]
  <2>1. pc[n] \in Away /\ pc'[c] \notin Away /\ pc'[n] \notin Away
    BY <1>6, <1>7 DEF Away
  <2>2. c \in doomed => pc'[c] \in {"unlock", "end"}
    BY <1>7
  <2>3. UNCHANGED <<runq, stage, doomed>>
    BY <1>5
  <2>4. QED BY <1>5, <1>7, <2>1, <2>2, <2>3, PushPlace
<1>9. /\ listed' \in Seq(Coroutine) /\ IsInjective(listed')
      /\ ToSet(listed') \cap ToSet(waiters') = {}
      /\ ToSet(listed') \cup ToSet(waiters') = (ToSet(listed) \cup ToSet(waiters)) \ {n}
  <2>1. CASE list = waiters /\ listed' = listed
    BY <1>3, <1>5, <2>1 DEF TypeInv, LockInv
  <2>2. CASE list = listed /\ waiters = <<>> /\ listed' = <<>>
    <3>1. <<>> \in Seq(Coroutine)
      OBVIOUS
    <3>2. QED BY <1>3, <1>5, <2>2, <3>1, EmptyFacts
  <2>3. QED BY <2>1, <2>2
<1>10. TypeInv'
  <2>1. pc' \in [Coroutine -> Labels]
    BY <1>5, <1>7 DEF TypeInv, Labels
  <2>2. QED BY <1>5, <1>8, <1>9, <2>1 DEF TypeInv, evars
<1>11. LockInv'
  <2>1. \A g \in Coroutine : Holds(g)' <=> g = n
    BY <1>2, <1>6, <1>7 DEF Holds
  <2>2. \A g \in Coroutine : pc'[g] = "wait" <=> pc[g] = "wait" /\ g /= n
    BY <1>6, <1>7
  <2>3. \A g \in Coroutine :
          pc'[g] = "wait" <=> g \in ToSet(listed') \cup ToSet(waiters')
    BY <1>9, <2>2 DEF LockInv
  <2>4. QED BY <1>2, <1>3, <1>5, <1>9, <2>1, <2>3 DEF LockInv
<1>12. SeenInv'
  <2>1. \A g \in Coroutine : pc[g] = "unlock" => g = c
    BY <1>2 DEF Holds
  <2>2. seen[n] = None
    BY <1>6 DEF SeenInv
  <2>3. \A g \in Coroutine : g /= c /\ seen[g] /= None => pc'[g] = pc[g]
    BY <1>7, <2>2
  <2>4. QED BY <1>1, <2>1, <2>3, SeenFrame
<1>13. EventInv' /\ CountInv' /\ LabelInv'
  <2>1. pc[c] \in MutexLabels /\ (pc'[c] \in MutexLabels \/ (pc'[c] = "end" /\ c \in doomed'))
    BY <1>5, <1>7 DEF MutexLabels
  <2>2. UNCHANGED evars /\ doomed' = doomed
    BY <1>5
  <2>3. \A g \in Coroutine : g /= c =>
          pc'[g] = pc[g] \/ (pc[g] = "wait" /\ pc'[g] = "locked")
    BY <1>6, <1>7
  <2>4. QED BY <1>2, <2>1, <2>2, <2>3, MutexAside
<1>14. QED BY <1>8, <1>10, <1>11, <1>12, <1>13

LEMMA ReleaseWaitersStep ==
  ASSUME SyncInv, NEW t \in Thread, NEW c \in Executing(t), ReleaseWaiters(t, c)
  PROVE  SyncInv'
<1> USE DEF SyncInv
<1>1. /\ c \in Coroutine /\ pc[c] = "unlock" /\ waiters /= <<>>
      /\ ResumeNextWaiter(t, c, waiters)
      /\ UNCHANGED <<locked, listed, seen, evars>>
  BY TopFacts DEF ReleaseWaiters
<1>2. seen'[c] = None
  BY <1>1 DEF SeenInv
<1>3. waiters \in Seq(Coroutine)
  BY DEF TypeInv
<1>4. /\ seen' \in [Coroutine -> Coroutine \cup {None} \cup Words]
      /\ \A g \in Coroutine : g /= c => seen'[g] = seen[g]
      /\ UNCHANGED <<locked, evars>>
  BY <1>1 DEF TypeInv
<1>5. QED BY <1>1, <1>2, <1>3, <1>4, HandOver

LEMMA ReleaseTakeStep ==
  ASSUME SyncInv, NEW t \in Thread, NEW c \in Executing(t), ReleaseTake(t, c)
  PROVE  SyncInv'
<1> USE DEF SyncInv
<1>1. /\ c \in Coroutine /\ pc[c] = "unlock"
      /\ seen[c] /= None /\ seen[c] /= "LockedNoWaiters"
      /\ seen' = [seen EXCEPT ![c] = None]
      /\ ResumeNextWaiter(t, c, listed) /\ listed' = <<>>
      /\ UNCHANGED <<locked, evars>>
  BY TopFacts DEF ReleaseTake, Retry, Load
<1>2. listed /= <<>> /\ waiters = <<>> /\ listed \in Seq(Coroutine)
  BY <1>1 DEF SeenInv, TypeInv
<1>3. /\ seen' \in [Coroutine -> Coroutine \cup {None} \cup Words]
      /\ seen'[c] = None
      /\ \A g \in Coroutine : g /= c => seen'[g] = seen[g]
  BY <1>1 DEF TypeInv
<1>4. QED BY <1>1, <1>2, <1>3, HandOver

LEMMA ReleaseLoadStep ==
  ASSUME SyncInv, NEW t \in Thread, NEW c \in Executing(t), ReleaseLoad(t, c)
  PROVE  SyncInv'
<1>1. c \in Coroutine /\ pc[c] = "unlock" /\ waiters = <<>>
  BY TopFacts DEF ReleaseLoad
<1>2. locked
  BY <1>1 DEF SyncInv, LockInv, Holds
<1>3. PICK x : x = Word
  OBVIOUS
<1>4. /\ x \in Coroutine \cup {None} \cup Words
      /\ x /= "LockedNoWaiters" => listed /= <<>>
      /\ Load(c, x) /\ UNCHANGED <<rvars, mvars, evars>>
  BY <1>2, <1>3, WordFacts DEF ReleaseLoad, SyncInv
<1>5. QED BY <1>1, <1>4, LoadStep

(* Unlock without waiters *)
LEMMA ReleaseCasStep ==
  ASSUME SyncInv, NEW t \in Thread, NEW c \in Executing(t), ReleaseCas(t, c)
  PROVE  SyncInv'
<1> USE DEF SyncInv
<1>1. /\ c \in Coroutine /\ pc[c] = "unlock" /\ seen[c] = "LockedNoWaiters"
      /\ Retry(c) /\ UNCHANGED <<listed, waiters, evars>>
  BY TopFacts DEF ReleaseCas
<1>2. CASE Word /= "LockedNoWaiters"
  <2>1. UNCHANGED <<rvars, mvars, evars>>
    BY <1>1, <1>2 DEF ReleaseCas, mvars
  <2>2. QED BY <1>1, <2>1, LoadStep DEF Retry
<1>3. CASE Word = "LockedNoWaiters"
  <2>1. locked /\ listed = <<>>
    BY <1>3, WordFacts
  <2>2. waiters = <<>>
    <3>1. None /= "LockedNoWaiters"
      BY SyncAssumption
    <3>2. QED BY <1>1, <3>1 DEF SeenInv
  <2>3. PICK l : l = AfterUnlock(c) /\ Continue(c, l)
    BY <1>3 DEF ReleaseCas
  <2>4. /\ pc' = [pc EXCEPT ![c] = l] /\ locked' = FALSE
        /\ seen' = [seen EXCEPT ![c] = None]
        /\ UNCHANGED <<doomed, stack, runq, stage>>
        /\ l = IF c \in doomed THEN "end" ELSE "done"
    BY <1>1, <1>3, <2>3 DEF ReleaseCas, Continue, Goto, Retry, Load, AfterUnlock
  <2>5. pc'[c] = l /\ \A g \in Coroutine : g /= c => pc'[g] = pc[g]
    BY <1>1, <2>4 DEF TypeInv
  <2>6. TypeInv'
    BY <1>1, <2>4 DEF TypeInv, Labels, evars
  <2>7. PlaceInv' /\ StageInv'
    <3>1. UNCHANGED <<stack, runq, stage>> /\ doomed' = doomed /\ pc'[c] \notin Away
      BY <2>4, <2>5 DEF Away
    <3>2. c \in doomed' => pc'[c] \in {"unlock", "end"}
      BY <2>4, <2>5
    <3>3. QED BY <2>5, <3>1, <3>2, MovePlace
  <2>8. LockInv'
    <3>1. \A g \in Coroutine : ~Holds(g)'
      BY <1>1, <2>4, <2>5 DEF Holds, LockInv
    <3>2. \A g \in Coroutine : pc'[g] = "wait" <=> pc[g] = "wait"
      BY <1>1, <2>4, <2>5
    <3>3. QED BY <1>1, <2>1, <2>2, <2>4, <3>1, <3>2 DEF LockInv
  <2>9. SeenInv'
    <3>1. seen'[c] = None /\ \A g \in Coroutine : g /= c => seen'[g] = seen[g]
      BY <1>1, <2>4 DEF TypeInv
    <3>2. QED BY <1>1, <2>5, <3>1, SeenFrame
  <2>10. EventInv' /\ CountInv' /\ LabelInv'
    <3>1. /\ pc[c] \in MutexLabels /\ c \in Contenders
          /\ pc'[c] \in MutexLabels \/ (pc'[c] = "end" /\ c \in doomed')
      BY <1>1, <2>4, <2>5 DEF MutexLabels, LabelInv
    <3>2. UNCHANGED evars /\ doomed' = doomed
      BY <1>1, <2>4
    <3>3. QED BY <2>5, <3>1, <3>2, MutexAside
  <2>11. QED BY <2>6, <2>7, <2>8, <2>9, <2>10
<1>4. QED BY <1>2, <1>3

----------------------------------------------------------------------------
(* Done and Fire *)

OutsideLabels == {"body", "done", "fire", "take", "firing", "enlist", "parked", "end"}

(* A coroutine that neither has nor wants the lock makes a step, which may *)
(* resume another.                                                         *)
LEMMA EventAside ==
  ASSUME SyncInv, NEW c \in Coroutine, UNCHANGED mvars,
         pc[c] \in OutsideLabels, pc'[c] \in OutsideLabels,
         \A g \in Coroutine : g /= c =>
           pc'[g] = pc[g] \/ (pc[g] = "parked" /\ pc'[g] = "end")
  PROVE  LockInv'
<1>1. UNCHANGED <<locked, listed, waiters>>
  BY DEF mvars
<1>2. \A g \in Coroutine : Holds(g)' <=> Holds(g)
  BY DEF Holds, OutsideLabels
<1>3. \A g \in Coroutine : pc'[g] = "wait" <=> pc[g] = "wait"
  BY DEF OutsideLabels
<1>4. QED BY <1>1, <1>2, <1>3, LockFrame

(* Done: the last contender goes on to fire. *)
LEMMA DoneStep ==
  ASSUME SyncInv, NEW t \in Thread, NEW c \in Executing(t), Done(t, c)
  PROVE  SyncInv'
<1> USE DEF SyncInv
<1>1. PICK l : l = (IF counter = 1 THEN "fire" ELSE "end") /\ Continue(c, l)
  BY DEF Done
<1>2. /\ c \in Coroutine /\ pc[c] = "done" /\ counter' = counter - 1
      /\ pc' = [pc EXCEPT ![c] = l]
      /\ UNCHANGED <<doomed, stack, runq, stage, mvars, seen, signaled, queued, firing>>
  BY <1>1, TopFacts DEF Done, Continue, Goto
<1>3. c \in Contenders /\ c \notin doomed /\ Contenders \subseteq Coroutine
  BY <1>2, SyncAssumption DEF LabelInv, PlaceInv
<1>4. pc'[c] = l /\ \A g \in Coroutine : g /= c => pc'[g] = pc[g]
  BY <1>2 DEF TypeInv
<1>5. /\ c \in Left /\ Left' = Left \ {c} /\ IsFiniteSet(Left)
  <2>1. ~Did(c) /\ Did(c)'
    BY <1>1, <1>2, <1>3, <1>4 DEF Did, Ended
  <2>2. \A g \in Contenders : g /= c => (Did(g)' <=> Did(g))
    BY <1>2, <1>3, <1>4 DEF Did, Ended
  <2>3. IsFiniteSet(Left)
    <3>1. Left \subseteq Contenders /\ IsFiniteSet(Contenders)
      BY SyncAssumption DEF Left
    <3>2. QED BY <3>1, FS_Subset
  <2>4. QED BY <1>3, <2>1, <2>2, <2>3 DEF Left
<1>6. Cardinality(Left') = Cardinality(Left) - 1 /\ IsFiniteSet(Left')
  BY <1>5, FS_RemoveElement
<1>7. counter = Cardinality(Left)
  BY <1>2 DEF CountInv, Added
<1>8. counter' = Cardinality(Left') /\ counter' \in Nat
  <2>1. counter' = Cardinality(Left')
    BY <1>2, <1>6, <1>7
  <2>2. QED BY <1>6, <2>1, FS_CardinalityType
<1>9. TypeInv'
  BY <1>1, <1>2, <1>8 DEF TypeInv, Labels, mvars
<1>10. PlaceInv' /\ StageInv'
  <2>1. UNCHANGED <<stack, runq, stage>> /\ doomed' = doomed /\ pc'[c] \notin Away
    BY <1>1, <1>2, <1>4 DEF Away
  <2>2. QED BY <1>3, <1>4, <2>1, MovePlace
<1>11. LockInv'
  <2>1. pc[c] \in OutsideLabels /\ pc'[c] \in OutsideLabels /\ UNCHANGED mvars
    BY <1>1, <1>2, <1>4 DEF OutsideLabels
  <2>2. QED BY <1>2, <1>4, <2>1, EventAside
<1>12. SeenInv'
  <2>1. UNCHANGED <<seen, listed, waiters>> /\ pc[c] \notin {"enqueue", "unlock", "enlist"}
    BY <1>2 DEF mvars
  <2>2. QED BY <1>2, <1>4, <2>1, SeenMove
<1>13. LabelInv'
  BY <1>1, <1>3, <1>4 DEF LabelInv
<1>14. EventInv'
  <2>1. \A g \in Coroutine : pc'[g] = "parked" <=> pc[g] = "parked"
    BY <1>1, <1>2, <1>4
  <2>2. \A g \in Coroutine : firing[g] /= <<>> => pc'[g] = "firing"
    BY <1>2, <1>4 DEF EventInv
  <2>3. UNCHANGED <<signaled, queued, firing>>
    BY <1>2
  <2>4. QED BY <2>1, <2>2, <2>3, EventFrame
<1>15. CountInv'
  <2>1. ~signaled /\ \A g \in Contenders : ~InFire(g)
    BY <1>3, <1>5 DEF CountInv, Left
  <2>2. \A g \in Contenders : g /= c => ~InFire(g)'
    BY <1>3, <1>4, <2>1 DEF InFire
  <2>3. InFire(c)' => \A g \in Contenders : Did(g)'
    <3>1. ASSUME InFire(c)'
          PROVE  Left' = {}
      <4>1. counter = 1
        BY <1>1, <1>4, <3>1 DEF InFire
      <4>2. Cardinality(Left') = 0
        BY <1>2, <1>8, <4>1
      <4>3. QED BY <1>6, <4>2, FS_EmptySet
    <3>2. QED BY <3>1 DEF Left
  <2>4. \A g \in Coroutine \ Contenders : Ended(g)' => signaled'
    BY <1>2, <1>3, <1>4 DEF CountInv, Ended
  <2>5. ~signaled'
    BY <1>2, <2>1
  <2>6. QED BY <1>8, <2>2, <2>3, <2>4, <2>5 DEF CountInv
<1>16. QED BY <1>9, <1>10, <1>11, <1>12, <1>13, <1>14, <1>15

(* What the steps of a contender inside Fire have in common *)
LEMMA FireAside ==
  ASSUME SyncInv, NEW t \in Thread, NEW c \in Executing(t),
         pc[c] \in {"fire", "take", "firing"}, pc'[c] \in {"take", "firing", "end"},
         \A g \in Coroutine : g /= c => pc'[g] = pc[g],
         UNCHANGED <<doomed, stack, runq, stage, mvars, seen>>
  PROVE  /\ PlaceInv' /\ StageInv' /\ LockInv' /\ SeenInv' /\ LabelInv'
         /\ c \in Contenders /\ c \notin doomed /\ Left' = Left
         /\ \A g \in Contenders : Did(g)' <=> Did(g)
<1> USE DEF SyncInv
<1>1. c \in Coroutine
  BY TopFacts
<1>2. c \in Contenders /\ c \notin doomed /\ Contenders \subseteq Coroutine
  BY <1>1, SyncAssumption DEF LabelInv, PlaceInv
<1>3. PlaceInv' /\ StageInv'
  <2>1. UNCHANGED <<stack, runq, stage>> /\ doomed' = doomed /\ pc'[c] \notin Away
    BY DEF Away
  <2>2. QED BY <1>2, <2>1, MovePlace
<1>4. LockInv'
  <2>1. pc[c] \in OutsideLabels /\ pc'[c] \in OutsideLabels /\ UNCHANGED mvars
    BY DEF OutsideLabels
  <2>2. QED BY <1>1, <2>1, EventAside
<1>5. SeenInv'
  <2>1. UNCHANGED <<seen, listed, waiters>> /\ pc[c] \notin {"enqueue", "unlock", "enlist"}
    BY DEF mvars
  <2>2. QED BY <1>1, <2>1, SeenMove
<1>6. LabelInv'
  BY <1>2 DEF LabelInv
<1>7. \A g \in Contenders : Did(g)' <=> Did(g)
  BY <1>2 DEF Did, Ended
<1>8. Left' = Left
  BY <1>7 DEF Left
<1>9. QED BY <1>2, <1>3, <1>4, <1>5, <1>6, <1>7, <1>8

(* Fire signals, or finds waiters. *)
LEMMA FireCasStep ==
  ASSUME SyncInv, NEW t \in Thread, NEW c \in Executing(t), FireCas(t, c)
  PROVE  SyncInv'
<1> USE DEF SyncInv
<1> DEFINE fast == EventWord \in {"NoWaiters", "Signaled"}
<1>1. PICK l : l = (IF fast THEN "end" ELSE "take") /\ Continue(c, l)
  BY DEF FireCas
<1>2. /\ c \in Coroutine /\ pc[c] = "fire"
      /\ pc' = [pc EXCEPT ![c] = l]
      /\ UNCHANGED <<doomed, stack, runq, stage, mvars, seen, counter, queued, firing>>
  BY <1>1, TopFacts DEF FireCas, Continue, Goto
<1>3. pc'[c] = l /\ \A g \in Coroutine : g /= c => pc'[g] = pc[g]
  BY <1>2 DEF TypeInv
<1>4. fast => queued = <<>>
  BY <1>1, WordFacts DEF EventInv
<1>5. ~signaled
  BY <1>2 DEF CountInv, InFire, LabelInv
<1>6. signaled' = fast
  BY <1>5 DEF FireCas, TypeInv
<1> HIDE DEF fast
<1>7. TypeInv'
  <2>1. signaled' \in BOOLEAN
    BY <1>6 DEF fast
  <2>2. QED BY <1>1, <1>2, <2>1 DEF TypeInv, Labels, mvars
<1>8. /\ PlaceInv' /\ StageInv' /\ LockInv' /\ SeenInv' /\ LabelInv'
      /\ c \in Contenders /\ c \notin doomed /\ Left' = Left
      /\ \A g \in Contenders : Did(g)' <=> Did(g)
  <2>1. pc[c] \in {"fire", "take", "firing"} /\ pc'[c] \in {"take", "firing", "end"}
    BY <1>1, <1>2, <1>3
  <2>2. UNCHANGED <<doomed, stack, runq, stage, mvars, seen>>
    BY <1>2
  <2>3. QED BY <1>3, <2>1, <2>2, FireAside
<1>9. EventInv'
  <2>1. \A g \in Coroutine : pc'[g] = "parked" <=> pc[g] = "parked"
    BY <1>1, <1>2, <1>3
  <2>2. \A g \in Coroutine : firing[g] = <<>>
    BY <1>5 DEF EventInv
  <2>3. \A g \in Coroutine :
          pc'[g] = "parked" <=>
            g \in ToSet(queued') \/ \E d \in Contenders : g \in ToSet(firing'[d])
    BY <1>2, <2>1 DEF EventInv
  <2>4. QED BY <1>2, <1>4, <1>6, <2>2, <2>3 DEF EventInv
<1>10. CountInv'
  <2>1. Contenders \subseteq Coroutine /\ InFire(c)
    BY <1>2, SyncAssumption DEF InFire
  <2>2. \A g \in Contenders : Did(g)'
    BY <1>8, <2>1 DEF CountInv
  <2>3. \A g \in Contenders : g /= c => ~InFire(g)'
    BY <1>3, <1>8, <2>1 DEF CountInv, InFire
  <2>4. InFire(c)' <=> ~fast
    BY <1>1, <1>3 DEF InFire
  <2>5. counter' = Cardinality(Left')
    BY <1>2, <1>8 DEF CountInv, Added
  <2>6. \A g \in Coroutine \ Contenders : Ended(g)' => signaled'
    BY <1>2, <1>3, <1>5, <1>8 DEF CountInv, Ended
  <2>7. QED BY <1>6, <2>2, <2>3, <2>4, <2>5, <2>6 DEF CountInv
<1>11. QED BY <1>7, <1>8, <1>9, <1>10

(* Fire signals and takes the waiters. *)
LEMMA FireTakeStep ==
  ASSUME SyncInv, NEW t \in Thread, NEW c \in Executing(t), FireTake(t, c)
  PROVE  SyncInv'
<1> USE DEF SyncInv
<1>1. /\ c \in Coroutine /\ pc[c] = "take"
      /\ pc' = [pc EXCEPT ![c] = "firing"]
      /\ signaled' = TRUE /\ queued' = <<>>
      /\ firing' = [firing EXCEPT ![c] = queued]
      /\ UNCHANGED <<doomed, stack, runq, stage, mvars, seen, counter>>
  BY TopFacts DEF FireTake, Continue, Goto
<1>2. /\ pc'[c] = "firing" /\ \A g \in Coroutine : g /= c => pc'[g] = pc[g]
      /\ firing'[c] = queued /\ \A g \in Coroutine : g /= c => firing'[g] = firing[g]
  BY <1>1 DEF TypeInv
<1>3. TypeInv'
  <2>1. <<>> \in Seq(Coroutine)
    OBVIOUS
  <2>2. QED BY <1>1, <2>1 DEF TypeInv, Labels, mvars
<1>4. /\ PlaceInv' /\ StageInv' /\ LockInv' /\ SeenInv' /\ LabelInv'
      /\ c \in Contenders /\ c \notin doomed /\ Left' = Left
      /\ \A g \in Contenders : Did(g)' <=> Did(g)
  <2>1. pc[c] \in {"fire", "take", "firing"} /\ pc'[c] \in {"take", "firing", "end"}
    BY <1>1, <1>2
  <2>2. UNCHANGED <<doomed, stack, runq, stage, mvars, seen>>
    BY <1>1
  <2>3. QED BY <1>2, <2>1, <2>2, FireAside
<1>5. Contenders \subseteq Coroutine
  BY SyncAssumption
<1>6. EventInv'
  <2>1. ToSet(queued') = {} /\ IsInjective(queued')
    BY <1>1, EmptyFacts
  <2>2. \A d \in Contenders : IsInjective(firing'[d])
    BY <1>2, <1>5 DEF EventInv
  <2>3. \A d, e \in Contenders : d /= e => ToSet(firing'[d]) \cap ToSet(firing'[e]) = {}
    BY <1>2, <1>5 DEF EventInv
  <2>4. firing[c] = <<>> /\ ToSet(firing[c]) = {}
    BY <1>1, EmptyFacts DEF EventInv
  <2>5. \A g \in Coroutine :
          pc'[g] = "parked" <=>
            g \in ToSet(queued') \/ \E d \in Contenders : g \in ToSet(firing'[d])
    <3>1. \A g \in Coroutine : pc'[g] = "parked" <=> pc[g] = "parked"
      BY <1>1, <1>2
    <3>2. \A g \in Coroutine :
            (g \in ToSet(queued) \/ \E d \in Contenders : g \in ToSet(firing[d]))
              <=> \E d \in Contenders : g \in ToSet(firing'[d])
      BY <1>2, <1>4, <1>5, <2>4
    <3>3. QED BY <2>1, <3>1, <3>2 DEF EventInv
  <2>6. \A g \in Coroutine : firing'[g] /= <<>> => pc'[g] = "firing" /\ signaled'
    BY <1>1, <1>2 DEF EventInv
  <2>7. QED BY <1>1, <2>1, <2>2, <2>3, <2>5, <2>6 DEF EventInv
<1>7. CountInv'
  <2>1. InFire(c)
    BY <1>1 DEF InFire
  <2>2. \A g \in Contenders : Did(g)'
    BY <1>4, <2>1 DEF CountInv
  <2>3. \A g \in Contenders : ~InFire(g)'
    BY <1>2, <1>4, <1>5, <2>1 DEF CountInv, InFire
  <2>4. counter' = Cardinality(Left')
    BY <1>1, <1>4 DEF CountInv, Added
  <2>5. QED BY <1>1, <2>2, <2>3, <2>4 DEF CountInv
<1>8. QED BY <1>3, <1>4, <1>6, <1>7

(* Fire resumes the next waiter of its list, in place. *)
LEMMA FireResumeStep ==
  ASSUME SyncInv, NEW t \in Thread, NEW c \in Executing(t), FireResume(t, c)
  PROVE  SyncInv'
<1> USE DEF SyncInv
<1>1. /\ c \in Coroutine /\ pc[c] = "firing" /\ firing[c] /= <<>>
      /\ firing[c] \in Seq(Coroutine) /\ signaled
  BY TopFacts DEF FireResume, TypeInv, EventInv
<1>2. c \in Contenders /\ c \notin doomed /\ Contenders \subseteq Coroutine
  BY <1>1, SyncAssumption DEF LabelInv, PlaceInv
<1>3. PICK n \in Coroutine, rest \in Seq(Coroutine) :
        /\ n = Head(firing[c]) /\ rest = Tail(firing[c])
        /\ ToSet(firing[c]) = {n} \cup ToSet(rest) /\ n \notin ToSet(rest)
        /\ IsInjective(rest)
  <2>1. IsInjective(firing[c])
    BY <1>2 DEF EventInv
  <2>2. Head(firing[c]) \in Coroutine /\ Tail(firing[c]) \in Seq(Coroutine)
    BY <1>1, PopFacts
  <2>3. QED BY <1>1, <2>1, <2>2, PopFacts
<1>4. /\ pc' = [pc EXCEPT ![c] = "firing", ![n] = "end"]
      /\ stack' = [stack EXCEPT ![t] = Append(stack[t], n)]
      /\ firing' = [firing EXCEPT ![c] = rest]
      /\ UNCHANGED <<doomed, runq, stage, mvars, seen, counter, signaled, queued>>
  BY <1>3 DEF FireResume, Resume
<1>5. pc[n] = "parked" /\ n /= c /\ n \notin Contenders /\ n \notin doomed
  BY <1>1, <1>2, <1>3 DEF EventInv, LabelInv, PlaceInv
<1>6. /\ pc'[c] = "firing" /\ pc'[n] = "end"
      /\ \A g \in Coroutine : g /= n => pc'[g] = pc[g]
      /\ firing'[c] = rest /\ \A g \in Coroutine : g /= c => firing'[g] = firing[g]
  BY <1>1, <1>4, <1>5 DEF TypeInv
<1>7. PlaceInv' /\ StageInv' /\ stack' \in [Thread -> Seq(Coroutine)]
  <2>1. pc[n] \in Away /\ pc'[c] \notin Away /\ pc'[n] \notin Away
    BY <1>5, <1>6 DEF Away
  <2>2. UNCHANGED <<runq, stage, doomed>>
    BY <1>4
  <2>3. QED BY <1>2, <1>4, <1>6, <2>1, <2>2, PushPlace
<1>8. TypeInv'
  <2>1. pc' \in [Coroutine -> Labels]
    BY <1>4 DEF TypeInv, Labels
  <2>2. QED BY <1>4, <1>7, <2>1 DEF TypeInv, mvars
<1>9. LockInv'
  <2>1. pc[c] \in OutsideLabels /\ pc'[c] \in OutsideLabels /\ UNCHANGED mvars
    BY <1>1, <1>4, <1>6 DEF OutsideLabels
  <2>2. \A g \in Coroutine : g /= c =>
          pc'[g] = pc[g] \/ (pc[g] = "parked" /\ pc'[g] = "end")
    BY <1>5, <1>6
  <2>3. QED BY <1>1, <2>1, <2>2, EventAside
<1>10. SeenInv'
  <2>1. UNCHANGED <<seen, listed, waiters>> /\ pc[n] \notin {"enqueue", "unlock", "enlist"}
    BY <1>4, <1>5 DEF mvars
  <2>2. QED BY <1>6, <2>1, SeenMove
<1>11. LabelInv'
  BY <1>2, <1>5, <1>6 DEF LabelInv
<1>12. EventInv'
  <2>1. n \notin ToSet(queued) /\ \A d \in Contenders : d /= c => n \notin ToSet(firing[d])
    BY <1>2, <1>3 DEF EventInv
  <2>2. \A d \in Contenders : /\ IsInjective(firing'[d])
                              /\ ToSet(queued') \cap ToSet(firing'[d]) = {}
    BY <1>2, <1>3, <1>4, <1>6 DEF EventInv
  <2>3. \A d, e \in Contenders : d /= e => ToSet(firing'[d]) \cap ToSet(firing'[e]) = {}
    BY <1>2, <1>3, <1>6 DEF EventInv
  <2>4. \A g \in Coroutine :
          pc'[g] = "parked" <=>
            g \in ToSet(queued') \/ \E d \in Contenders : g \in ToSet(firing'[d])
    <3>1. \A g \in Coroutine : pc'[g] = "parked" <=> pc[g] = "parked" /\ g /= n
      BY <1>6
    <3>2. \A g \in Coroutine, d \in Contenders :
            g \in ToSet(firing'[d]) <=> g \in ToSet(firing[d]) /\ g /= n
      BY <1>2, <1>3, <1>6, <2>1
    <3>3. QED BY <1>4, <2>1, <3>1, <3>2 DEF EventInv
  <2>5. \A g \in Coroutine : firing'[g] /= <<>> => pc'[g] = "firing" /\ signaled'
    BY <1>1, <1>4, <1>5, <1>6 DEF EventInv
  <2>6. QED BY <1>4, <2>2, <2>3, <2>4, <2>5 DEF EventInv
<1>13. CountInv'
  <2>1. \A g \in Contenders : (Did(g)' <=> Did(g)) /\ (InFire(g)' <=> InFire(g))
    BY <1>2, <1>4, <1>5, <1>6 DEF Did, Ended, InFire
  <2>2. \A g \in Coroutine \ Contenders : Ended(g)' => Ended(g) \/ signaled
    BY <1>1
  <2>3. Added /\ UNCHANGED <<counter, signaled>>
    BY <1>1, <1>4 DEF Added
  <2>4. QED BY <2>1, <2>2, <2>3, CountFrame
<1>14. QED BY <1>7, <1>8, <1>9, <1>10, <1>11, <1>12, <1>13

LEMMA FireEndStep ==
  ASSUME SyncInv, NEW t \in Thread, NEW c \in Executing(t), FireEnd(t, c)
  PROVE  SyncInv'
<1> USE DEF SyncInv
<1>1. /\ c \in Coroutine /\ pc[c] = "firing" /\ firing[c] = <<>>
      /\ pc' = [pc EXCEPT ![c] = "end"]
      /\ UNCHANGED <<doomed, stack, runq, stage, mvars, seen, counter, signaled, queued,
                     firing>>
  BY TopFacts DEF FireEnd, Continue, Goto, evars
<1>2. pc'[c] = "end" /\ \A g \in Coroutine : g /= c => pc'[g] = pc[g]
  BY <1>1 DEF TypeInv
<1>3. TypeInv'
  BY <1>1 DEF TypeInv, Labels, mvars
<1>4. /\ PlaceInv' /\ StageInv' /\ LockInv' /\ SeenInv' /\ LabelInv'
      /\ c \in Contenders /\ c \notin doomed /\ Left' = Left
      /\ \A g \in Contenders : Did(g)' <=> Did(g)
  <2>1. pc[c] \in {"fire", "take", "firing"} /\ pc'[c] \in {"take", "firing", "end"}
    BY <1>1, <1>2
  <2>2. UNCHANGED <<doomed, stack, runq, stage, mvars, seen>>
    BY <1>1
  <2>3. QED BY <1>2, <2>1, <2>2, FireAside
<1>5. EventInv'
  <2>1. \A g \in Coroutine : pc'[g] = "parked" <=> pc[g] = "parked"
    BY <1>1, <1>2
  <2>2. \A g \in Coroutine : firing[g] /= <<>> => pc'[g] = "firing"
    BY <1>1, <1>2 DEF EventInv
  <2>3. UNCHANGED <<signaled, queued, firing>>
    BY <1>1
  <2>4. QED BY <2>1, <2>2, <2>3, EventFrame
<1>6. CountInv'
  <2>1. \A g \in Contenders : InFire(g)' <=> InFire(g)
    BY <1>1, <1>2, SyncAssumption DEF InFire
  <2>2. \A g \in Coroutine \ Contenders : Ended(g)' => Ended(g) \/ signaled
    BY <1>1, <1>2, <1>4 DEF Ended
  <2>3. Added /\ UNCHANGED <<counter, signaled>>
    BY <1>1 DEF Added
  <2>4. QED BY <1>4, <2>1, <2>2, <2>3, CountFrame
<1>7. QED BY <1>3, <1>4, <1>5, <1>6

----------------------------------------------------------------------------
(* Wait *)

(* A waiter moves; it goes past Wait only when the event has fired. *)
LEMMA WaitAside ==
  ASSUME SyncInv, NEW c \in Coroutine, pc[c] \in {"body", "enlist"}, c \notin Contenders,
         pc'[c] \in {"enlist", "end", "parked"}, pc'[c] = "end" => signaled,
         \A g \in Coroutine : g /= c => pc'[g] = pc[g],
         UNCHANGED <<doomed, mvars, counter, signaled>>
  PROVE  LockInv' /\ CountInv' /\ LabelInv'
<1> USE DEF SyncInv
<1>1. Contenders \subseteq Coroutine
  BY SyncAssumption
<1>2. LockInv'
  <2>1. pc[c] \in OutsideLabels /\ pc'[c] \in OutsideLabels /\ UNCHANGED mvars
    BY DEF OutsideLabels
  <2>2. QED BY <2>1, EventAside
<1>3. CountInv'
  <2>1. \A g \in Contenders : (Did(g)' <=> Did(g)) /\ (InFire(g)' <=> InFire(g))
    BY <1>1 DEF Did, Ended, InFire
  <2>2. \A g \in Coroutine \ Contenders : Ended(g)' => Ended(g) \/ signaled
    BY DEF Ended
  <2>3. Added /\ UNCHANGED <<counter, signaled>>
    BY DEF Added
  <2>4. QED BY <2>1, <2>2, <2>3, CountFrame
<1>4. LabelInv'
  BY <1>1 DEF LabelInv
<1>5. QED BY <1>2, <1>3, <1>4

(* A waiter moves without being linked. *)
LEMMA WaitMove ==
  ASSUME SyncInv, NEW t \in Thread, NEW c \in Executing(t), NEW l, Continue(c, l),
         pc[c] \in {"body", "enlist"}, c \notin Contenders, seen[c] = None,
         l \in {"enlist", "end"}, l = "end" => signaled,
         UNCHANGED <<mvars, seen, evars>>
  PROVE  SyncInv'
<1> USE DEF SyncInv
<1>1. /\ c \in Coroutine /\ pc' = [pc EXCEPT ![c] = l]
      /\ UNCHANGED <<doomed, stack, runq, stage, mvars, seen, counter, signaled, queued,
                     firing>>
  BY TopFacts DEF Continue, Goto, evars
<1>2. pc'[c] = l /\ \A g \in Coroutine : g /= c => pc'[g] = pc[g]
  BY <1>1 DEF TypeInv
<1>3. TypeInv'
  BY <1>1 DEF TypeInv, Labels, mvars
<1>4. PlaceInv' /\ StageInv'
  <2>1. UNCHANGED <<stack, runq, stage>> /\ doomed' = doomed /\ pc'[c] \notin Away
    BY <1>1, <1>2 DEF Away
  <2>2. c \notin doomed
    BY DEF PlaceInv
  <2>3. QED BY <1>2, <2>1, <2>2, MovePlace
<1>5. LockInv' /\ CountInv' /\ LabelInv'
  <2>1. UNCHANGED <<doomed, mvars, counter, signaled>> /\ (pc'[c] = "end" => signaled)
    BY <1>1, <1>2
  <2>2. QED BY <1>1, <1>2, <2>1, WaitAside
<1>6. SeenInv'
  <2>1. UNCHANGED <<listed, waiters>> /\ seen'[c] = None
    BY <1>1 DEF mvars
  <2>2. \A g \in Coroutine : g /= c => seen'[g] = seen[g]
    BY <1>1
  <2>3. QED BY <1>1, <1>2, <2>1, <2>2, SeenFrame
<1>7. EventInv'
  <2>1. \A g \in Coroutine : pc'[g] = "parked" <=> pc[g] = "parked"
    BY <1>1, <1>2
  <2>2. \A g \in Coroutine : firing[g] /= <<>> => pc'[g] = "firing"
    BY <1>1, <1>2 DEF EventInv
  <2>3. UNCHANGED <<signaled, queued, firing>>
    BY <1>1
  <2>4. QED BY <2>1, <2>2, <2>3, EventFrame
<1>8. QED BY <1>3, <1>4, <1>5, <1>6, <1>7

LEMMA WaitReadyStep ==
  ASSUME SyncInv, NEW t \in Thread, NEW c \in Executing(t), WaitReady(t, c)
  PROVE  SyncInv'
<1>1. PICK l : l = (IF signaled THEN "end" ELSE "enlist") /\ Continue(c, l)
  BY DEF WaitReady
<1>2. /\ c \in Coroutine /\ c \notin Contenders /\ pc[c] = "body"
      /\ UNCHANGED <<mvars, seen, evars>>
  BY TopFacts DEF WaitReady
<1>3. seen[c] = None
  BY <1>2 DEF SyncInv, SeenInv
<1>4. QED BY <1>1, <1>2, <1>3, WaitMove

LEMMA EnlistLoadStep ==
  ASSUME SyncInv, NEW t \in Thread, NEW c \in Executing(t), EnlistLoad(t, c)
  PROVE  SyncInv'
<1>1. /\ c \in Coroutine /\ pc[c] = "enlist" /\ seen[c] = None
      /\ UNCHANGED <<mvars, evars>>
  BY TopFacts DEF EnlistLoad
<1>2. c \notin Contenders
  BY <1>1 DEF SyncInv, LabelInv
<1>3. CASE signaled
  <2>1. PICK l : l = "end" /\ Continue(c, l) /\ UNCHANGED seen
    BY <1>3 DEF EnlistLoad
  <2>2. UNCHANGED <<mvars, seen, evars>>
    BY <1>1, <2>1
  <2>3. QED BY <1>1, <1>2, <1>3, <2>1, <2>2, WaitMove
<1>4. CASE ~signaled
  <2>1. PICK x : x = EventWord
    OBVIOUS
  <2>2. /\ x \in Coroutine \cup {None} \cup Words /\ x /= "Signaled"
        /\ Load(c, x) /\ UNCHANGED <<rvars, mvars, evars>>
    BY <1>1, <1>4, <2>1, WordFacts DEF EnlistLoad, SyncInv
  <2>3. QED BY <1>1, <2>2, LoadStep
<1>5. QED BY <1>3, <1>4

(* The awaiter is linked, if state_ is still what the waiter has seen. *)
LEMMA EnlistCasStep ==
  ASSUME SyncInv, NEW t \in Thread, NEW c \in Executing(t), EnlistCas(t, c)
  PROVE  SyncInv'
<1> USE DEF SyncInv
<1>1. /\ c \in Coroutine /\ pc[c] = "enlist" /\ Retry(c)
      /\ UNCHANGED <<mvars, counter, signaled, firing>>
  BY TopFacts DEF EnlistCas
<1>2. c \notin Contenders /\ Contenders \subseteq Coroutine /\ c \notin doomed
  BY <1>1, SyncAssumption DEF LabelInv, PlaceInv
<1>3. CASE EventWord /= seen[c]
  <2>1. UNCHANGED <<rvars, mvars, evars>>
    BY <1>1, <1>3 DEF EnlistCas, evars
  <2>2. QED BY <1>1, <2>1, LoadStep DEF Retry
<1>4. CASE EventWord = seen[c]
  <2>1. ~signaled
    BY <1>1, <1>4, WordFacts DEF SeenInv
  <2>2. /\ queued' = <<c>> \o queued
        /\ pc' = [pc EXCEPT ![c] = "parked"]
        /\ stack' = [stack EXCEPT ![t] = Front(stack[t])]
        /\ seen' = [seen EXCEPT ![c] = None]
        /\ UNCHANGED <<doomed, runq, stage>>
    BY <1>1, <1>4 DEF EnlistCas, Suspend, Goto, Retry, Load
  <2>3. pc'[c] = "parked" /\ \A g \in Coroutine : g /= c => pc'[g] = pc[g]
    BY <1>1, <2>2 DEF TypeInv
  <2>4. c \notin ToSet(queued) /\ \A d \in Contenders : c \notin ToSet(firing[d])
    BY <1>1 DEF EventInv
  <2>5. /\ queued' \in Seq(Coroutine)
        /\ ToSet(queued') = {c} \cup ToSet(queued) /\ IsInjective(queued')
    BY <1>1, <2>2, <2>4, PushFacts DEF TypeInv, EventInv
  <2>6. PlaceInv' /\ StageInv' /\ stack' \in [Thread -> Seq(Coroutine)]
    <3>1. pc'[c] \in Away /\ doomed' = doomed \ {c}
      BY <1>2, <2>2, <2>3 DEF Away
    <3>2. UNCHANGED <<runq, stage>>
      BY <2>2
    <3>3. QED BY <2>2, <2>3, <3>1, <3>2, PopPlace
  <2>7. TypeInv'
    BY <1>1, <2>2, <2>5, <2>6 DEF TypeInv, Labels, mvars
  <2>8. LockInv' /\ CountInv' /\ LabelInv'
    <3>1. UNCHANGED <<doomed, mvars, counter, signaled>>
      BY <1>1, <2>2
    <3>2. pc[c] \in {"body", "enlist"} /\ pc'[c] \in {"enlist", "end", "parked"}
      BY <1>1, <2>3
    <3>3. QED BY <1>1, <1>2, <2>3, <3>1, <3>2, WaitAside
  <2>9. SeenInv'
    <3>1. seen'[c] = None /\ \A g \in Coroutine : g /= c => seen'[g] = seen[g]
      BY <1>1, <2>2 DEF TypeInv
    <3>2. UNCHANGED <<listed, waiters>>
      BY <1>1 DEF mvars
    <3>3. QED BY <1>1, <2>3, <3>1, <3>2, SeenFrame
  <2>10. EventInv'
    <3>1. \A d \in Contenders : /\ IsInjective(firing'[d])
                                /\ ToSet(queued') \cap ToSet(firing'[d]) = {}
      BY <1>1, <2>4, <2>5 DEF EventInv
    <3>2. \A g \in Coroutine : pc'[g] = "parked" <=> pc[g] = "parked" \/ g = c
      BY <2>3
    <3>3. \A g \in Coroutine :
            pc'[g] = "parked" <=>
              g \in ToSet(queued') \/ \E d \in Contenders : g \in ToSet(firing'[d])
      BY <1>1, <2>5, <3>2 DEF EventInv
    <3>4. \A g \in Coroutine : firing'[g] /= <<>> => pc'[g] = "firing" /\ signaled'
      BY <1>1, <2>3 DEF EventInv
    <3>5. \A d, e \in Contenders : d /= e => ToSet(firing'[d]) \cap ToSet(firing'[e]) = {}
      BY <1>1 DEF EventInv
    <3>6. QED BY <1>1, <2>1, <2>5, <3>1, <3>3, <3>4, <3>5 DEF EventInv
  <2>11. QED BY <2>6, <2>7, <2>8, <2>9, <2>10
<1>5. QED BY <1>3, <1>4

----------------------------------------------------------------------------
(* The life of a coroutine, and Stop *)

(* The frame is freed. *)
LEMMA EndStep ==
  ASSUME SyncInv, NEW t \in Thread, NEW c \in Executing(t), End(t, c)
  PROVE  SyncInv'
<1> USE DEF SyncInv
<1>1. PICK l : l = (IF c \in doomed THEN "destroyed" ELSE "finished") /\ Goto(c, l)
  BY DEF End, EndFrame
<1>2. /\ c \in Coroutine /\ pc[c] = "end" /\ pc' = [pc EXCEPT ![c] = l]
      /\ doomed' = doomed \ {c}
      /\ stack' = [stack EXCEPT ![t] = Front(stack[t])]
      /\ UNCHANGED <<runq, stage, locked, listed, waiters, seen, counter, signaled, queued,
                     firing>>
  BY <1>1, TopFacts DEF End, EndFrame, Goto, mvars, evars
<1>3. pc'[c] = l /\ \A g \in Coroutine : g /= c => pc'[g] = pc[g]
  BY <1>2 DEF TypeInv
<1>4. PlaceInv' /\ StageInv' /\ stack' \in [Thread -> Seq(Coroutine)]
  <2>1. pc'[c] \in Away /\ UNCHANGED <<runq, stage>>
    BY <1>1, <1>2, <1>3 DEF Away
  <2>2. QED BY <1>2, <1>3, <2>1, PopPlace
<1>5. TypeInv'
  BY <1>1, <1>2, <1>4 DEF TypeInv, Labels
<1>6. LockInv'
  <2>1. \A g \in Coroutine : Holds(g)' <=> Holds(g)
    BY <1>1, <1>2, <1>3 DEF Holds
  <2>2. \A g \in Coroutine : pc'[g] = "wait" <=> pc[g] = "wait"
    BY <1>1, <1>2, <1>3
  <2>3. QED BY <1>2, <2>1, <2>2, LockFrame
<1>7. SeenInv'
  BY <1>2, <1>3, SeenMove
<1>8. EventInv'
  <2>1. \A g \in Coroutine : pc'[g] = "parked" <=> pc[g] = "parked"
    BY <1>1, <1>2, <1>3
  <2>2. \A g \in Coroutine : firing[g] /= <<>> => pc'[g] = "firing"
    BY <1>2, <1>3 DEF EventInv
  <2>3. QED BY <1>2, <2>1, <2>2, EventFrame
<1>9. CountInv'
  <2>1. \A g \in Coroutine :
          (Did(g)' <=> Did(g)) /\ (InFire(g)' <=> InFire(g)) /\ (Ended(g)' <=> Ended(g))
    BY <1>1, <1>2, <1>3 DEF Did, Ended, InFire
  <2>2. Added
    BY <1>2 DEF Added
  <2>3. QED BY <1>2, <2>1, <2>2, SyncAssumption, CountFrame
<1>10. LabelInv'
  BY <1>1, <1>3, SyncAssumption DEF LabelInv
<1>11. QED BY <1>4, <1>5, <1>6, <1>7, <1>8, <1>9, <1>10

(* Main starts a coroutine. *)
LEMMA StartStep ==
  ASSUME SyncInv, NEW c \in Coroutine, Start(c)
  PROVE  SyncInv'
<1> USE DEF SyncInv
<1>1. /\ pc[c] = "new" /\ pc' = [pc EXCEPT ![c] = "body"] /\ Added
      /\ UNCHANGED <<doomed, stack, stage, locked, listed, waiters, seen, counter, signaled,
                     queued, firing>>
  BY DEF Start, FireAndForget, Goto, mvars, evars
<1>2. pc'[c] = "body" /\ \A g \in Coroutine : g /= c => pc'[g] = pc[g]
  BY <1>1 DEF TypeInv
<1>3. PlaceInv' /\ StageInv' /\ runq' \in Seq(Coroutine)
  BY StartPlace DEF Start
<1>4. TypeInv'
  BY <1>1, <1>3 DEF TypeInv, Labels
<1>5. LockInv'
  <2>1. \A g \in Coroutine : Holds(g)' <=> Holds(g)
    BY <1>1, <1>2 DEF Holds
  <2>2. \A g \in Coroutine : pc'[g] = "wait" <=> pc[g] = "wait"
    BY <1>1, <1>2
  <2>3. QED BY <1>1, <2>1, <2>2, LockFrame
<1>6. SeenInv'
  BY <1>1, <1>2, SeenMove
<1>7. EventInv'
  <2>1. \A g \in Coroutine : pc'[g] = "parked" <=> pc[g] = "parked"
    BY <1>1, <1>2
  <2>2. \A g \in Coroutine : firing[g] /= <<>> => pc'[g] = "firing"
    BY <1>1, <1>2 DEF EventInv
  <2>3. QED BY <1>1, <2>1, <2>2, EventFrame
<1>8. CountInv'
  <2>1. \A g \in Coroutine :
          (Did(g)' <=> Did(g)) /\ (InFire(g)' <=> InFire(g)) /\ (Ended(g)' <=> Ended(g))
    BY <1>1, <1>2 DEF Did, Ended, InFire
  <2>2. QED BY <1>1, <2>1, SyncAssumption, CountFrame
<1>9. LabelInv'
  BY <1>2, SyncAssumption DEF LabelInv
<1>10. QED BY <1>3, <1>4, <1>5, <1>6, <1>7, <1>8, <1>9

(* Main calls Add. *)
LEMMA AddStep ==
  ASSUME SyncInv, Add
  PROVE  SyncInv'
<1> USE DEF SyncInv
<1>1. /\ ~Added /\ counter' = Cardinality(Contenders)
      /\ UNCHANGED <<pc, doomed, stack, runq, stage, locked, listed, waiters, seen, signaled,
                     queued, firing>>
  BY DEF Add, rvars, mvars
<1>2. \A g \in Coroutine : pc[g] = "new"
  BY <1>1 DEF Added
<1>3. counter' \in Nat
  BY <1>1, SyncAssumption, FS_CardinalityType
<1>4. TypeInv' /\ PlaceInv' /\ LabelInv' /\ StageInv'
  BY <1>1, <1>3 DEF TypeInv, PlaceInv, LabelInv, StageInv, OneActivation, Placed
<1>5. LockInv' /\ SeenInv' /\ EventInv'
  BY <1>1 DEF LockInv, SeenInv, EventInv, Holds
<1>6. CountInv'
  <2>1. \A g \in Coroutine : ~Did(g)' /\ ~InFire(g)' /\ ~Ended(g)'
    BY <1>1, <1>2 DEF Did, Ended, InFire
  <2>2. Left' = Contenders
    BY <2>1, SyncAssumption DEF Left
  <2>3. \A g \in Contenders : ~Did(g) /\ ~InFire(g)
    BY <1>2, SyncAssumption DEF Did, Ended, InFire
  <2>4. signaled => Contenders = {}
    BY <2>3 DEF CountInv
  <2>5. QED BY <1>1, <2>1, <2>2, <2>4, SyncAssumption DEF CountInv
<1>7. QED BY <1>4, <1>5, <1>6

(* The part of the state outside the pool stays as it is. *)
LEMMA PoolOnly ==
  ASSUME SyncInv, UNCHANGED <<pc, doomed, locked, listed, waiters, seen, counter, signaled,
                              queued, firing>>
  PROVE  LabelInv' /\ LockInv' /\ SeenInv' /\ EventInv' /\ CountInv'
<1>1. LabelInv' /\ LockInv' /\ SeenInv' /\ EventInv'
  BY DEF SyncInv, LabelInv, LockInv, SeenInv, EventInv, Holds
<1>2. CountInv'
  BY DEF SyncInv, CountInv, Added, Left, Did, Ended, InFire
<1>3. QED BY <1>1, <1>2

(* A worker takes a coroutine from the queue. *)
LEMMA RunNextStep ==
  ASSUME SyncInv, NEW t \in Workers, RunNext(t), UNCHANGED <<mvars, seen, evars>>
  PROVE  SyncInv'
<1> USE DEF SyncInv
<1>1. /\ stack[t] = <<>> /\ runq /= <<>> /\ runq' = Tail(runq)
      /\ UNCHANGED <<pc, doomed, stage, locked, listed, waiters, seen, counter, signaled,
                     queued, firing>>
  BY DEF RunNext, mvars, evars
<1>2. PICK c \in Coroutine : c = Head(runq) /\ c \in ToSet(runq)
  BY <1>1, PopFacts DEF TypeInv
<1>3. t \in Thread /\ stack' = [stack EXCEPT ![t] = <<c>>]
  BY <1>2 DEF RunNext, Thread
<1>4. pc[c] \notin Away /\ c \notin doomed
  BY <1>2 DEF PlaceInv, Away
<1>5. /\ PlaceInv' /\ StageInv'
      /\ stack' \in [Thread -> Seq(Coroutine)] /\ runq' \in Seq(Coroutine)
  BY <1>1, <1>2, <1>3, <1>4, TakePlace
<1>6. TypeInv'
  BY <1>1, <1>5 DEF TypeInv
<1>7. LabelInv' /\ LockInv' /\ SeenInv' /\ EventInv' /\ CountInv'
  BY <1>1, PoolOnly
<1>8. QED BY <1>5, <1>6, <1>7

(* Stop destroys the frame of a queued coroutine, which hands over the     *)
(* lock if it holds it.                                                    *)
LEMMA StopDiscardStep ==
  ASSUME SyncInv, NEW c \in Coroutine, StopDiscard(c, Unwind(c)),
         UNCHANGED <<mvars, seen, evars>>
  PROVE  SyncInv'
<1> USE DEF SyncInv
<1>1. PICK l : l = Unwind(c) /\ StopDiscard(c, l)
  OBVIOUS
<1>2. /\ stage = "closing" /\ stack[Main] = <<>> /\ runq /= <<>>
      /\ c = Head(runq) /\ runq' = Tail(runq) /\ doomed' = doomed \cup {c}
      /\ pc' = [pc EXCEPT ![c] = l]
      /\ stack' = [stack EXCEPT ![Main] = <<c>>]
      /\ UNCHANGED <<stage, locked, listed, waiters, seen, counter, signaled, queued, firing>>
  BY <1>1 DEF StopDiscard, Goto, mvars, evars
<1>3. c \in ToSet(runq)
  BY <1>2, PopFacts DEF TypeInv
<1>4. /\ pc[c] \in {"body", "yielded"} /\ c \notin doomed
      /\ l = IF pc[c] = "yielded" THEN "unlock" ELSE "end"
  BY <1>1, <1>3 DEF PlaceInv, Unwind
<1>5. pc'[c] = l /\ \A g \in Coroutine : g /= c => pc'[g] = pc[g]
  BY <1>2 DEF TypeInv
<1>6. /\ PlaceInv' /\ StageInv'
      /\ stack' \in [Thread -> Seq(Coroutine)] /\ runq' \in Seq(Coroutine)
  <2>1. Main \in Thread /\ pc'[c] \notin Away /\ pc'[c] \in {"unlock", "end"}
    BY <1>4, <1>5 DEF Thread, Away
  <2>2. UNCHANGED stage
    BY <1>2
  <2>3. QED BY <1>2, <1>5, <2>1, <2>2, TakePlace
<1>7. TypeInv'
  BY <1>2, <1>4, <1>6 DEF TypeInv, Labels
<1>8. LockInv'
  <2>1. \A g \in Coroutine : Holds(g)' <=> Holds(g)
    BY <1>4, <1>5 DEF Holds
  <2>2. \A g \in Coroutine : pc'[g] = "wait" <=> pc[g] = "wait"
    BY <1>4, <1>5
  <2>3. QED BY <1>2, <2>1, <2>2, LockFrame
<1>9. SeenInv'
  BY <1>2, <1>4, <1>5, SeenMove
<1>10. EventInv'
  <2>1. \A g \in Coroutine : pc'[g] = "parked" <=> pc[g] = "parked"
    BY <1>4, <1>5
  <2>2. \A g \in Coroutine : firing[g] /= <<>> => pc'[g] = "firing"
    BY <1>4, <1>5 DEF EventInv
  <2>3. QED BY <1>2, <2>1, <2>2, EventFrame
<1>11. CountInv'
  <2>1. \A g \in Coroutine :
          (Did(g)' <=> Did(g)) /\ (InFire(g)' <=> InFire(g)) /\ (Ended(g)' <=> Ended(g))
    BY <1>2, <1>4, <1>5 DEF Did, Ended, InFire
  <2>2. Added
    BY <1>4 DEF Added
  <2>3. QED BY <1>2, <2>1, <2>2, SyncAssumption, CountFrame
<1>12. LabelInv'
  BY <1>4, <1>5, SyncAssumption DEF LabelInv
<1>13. QED BY <1>6, <1>7, <1>8, <1>9, <1>10, <1>11, <1>12

LEMMA StopStep ==
  ASSUME SyncInv, Stop
  PROVE  SyncInv'
<1> USE DEF SyncInv
<1>1. UNCHANGED <<mvars, seen, evars>>
  BY DEF Stop
<1>2. ASSUME NEW c \in Coroutine, StopDiscard(c, Unwind(c))
      PROVE  SyncInv'
  BY <1>1, <1>2, StopDiscardStep
<1>3. CASE StopCall \/ StopClose \/ StopJoin
  <2>1. UNCHANGED <<pc, doomed, stack, runq, locked, listed, waiters, seen, counter, signaled,
                    queued, firing>>
    BY <1>1, <1>3 DEF StopCall, StopClose, StopJoin, mvars, evars
  <2>2. TypeInv' /\ PlaceInv'
    BY <1>3, <2>1 DEF TypeInv, PlaceInv, OneActivation, Placed, StopCall, StopClose, StopJoin
  <2>3. StageInv'
    BY <1>3, <2>1 DEF StageInv, StopCall, StopClose, StopJoin, Thread
  <2>4. LabelInv' /\ LockInv' /\ SeenInv' /\ EventInv' /\ CountInv'
    BY <2>1, PoolOnly
  <2>5. QED BY <2>2, <2>3, <2>4
<1>4. QED BY <1>2, <1>3 DEF Stop

----------------------------------------------------------------------------
(* The invariant and what follows from it *)

LEMMA InitInv ==
  ASSUME Init
  PROVE  SyncInv
<1>1. /\ \A c \in Coroutine : pc[c] = "new" /\ seen[c] = None /\ firing[c] = <<>>
      /\ \A t \in Thread : stack[t] = <<>>
      /\ doomed = {} /\ runq = <<>> /\ stage = "running"
      /\ locked = FALSE /\ listed = <<>> /\ waiters = <<>>
      /\ counter = 0 /\ signaled = FALSE /\ queued = <<>>
  BY DEF Init, RInit
<1>2. Contenders \subseteq Coroutine /\ None /= "Signaled"
  BY SyncAssumption
<1>3. TypeInv
  <2>1. <<>> \in Seq(Coroutine)
    OBVIOUS
  <2>2. pc \in [Coroutine -> Labels] /\ seen \in [Coroutine -> Coroutine \cup {None} \cup Words]
    BY DEF Init, RInit, Labels
  <2>3. stack \in [Thread -> Seq(Coroutine)] /\ firing \in [Coroutine -> Seq(Coroutine)]
    BY <2>1 DEF Init, RInit
  <2>4. QED BY <1>1, <2>1, <2>2, <2>3 DEF TypeInv
<1>4. PlaceInv
  <2>1. ToSet(runq) = {} /\ IsInjective(runq)
    BY <1>1, EmptyFacts
  <2>2. \A t \in Thread : ToSet(stack[t]) = {} /\ IsInjective(stack[t])
    BY <1>1, EmptyFacts
  <2>3. \A c \in Coroutine : ~Placed(c)
    BY <2>1, <2>2 DEF Placed
  <2>4. \A c \in Coroutine : pc[c] \in Away
    BY <1>1 DEF Away
  <2>5. QED BY <1>1, <2>1, <2>2, <2>3, <2>4 DEF PlaceInv, OneActivation
<1>5. LabelInv /\ StageInv
  BY <1>1, <1>2 DEF LabelInv, StageInv
<1>6. LockInv /\ SeenInv
  BY <1>1, <1>2, EmptyFacts DEF LockInv, SeenInv, Holds
<1>7. EventInv
  BY <1>1, <1>2, EmptyFacts DEF EventInv
<1>8. CountInv
  <2>1. \A c \in Coroutine : ~Did(c) /\ ~InFire(c) /\ ~Ended(c)
    BY <1>1 DEF Did, Ended, InFire
  <2>2. ~Added
    BY <1>1 DEF Added
  <2>3. QED BY <1>1, <1>2, <2>1, <2>2 DEF CountInv
<1>9. QED BY <1>3, <1>4, <1>5, <1>6, <1>7, <1>8 DEF SyncInv

LEMMA StutterInv ==
  ASSUME SyncInv, UNCHANGED vars
  PROVE  SyncInv'
<1>1. UNCHANGED <<pc, doomed, stack, runq, stage, locked, listed, waiters, seen, counter,
                  signaled, queued, firing>>
  BY DEF vars, rvars, mvars, evars
<1>2. TypeInv' /\ PlaceInv' /\ StageInv'
  BY <1>1 DEF SyncInv, TypeInv, PlaceInv, StageInv, OneActivation, Placed
<1>3. LabelInv' /\ LockInv' /\ SeenInv' /\ EventInv' /\ CountInv'
  BY <1>1, PoolOnly
<1>4. QED BY <1>2, <1>3 DEF SyncInv

LEMMA NextInv ==
  ASSUME SyncInv, [Next]_vars
  PROVE  SyncInv'
<1>1. ASSUME NEW t \in Thread, ThreadStep(t)
      PROVE  SyncInv'
  <2>1. ASSUME NEW c \in Executing(t), MutexStep(t, c)
        PROVE  SyncInv'
    BY <2>1, TryLockStep, EnqueueLoadStep, EnqueueTryLockStep, EnqueueCasStep, SectionStep,
       ResumedStep, ReleaseWaitersStep, ReleaseLoadStep, ReleaseCasStep, ReleaseTakeStep
       DEF MutexStep
  <2>2. ASSUME NEW c \in Executing(t), EventStep(t, c)
        PROVE  SyncInv'
    BY <2>2, DoneStep, FireCasStep, FireTakeStep, FireResumeStep, FireEndStep,
       WaitReadyStep, EnlistLoadStep, EnlistCasStep DEF EventStep
  <2>3. QED BY <1>1, <2>1, <2>2, EndStep, RunNextStep DEF ThreadStep
<1>2. CASE MainStep
  BY <1>2, AddStep, StartStep DEF MainStep
<1>3. QED BY <1>1, <1>2, StopStep, StutterInv DEF Next, Quiescent

(* The inductive invariant holds in every behaviour. *)
THEOREM Invariance == Spec => []SyncInv
<1>1. Init => SyncInv
  BY InitInv
<1>2. SyncInv /\ [Next]_vars => SyncInv'
  BY NextInv
<1>3. QED BY <1>1, <1>2, PTL DEF Spec

(* Type correctness of the coroutines, the mutex and the wait group; in    *)
(* particular counter_ does not go below zero.                             *)
THEOREM TypeCorrect == Spec => []TypeInv
<1>1. SyncInv => TypeInv
  BY DEF SyncInv
<1>2. QED BY <1>1, Invariance, PTL

(* At most one coroutine holds the lock, although Unlock resumes the next  *)
(* owner in place and Stop may destroy the owner's frame; and a coroutine  *)
(* executes in one place at a time.                                        *)
THEOREM MutualExclusionHolds == Spec => []MutualExclusion
<1>1. SyncInv => MutualExclusion
  BY SyncAssumption DEF SyncInv, LockInv, PlaceInv, MutualExclusion
<1>2. QED BY <1>1, Invariance, PTL

(* A suspended coroutine is linked exactly once, into the mutex or the     *)
(* event it waits for, and a mutex with waiters has an owner.              *)
THEOREM NoLostWaiterHolds == Spec => []NoLostWaiter
<1>1. ASSUME SyncInv
      PROVE  NoLostWaiter
  <2> USE DEF SyncInv
  <2> DEFINE lockers == listed \o waiters
             parked == ToSet(queued) \cup UNION {ToSet(firing[c]) : c \in Contenders}
  <2>1. Contenders \subseteq Coroutine
    BY SyncAssumption
  <2>2. ToSet(lockers) = ToSet(listed) \cup ToSet(waiters) /\ IsInjective(lockers)
    BY <1>1, ConcatFacts DEF TypeInv, LockInv
  <2>3. ToSet(lockers) \subseteq Coroutine
    BY <1>1, <2>2, ToSetMember DEF TypeInv
  <2>4. ToSet(lockers) = {c \in Coroutine : pc[c] = "wait"}
    BY <1>1, <2>2, <2>3 DEF LockInv
  <2>5. \A c \in Contenders : IsInjective(queued \o firing[c])
    <3>1. ASSUME NEW c \in Contenders
          PROVE  IsInjective(queued \o firing[c])
      <4>1. queued \in Seq(Coroutine) /\ firing[c] \in Seq(Coroutine)
        BY <1>1, <2>1 DEF TypeInv
      <4>2. /\ IsInjective(queued) /\ IsInjective(firing[c])
            /\ ToSet(queued) \cap ToSet(firing[c]) = {}
        BY <1>1 DEF EventInv
      <4>3. QED BY <4>1, <4>2, ConcatFacts
    <3>2. QED BY <3>1
  <2>6. parked = {c \in Coroutine : pc[c] = "parked"}
    <3>1. ToSet(queued) \subseteq Coroutine
      BY <1>1, ToSetMember DEF TypeInv
    <3>2. \A c \in Contenders : ToSet(firing[c]) \subseteq Coroutine
      <4>1. ASSUME NEW c \in Contenders
            PROVE  ToSet(firing[c]) \subseteq Coroutine
        <5>1. firing[c] \in Seq(Coroutine)
          BY <1>1, <2>1 DEF TypeInv
        <5>2. QED BY <5>1, ToSetMember
      <4>2. QED BY <4>1
    <3>3. \A c \in Coroutine : c \in parked <=> pc[c] = "parked"
      BY <1>1 DEF EventInv
    <3>4. parked \subseteq Coroutine
      BY <3>1, <3>2
    <3>5. QED BY <3>3, <3>4
  <2>7. lockers /= <<>> => \E c \in Contenders : Holds(c)
    <3>1. ASSUME ~locked
          PROVE  lockers = <<>>
      BY <1>1, <3>1 DEF LockInv
    <3>2. \A c \in Coroutine : Holds(c) => c \in Contenders
      BY <1>1 DEF Holds, LabelInv
    <3>3. QED BY <1>1, <3>1, <3>2 DEF LockInv
  <2>8. QED BY <2>2, <2>4, <2>5, <2>6, <2>7 DEF NoLostWaiter
<1>2. QED BY <1>1, Invariance, PTL

(* A waiter of the group goes on only after every Done, and nobody touches *)
(* the group afterwards.                                                   *)
THEOREM WaitCoversHolds == Spec => []WaitCovers
<1>1. ASSUME SyncInv
      PROVE  WaitCovers
  <2> USE DEF SyncInv
  <2> SUFFICES ASSUME NEW c \in Coroutine \ Contenders, Ended(c), NEW d \in Contenders
               PROVE  pc[d] \in {"firing", "end", "finished"}
    BY DEF WaitCovers, Ended
  <2>1. signaled
    BY <1>1 DEF CountInv
  <2>2. QED BY <1>1, <2>1 DEF CountInv, Did, Ended, InFire
<1>2. QED BY <1>1, Invariance, PTL

(* When the pool has stopped nobody is left waiting for the mutex. *)
THEOREM NoStrandedLockerHolds == Spec => []NoStrandedLocker
<1>1. ASSUME SyncInv, stage = "stopped", NEW c \in Coroutine
      PROVE  pc[c] /= "wait"
  <2> USE DEF SyncInv
  <2>1. \A d \in Coroutine : ~Placed(d)
    <3>1. runq = <<>> /\ \A t \in Thread : stack[t] = <<>>
      BY <1>1 DEF StageInv
    <3>2. QED BY <3>1, EmptyFacts DEF Placed
  <2>2. \A d \in Coroutine : ~Holds(d)
    BY <1>1, <2>1 DEF PlaceInv, Holds, Away
  <2>3. listed = <<>> /\ waiters = <<>>
    BY <1>1, <2>2 DEF LockInv
  <2>4. QED BY <1>1, <2>3, EmptyFacts DEF LockInv
<1>2. SyncInv => NoStrandedLocker
  BY <1>1 DEF NoStrandedLocker
<1>3. QED BY <1>2, Invariance, PTL
=============================================================================
