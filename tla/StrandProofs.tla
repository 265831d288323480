---------------------------- MODULE StrandProofs ----------------------------
(***************************************************************************)
(* Proofs about Strand for every set of threads and tasks and every        *)
(* CounterMod larger than the number of tasks.                             *)
(*                                                                         *)
(* The argument.  Let Balance be the number of executed fetch_adds minus   *)
(* the number of tasks covered by executed fetch_subs.  counter_ is the    *)
(* balance modulo CounterMod.  The right to execute the next batch is a    *)
(* token: it is held by a thread on its way to executor_.Execute(this), by *)
(* the executor's queue, by a worker inside Run up to its fetch_sub, or is *)
(* lost for good when the strand is discarded.  There is exactly one token *)
(* while the balance is positive and none otherwise.                       *)
(***************************************************************************)
EXTENDS Strand, SequenceFacts, FiniteSetTheorems

CallToken(th) == call[th] \in {"addref", "schedule", "discard"}

RunToken(w) == run[w] \in {"takeall", "loop", "task", "addref", "schedule",
                           "discard"}

HasToken ==
  \/ dropped
  \/ queued = 1
  \/ \E th \in AllThreads : CallToken(th)
  \/ \E w \in Workers : RunToken(w)

(* there is at most one token *)
OneToken ==
  /\ \A a, b \in AllThreads : CallToken(a) /\ CallToken(b) => a = b
  /\ \A v, w \in Workers : RunToken(v) /\ RunToken(w) => v = w
  /\ \A a \in AllThreads, w \in Workers : ~(CallToken(a) /\ RunToken(w))
  /\ queued \in {0, 1}
  /\ queued = 1 => /\ \A a \in AllThreads : ~CallToken(a)
                   /\ \A w \in Workers : ~RunToken(w)
  /\ dropped => /\ queued = 0
                /\ \A a \in AllThreads : ~CallToken(a)
                /\ \A w \in Workers : ~RunToken(w)

Balance == Cardinality(counted) - Cardinality(taken)

(* counter_ is the balance, and the balance says whether there is a token *)
CounterInv ==
  /\ counter = IF Balance >= 0 THEN Balance ELSE Balance + CounterMod
  /\ Balance >= 1 <=> HasToken

InLoop(w) == run[w] \in {"loop", "task"}

(* the local variables of Run against the history *)
BatchInv ==
  /\ taken \subseteq ran
  /\ \A w \in Workers :
       InLoop(w) => completed[w] = Cardinality(ran) - Cardinality(taken)
  /\ (\A w \in Workers : ~InLoop(w)) => taken = ran
  /\ \A w \in Workers : ~InLoop(w) => items[w] = <<>>
  /\ \A w \in Workers : active[w] /= None <=> run[w] = "task"

(* a task is at most in one place *)
PlaceInv ==
  /\ IsInjective(stack)
  /\ ToSet(stack) \subseteq submitted \ (ran \cup discarded)
  /\ ran \cup discarded \subseteq submitted
  /\ ran \cap discarded = {}
  /\ ~dropped => discarded = {}
  /\ \A w \in Workers :
       /\ IsInjective(items[w])
       /\ ToSet(items[w]) \subseteq submitted \ (ran \cup discarded)
       /\ ToSet(items[w]) \cap ToSet(stack) = {}
       /\ active[w] \notin ran \cup discarded \cup ToSet(items[w])
                             \cup ToSet(stack)
       /\ active[w] /= None => active[w] \in submitted

Placed(t) ==
  \/ t \in ToSet(stack) \cup ran \cup discarded
  \/ \E w \in Workers : t = active[w] \/ t \in ToSet(items[w])

(* a task being submitted is not in any place before Put, and is not       *)
(* counted before fetch_add; counted tasks are in some place               *)
ArgInv ==
  /\ \A th \in AllThreads :
       call[th] \in {"put", "count"} => arg[th] \in submitted \ counted
  /\ \A th \in AllThreads : call[th] = "put" => ~Placed(arg[th])
  /\ \A th \in AllThreads : call[th] = "count" => Placed(arg[th])
  /\ \A a, b \in AllThreads :
       /\ call[a] \in {"put", "count"}
       /\ call[b] \in {"put", "count"}
       /\ arg[a] = arg[b]
       => a = b
  /\ counted \subseteq submitted
  /\ \A t \in counted : Placed(t)

(* every reference: the handle's, the one that travels with the token, and *)
(* the one that each worker inside Run will release                        *)
TokenRef ==
  \/ dropped
  \/ queued = 1
  \/ \E th \in AllThreads : call[th] \in {"schedule", "discard"}
  \/ \E w \in Workers : run[w] \in {"schedule", "discard"}

RunningBatches == {w \in Workers : run[w] /= "idle"}

RefInv ==
  /\ refs = (IF handle THEN 1 ELSE 0) + (IF TokenRef THEN 1 ELSE 0)
              + Cardinality(RunningBatches)
  /\ \A th \in AllThreads : call[th] /= "out" => handle

IInv ==
  /\ TypeOK
  /\ OneToken
  /\ CounterInv
  /\ BatchInv
  /\ PlaceInv
  /\ ArgInv
  /\ RefInv

(* The histories are finite and smaller than CounterMod. *)
LEMMA CardFacts ==
  ASSUME TypeOK
  PROVE  /\ \A X \in SUBSET Tasks :
              /\ IsFiniteSet(X)
              /\ Cardinality(X) \in 0..(CounterMod - 1)
         /\ CounterMod \in Nat
         /\ Balance \in Int /\ Balance < CounterMod /\ -Balance < CounterMod
         /\ IsFiniteSet(RunningBatches) /\ Cardinality(RunningBatches) \in Nat
<1>1. ASSUME NEW X \in SUBSET Tasks
      PROVE  IsFiniteSet(X) /\ Cardinality(X) \in 0..(CounterMod - 1)
  BY StrandAssumption, FS_Subset, FS_CardinalityType
<1>2. Cardinality(counted) \in 0..(CounterMod - 1)
      /\ Cardinality(taken) \in 0..(CounterMod - 1)
  BY <1>1 DEF TypeOK
<1>3. CounterMod \in Nat
  BY StrandAssumption
<1>4. RunningBatches \in SUBSET Workers
  BY DEF RunningBatches
<1>5. IsFiniteSet(RunningBatches) /\ Cardinality(RunningBatches) \in Nat
  BY <1>4, StrandAssumption, FS_Subset, FS_CardinalityType
<1>6. QED BY <1>1, <1>2, <1>3, <1>5 DEF Balance

(* A step that moves no task keeps every task where it is. *)
LEMMA SamePlaces ==
  ASSUME UNCHANGED <<stack, ran, discarded, active, items>>
  PROVE  \A u : Placed(u)' <=> Placed(u)
BY DEF Placed

(* Discard moves what is in the stack to the discarded tasks. *)
LEMMA DiscardPlaces ==
  ASSUME TypeOK, PlaceInv, DiscardTasks, UNCHANGED <<items, active>>
  PROVE  /\ PlaceInv'
         /\ \A u : Placed(u)' <=> Placed(u)
         /\ stack' \in Seq(Tasks)
         /\ discarded' \subseteq Tasks
<1>1. stack' = <<>> /\ ToSet(stack') = {} /\ IsInjective(stack')
  BY EmptyFacts DEF DiscardTasks
<1>2. ToSet(stack) \subseteq submitted \ (ran \cup discarded)
  BY DEF PlaceInv
<1>3. discarded' = discarded \cup ToSet(stack) /\ UNCHANGED <<ran, submitted>>
      /\ dropped'
  BY DEF DiscardTasks
<1>4. PlaceInv'
  BY <1>1, <1>2, <1>3 DEF PlaceInv
<1>5. \A u : Placed(u)' <=> Placed(u)
  BY <1>1, <1>3 DEF Placed
<1>6. stack' \in Seq(Tasks) /\ discarded' \subseteq Tasks
  BY <1>1, <1>2, <1>3 DEF TypeOK
<1>7. QED BY <1>4, <1>5, <1>6

(* Strand::Execute is entered: a fresh task, in no place yet. *)
LEMMA ExecuteCallStep ==
  ASSUME IInv, NEW th \in AllThreads, NEW t \in Tasks, ExecuteCall(th, t)
  PROVE  IInv'
<1> USE DEF IInv, ExecuteCall, Call, svars, wvars, evars, hvars
<1>1. TypeOK'
  BY StrandAssumption DEF TypeOK
<1>2. OneToken'
  BY DEF TypeOK, OneToken, CallToken, RunToken
<1>3. CounterInv'
  BY DEF TypeOK, OneToken, CounterInv, Balance, HasToken, CallToken, RunToken
<1>4. BatchInv'
  BY DEF TypeOK, BatchInv, InLoop
<1>5. PlaceInv'
  BY DEF TypeOK, PlaceInv
<1>6. ArgInv'
  <2>1. \A u : Placed(u)' <=> Placed(u)
    BY SamePlaces
  <2>2. ~Placed(t)
    BY StrandAssumption DEF Placed, PlaceInv, TypeOK
  <2>3. t \notin counted
    BY DEF ArgInv
  <2>4. QED BY <2>1, <2>2, <2>3 DEF ArgInv, TypeOK
<1>7. RefInv'
  BY CardFacts DEF TypeOK, RefInv, TokenRef, RunningBatches, OneToken
<1>8. QED BY <1>1, <1>2, <1>3, <1>4, <1>5, <1>6, <1>7

(* Push links the task into the stack, its first place. *)
LEMMA ExecutePutStep ==
  ASSUME IInv, NEW th \in AllThreads, ExecutePut(th)
  PROVE  IInv'
<1> USE DEF IInv, ExecutePut, Call, svars, wvars, evars, hvars
<1>0. /\ arg[th] \in Tasks /\ arg[th] \in submitted /\ ~Placed(arg[th])
      /\ stack \in Seq(Tasks)
  BY DEF ArgInv, TypeOK
<1>f. /\ stack' \in Seq(Tasks)
      /\ ToSet(stack') = {arg[th]} \cup ToSet(stack)
      /\ IsInjective(stack')
  BY <1>0, PushFacts DEF PlaceInv, Placed
<1>1. TypeOK'
  BY <1>f DEF TypeOK
<1>2. OneToken'
  BY DEF TypeOK, OneToken, CallToken, RunToken
<1>3. CounterInv'
  BY DEF TypeOK, OneToken, CounterInv, Balance, HasToken, CallToken, RunToken
<1>4. BatchInv'
  BY DEF TypeOK, BatchInv, InLoop
<1>5. PlaceInv'
  BY <1>0, <1>f DEF PlaceInv, Placed
<1>6. ArgInv'
  <2>1. \A u : Placed(u)' <=> Placed(u) \/ u = arg[th]
    BY <1>f DEF Placed
  <2>2. QED BY <2>1 DEF ArgInv, TypeOK
<1>7. RefInv'
  BY CardFacts DEF TypeOK, RefInv, TokenRef, RunningBatches, OneToken
<1>8. QED BY <1>1, <1>2, <1>3, <1>4, <1>5, <1>6, <1>7

(* fetch_add raises the balance; from zero it creates the token. *)
LEMMA ExecuteCountStep ==
  ASSUME IInv, NEW th \in AllThreads, ExecuteCount(th)
  PROVE  IInv'
<1> USE DEF IInv, ExecuteCount, Call, svars, wvars, evars, hvars
<1>0. /\ arg[th] \in Tasks /\ arg[th] \in submitted \ counted
      /\ Placed(arg[th])
  BY DEF ArgInv, TypeOK
<1>f. /\ CounterMod \in Nat
      /\ Balance \in Int /\ Balance < CounterMod /\ -Balance < CounterMod
      /\ Balance' \in Int /\ Balance' = Balance + 1 /\ Balance' < CounterMod
  <2>1. counted' \subseteq Tasks /\ taken' = taken
    BY <1>0 DEF TypeOK
  <2>2. Cardinality(counted') = Cardinality(counted) + 1
    BY <1>0, CardFacts, FS_AddElement DEF TypeOK
  <2>3. Cardinality(counted') \in 0..(CounterMod - 1)
        /\ Cardinality(taken) \in 0..(CounterMod - 1)
    BY <2>1, CardFacts DEF TypeOK
  <2>4. QED BY <2>1, <2>2, <2>3, CardFacts DEF Balance
<1>g. /\ counter = IF Balance >= 0 THEN Balance ELSE Balance + CounterMod
      /\ Balance >= 1 <=> HasToken
  BY DEF CounterInv
<1>h. /\ counter' = IF Balance' >= 0 THEN Balance' ELSE Balance' + CounterMod
      /\ counter' \in 0..(CounterMod - 1)
      /\ counter = 0 <=> Balance = 0
  BY <1>f, <1>g DEF WrapAdd
<1>1. TypeOK'
  BY <1>0, <1>h DEF TypeOK
<1>i. counter = 0 => ~HasToken
  BY <1>f, <1>g, <1>h
<1>2. OneToken'
  <2>1. CASE counter = 0
    <3>1. call'[th] = "addref" /\ \A a \in AllThreads \ {th} : ~CallToken(a)'
      BY <1>i, <2>1 DEF TypeOK, HasToken, CallToken
    <3>2. QED BY <1>i, <2>1, <3>1 DEF TypeOK, OneToken, HasToken, CallToken, RunToken
  <2>2. CASE counter /= 0
    <3>1. \A a \in AllThreads : CallToken(a)' => CallToken(a)
      BY <2>2 DEF TypeOK, CallToken
    <3>2. QED BY <3>1 DEF OneToken, RunToken
  <2>3. QED BY <2>1, <2>2
<1>3. CounterInv'
  <2>1. CASE counter = 0
    <3>1. HasToken'
      BY <2>1 DEF TypeOK, HasToken, CallToken
    <3>2. QED BY <1>f, <1>h, <2>1, <3>1 DEF CounterInv
  <2>2. CASE counter /= 0
    <3>1. \A a \in AllThreads : CallToken(a)' <=> CallToken(a)
      BY <2>2 DEF TypeOK, CallToken
    <3>2. HasToken' <=> HasToken
      BY <3>1 DEF HasToken, RunToken
    <3>3. Balance' >= 1 <=> Balance >= 1
      BY <1>f, <1>h, <2>2
    <3>4. QED BY <1>g, <1>h, <3>2, <3>3 DEF CounterInv
  <2>3. QED BY <2>1, <2>2
<1>4. BatchInv'
  BY DEF TypeOK, BatchInv, InLoop
<1>5. PlaceInv'
  BY DEF TypeOK, PlaceInv
<1>6. ArgInv'
  BY DEF TypeOK, ArgInv, Placed
<1>7. RefInv'
  BY CardFacts DEF TypeOK, RefInv, TokenRef, RunningBatches, OneToken
<1>8. QED BY <1>1, <1>2, <1>3, <1>4, <1>5, <1>6, <1>7

(* AddRef for the batch that Execute is about to schedule. *)
LEMMA ExecuteAddRefStep ==
  ASSUME IInv, NEW th \in AllThreads, ExecuteAddRef(th)
  PROVE  IInv'
<1> USE DEF IInv, ExecuteAddRef, Call, svars, wvars, evars, hvars
<1>1. TypeOK'
  BY StrandAssumption DEF TypeOK
<1>2. OneToken'
  BY DEF TypeOK, OneToken, CallToken, RunToken
<1>3. CounterInv'
  BY DEF TypeOK, OneToken, CounterInv, Balance, HasToken, CallToken, RunToken
<1>4. BatchInv'
  BY DEF TypeOK, BatchInv, InLoop
<1>5. PlaceInv'
  BY DEF TypeOK, PlaceInv
<1>6. ArgInv'
  BY DEF TypeOK, ArgInv, Placed
<1>7. RefInv'
  <2>1. ~TokenRef
    BY DEF TypeOK, TokenRef, OneToken, CallToken, RunToken
  <2>2. TokenRef'
    BY DEF TypeOK, TokenRef
  <2>3. RunningBatches' = RunningBatches
    BY DEF RunningBatches
  <2>4. \A a \in AllThreads : call'[a] /= "out" => handle'
    BY DEF RefInv, TypeOK
  <2>5. QED BY <2>1, <2>2, <2>3, <2>4, CardFacts DEF RefInv, TypeOK
<1>8. QED BY <1>1, <1>2, <1>3, <1>4, <1>5, <1>6, <1>7

(* The token moves into the queue of the executor, or to Discard. *)
LEMMA ExecuteScheduleStep ==
  ASSUME IInv, NEW th \in AllThreads, ExecuteSchedule(th)
  PROVE  IInv'
<1> USE DEF IInv, ExecuteSchedule, Call, svars, wvars, evars, hvars
<1>c. \/ exec = "open" /\ queued' = queued + 1
         /\ call' = [call EXCEPT ![th] = "out"]
      \/ exec = "closed" /\ queued' = queued
         /\ call' = [call EXCEPT ![th] = "discard"]
  BY DEF TypeOK
<1>1. TypeOK'
  <2>1. queued' \in Nat
    BY <1>c DEF TypeOK
  <2>2. PICK l \in {"out", "discard"} : call' = [call EXCEPT ![th] = l]
    BY <1>c
  <2>3. QED BY <2>1, <2>2 DEF TypeOK
<1>0. /\ queued = 0 /\ ~dropped
      /\ \A a \in AllThreads \ {th} : ~CallToken(a)
      /\ \A w \in Workers : ~RunToken(w)
  BY DEF OneToken, CallToken
<1>f. /\ \A a \in AllThreads \ {th} : ~CallToken(a)'
      /\ \A w \in Workers : ~RunToken(w)'
  BY <1>0, <1>c DEF TypeOK, CallToken, RunToken
<1>2. OneToken'
  <2>1. CASE exec = "open"
    <3>1. queued' = 1 /\ ~CallToken(th)' /\ ~dropped'
      BY <1>0, <1>c, <2>1 DEF TypeOK, CallToken
    <3>2. QED BY <1>f, <3>1 DEF OneToken
  <2>2. CASE exec = "closed"
    <3>1. queued' = 0 /\ ~dropped'
      BY <1>0, <1>c, <2>2
    <3>2. QED BY <1>f, <3>1 DEF OneToken
  <2>3. QED BY <1>c, <2>1, <2>2
<1>3. CounterInv'
  BY DEF TypeOK, OneToken, CounterInv, Balance, HasToken, CallToken, RunToken
<1>4. BatchInv'
  BY DEF TypeOK, BatchInv, InLoop
<1>5. PlaceInv'
  BY DEF TypeOK, PlaceInv
<1>6. ArgInv'
  <2>1. \A u : Placed(u)' <=> Placed(u)
    BY SamePlaces
  <2>2. QED BY <1>c, <2>1 DEF ArgInv, TypeOK
<1>7. RefInv'
  <2>1. TokenRef
    BY DEF TypeOK, TokenRef
  <2>2. TokenRef'
    BY <1>0, <1>c DEF TypeOK, TokenRef
  <2>3. RunningBatches' = RunningBatches
    BY DEF RunningBatches
  <2>4. \A a \in AllThreads : call'[a] /= "out" => handle'
    BY <1>c DEF RefInv, TypeOK
  <2>5. QED BY <2>1, <2>2, <2>3, <2>4 DEF RefInv, TypeOK
<1>8. QED BY <1>1, <1>2, <1>3, <1>4, <1>5, <1>6, <1>7

(* Discard by the scheduling thread: the token is lost for good. *)
LEMMA ExecuteDiscardStep ==
  ASSUME IInv, NEW th \in AllThreads, ExecuteDiscard(th)
  PROVE  IInv'
<1> USE DEF IInv, ExecuteDiscard, Call, DiscardTasks, svars, wvars, evars, hvars
<1>0. /\ PlaceInv'
      /\ \A u : Placed(u)' <=> Placed(u)
      /\ stack' \in Seq(Tasks)
      /\ discarded' \subseteq Tasks
  BY DiscardPlaces
<1>1. TypeOK'
  BY <1>0 DEF TypeOK
<1>2. OneToken'
  BY DEF TypeOK, OneToken, CallToken, RunToken
<1>3. CounterInv'
  BY DEF TypeOK, OneToken, CounterInv, Balance, HasToken, CallToken, RunToken
<1>4. BatchInv'
  BY DEF TypeOK, BatchInv, InLoop
<1>5. PlaceInv'
  BY <1>0
<1>6. ArgInv'
  BY <1>0 DEF ArgInv, TypeOK
<1>7. RefInv'
  BY CardFacts DEF TypeOK, RefInv, TokenRef, RunningBatches, OneToken
<1>8. QED BY <1>1, <1>2, <1>3, <1>4, <1>5, <1>6, <1>7

(* The token moves from the queue of the executor to a worker. *)
LEMMA RunStartStep ==
  ASSUME IInv, NEW w \in Workers, RunStart(w)
  PROVE  IInv'
<1> USE DEF IInv, RunStart, Run, svars, wvars, evars, hvars
<1>1. TypeOK'
  BY StrandAssumption DEF TypeOK
<1>2. OneToken'
  BY DEF TypeOK, OneToken, CallToken, RunToken
<1>3. CounterInv'
  BY DEF TypeOK, OneToken, CounterInv, Balance, HasToken, CallToken, RunToken
<1>4. BatchInv'
  BY DEF TypeOK, BatchInv, InLoop
<1>5. PlaceInv'
  BY DEF TypeOK, PlaceInv
<1>6. ArgInv'
  BY DEF TypeOK, ArgInv, Placed
<1>7. RefInv'
  <2>1. TokenRef /\ ~TokenRef'
    BY DEF TypeOK, TokenRef, OneToken, CallToken, RunToken
  <2>2. RunningBatches' = RunningBatches \cup {w} /\ w \notin RunningBatches
    BY DEF RunningBatches, TypeOK
  <2>3. Cardinality(RunningBatches') = Cardinality(RunningBatches) + 1
    BY <2>2, CardFacts, FS_AddElement
  <2>4. QED BY <2>1, <2>3, CardFacts DEF RefInv, TypeOK
<1>8. QED BY <1>1, <1>2, <1>3, <1>4, <1>5, <1>6, <1>7

(* TakeAll moves the tasks from the stack into the batch. *)
LEMMA RunTakeAllStep ==
  ASSUME IInv, NEW w \in Workers, RunTakeAll(w)
  PROVE  IInv'
<1> USE DEF IInv, RunTakeAll, Run, svars, wvars, evars, hvars
<1>0. /\ items'[w] \in Seq(Tasks)
      /\ ToSet(items'[w]) = ToSet(stack)
      /\ IsInjective(items'[w])
      /\ stack' = <<>> /\ ToSet(stack') = {} /\ IsInjective(stack')
  BY ReverseFacts, EmptyFacts DEF TypeOK, PlaceInv
<1>e. /\ \A v \in Workers : ~InLoop(v)
      /\ \A v \in Workers : items[v] = <<>> /\ active[v] = None
  <2>1. \A v \in Workers : ~InLoop(v)
    BY DEF OneToken, RunToken, InLoop
  <2>2. QED BY <2>1 DEF BatchInv, InLoop
<1>f. /\ \A v \in Workers \ {w} : items'[v] = items[v]
      /\ active' = active
  BY DEF TypeOK
<1>1. TypeOK'
  <2>1. stack' \in Seq(Tasks) /\ items' \in [Workers -> Seq(Tasks)]
    BY <1>0 DEF TypeOK
  <2>2. QED BY <2>1 DEF TypeOK
<1>2. OneToken'
  BY DEF TypeOK, OneToken, CallToken, RunToken
<1>3. CounterInv'
  BY DEF TypeOK, OneToken, CounterInv, Balance, HasToken, CallToken, RunToken
<1>4. BatchInv'
  <2>1. taken = ran /\ Cardinality(ran) \in Int
    BY <1>e, CardFacts DEF BatchInv, TypeOK
  <2>2. \A v \in Workers \ {w} : ~InLoop(v)'
    BY <1>e DEF TypeOK, InLoop
  <2>3. InLoop(w)' /\ completed'[w] = 0 /\ run'[w] = "loop"
    BY DEF TypeOK, InLoop
  <2>4. Cardinality(ran) - Cardinality(taken) = 0
    BY <2>1
  <2>5. QED BY <1>e, <1>f, <2>1, <2>2, <2>3, <2>4 DEF BatchInv, TypeOK
<1>5. PlaceInv'
  <2>1. \A v \in Workers \ {w} : ToSet(items'[v]) = {} /\ IsInjective(items'[v])
    BY <1>e, <1>f, EmptyFacts
  <2>2. None \notin submitted
    BY StrandAssumption DEF TypeOK
  <2>3. QED BY <1>0, <1>e, <1>f, <2>1, <2>2 DEF PlaceInv
<1>6. ArgInv'
  <2>1. \A v \in Workers : ToSet(items[v]) = {}
    BY <1>e, EmptyFacts
  <2>2. \A u : Placed(u)' <=> Placed(u)
    BY <1>0, <1>f, <2>1 DEF Placed
  <2>3. QED BY <2>2 DEF ArgInv, TypeOK
<1>7. RefInv'
  BY CardFacts DEF TypeOK, RefInv, TokenRef, RunningBatches, OneToken
<1>8. QED BY <1>1, <1>2, <1>3, <1>4, <1>5, <1>6, <1>7

(* The next task of the batch becomes the active one. *)
LEMMA RunTaskStep ==
  ASSUME IInv, NEW w \in Workers, RunTask(w)
  PROVE  IInv'
<1> USE DEF IInv, RunTask, Run, svars, wvars, evars, hvars
<1>1. TypeOK'
  BY StrandAssumption DEF TypeOK
<1>2. OneToken'
  BY DEF TypeOK, OneToken, CallToken, RunToken
<1>3. CounterInv'
  BY DEF TypeOK, OneToken, CounterInv, Balance, HasToken, CallToken, RunToken
<1>0. /\ items'[w] = Tail(items[w]) /\ active'[w] = Head(items[w])
      /\ run'[w] = "task"
      /\ Head(items[w]) \in Tasks
      /\ ToSet(items[w]) = {Head(items[w])} \cup ToSet(items'[w])
      /\ IsInjective(items'[w]) /\ Head(items[w]) \notin ToSet(items'[w])
  BY PopFacts DEF TypeOK, PlaceInv
<1>e. \A v \in Workers \ {w} :
        /\ ~InLoop(v) /\ ~InLoop(v)'
        /\ items'[v] = <<>> /\ active'[v] = None /\ active[v] = None
        /\ ToSet(items'[v]) = {} /\ ToSet(items[v]) = {} /\ IsInjective(items'[v])
  <2>1. \A v \in Workers \ {w} : ~InLoop(v)
    BY DEF OneToken, RunToken, InLoop
  <2>2. \A v \in Workers \ {w} : items[v] = <<>> /\ active[v] = None
    BY <2>1 DEF BatchInv, InLoop
  <2>3. QED BY <2>1, <2>2, EmptyFacts DEF InLoop, TypeOK
<1>4. BatchInv'
  <2>1. InLoop(w) /\ InLoop(w)' /\ active'[w] /= None
    BY <1>0, StrandAssumption DEF InLoop
  <2>2. UNCHANGED <<ran, taken, completed>>
    OBVIOUS
  <2>3. \A v \in Workers \ {w} : run'[v] /= "task"
    BY <1>e DEF InLoop
  <2>4. QED BY <1>0, <1>e, <2>1, <2>2, <2>3 DEF BatchInv
<1>5. PlaceInv'
  <2>1. None \notin submitted
    BY StrandAssumption DEF TypeOK
  <2>2. UNCHANGED <<stack, ran, discarded, submitted>>
    OBVIOUS
  <2>3. QED BY <1>0, <1>e, <2>1, <2>2 DEF PlaceInv
<1>6. ArgInv'
  <2>1. active[w] = None
    BY DEF BatchInv
  <2>2. \A u \in Tasks : Placed(u)' <=> Placed(u)
    BY <1>0, <1>e, <2>1, StrandAssumption DEF Placed
  <2>3. QED BY <2>2 DEF ArgInv, TypeOK
<1>7. RefInv'
  BY CardFacts DEF TypeOK, RefInv, TokenRef, RunningBatches, OneToken
<1>8. QED BY <1>1, <1>2, <1>3, <1>4, <1>5, <1>6, <1>7

(* task->Run() has returned: one more completed task. *)
LEMMA RunTaskDoneStep ==
  ASSUME IInv, NEW w \in Workers, RunTaskDone(w)
  PROVE  IInv'
<1> USE DEF IInv, RunTaskDone, Run, svars, wvars, evars, hvars
<1>0. /\ active[w] \in Tasks /\ active[w] \in submitted
      /\ active[w] \notin ran \cup discarded \cup ToSet(items[w]) \cup ToSet(stack)
      /\ ran' = ran \cup {active[w]} /\ active'[w] = None
      /\ completed'[w] = completed[w] + 1 /\ run'[w] = "loop"
  BY DEF TypeOK, BatchInv, PlaceInv
<1>e. \A v \in Workers \ {w} :
        /\ ~InLoop(v) /\ ~InLoop(v)'
        /\ items'[v] = <<>> /\ active'[v] = None /\ active[v] = None
        /\ ToSet(items[v]) = {}
  <2>1. \A v \in Workers \ {w} : ~InLoop(v)
    BY DEF OneToken, RunToken, InLoop
  <2>2. \A v \in Workers \ {w} : items[v] = <<>> /\ active[v] = None
    BY <2>1 DEF BatchInv, InLoop
  <2>3. QED BY <2>1, <2>2, EmptyFacts DEF InLoop, TypeOK
<1>1. TypeOK'
  <2>1. completed' \in [Workers -> Nat] /\ ran' \subseteq Tasks
    BY <1>0 DEF TypeOK
  <2>2. QED BY <1>0, <2>1 DEF TypeOK
<1>2. OneToken'
  BY DEF TypeOK, OneToken, CallToken, RunToken
<1>3. CounterInv'
  BY DEF TypeOK, OneToken, CounterInv, Balance, HasToken, CallToken, RunToken
<1>4. BatchInv'
  <2>1. InLoop(w) /\ InLoop(w)'
    BY <1>0 DEF InLoop
  <2>2. completed[w] = Cardinality(ran) - Cardinality(taken)
    BY <2>1 DEF BatchInv
  <2>3. Cardinality(ran') = Cardinality(ran) + 1
    <3>1. IsFiniteSet(ran)
      BY CardFacts DEF TypeOK
    <3>2. active[w] \notin ran
      BY <1>0
    <3>3. QED BY <1>0, <3>1, <3>2, FS_AddElement
  <2>4. Cardinality(ran) \in Int /\ Cardinality(taken) \in Int
    BY CardFacts DEF TypeOK
  <2>5. completed'[w] = Cardinality(ran') - Cardinality(taken')
    BY <1>0, <2>2, <2>3, <2>4
  <2>6. QED BY <1>0, <1>e, <2>1, <2>5 DEF BatchInv, InLoop
<1>5. PlaceInv'
  <2>1. None \notin submitted
    BY StrandAssumption DEF TypeOK
  <2>2. UNCHANGED <<stack, items, discarded, submitted>>
    OBVIOUS
  <2>3. QED BY <1>0, <1>e, <2>1, <2>2 DEF PlaceInv
<1>6. ArgInv'
  <2>1. \A u \in Tasks : Placed(u)' <=> Placed(u)
    BY <1>0, <1>e, StrandAssumption DEF Placed
  <2>2. QED BY <2>1 DEF ArgInv, TypeOK
<1>7. RefInv'
  BY CardFacts DEF TypeOK, RefInv, TokenRef, RunningBatches, OneToken
<1>8. QED BY <1>1, <1>2, <1>3, <1>4, <1>5, <1>6, <1>7

(* fetch_sub lowers the balance; the token is kept if it stays positive. *)
LEMMA RunSubStep ==
  ASSUME IInv, NEW w \in Workers, RunSub(w)
  PROVE  IInv'
<1> USE DEF IInv, RunSub, Run, svars, wvars, evars, hvars
<1>0. /\ CounterMod \in Nat
      /\ Balance \in Int /\ Balance < CounterMod /\ -Balance < CounterMod
      /\ Balance >= 1 /\ counter = Balance
      /\ completed[w] \in Nat /\ completed[w] < CounterMod
      /\ Balance' = Balance - completed[w]
  <2>1. HasToken /\ InLoop(w)
    BY DEF HasToken, RunToken, InLoop
  <2>2. Balance \in Int /\ Balance >= 1 /\ counter = Balance
    BY <2>1, CardFacts DEF CounterInv
  <2>3. completed[w] = Cardinality(ran) - Cardinality(taken)
    BY <2>1 DEF BatchInv
  <2>4. /\ Cardinality(ran) \in 0..(CounterMod - 1)
        /\ Cardinality(taken) \in 0..(CounterMod - 1)
        /\ Cardinality(counted) \in 0..(CounterMod - 1)
    BY CardFacts DEF TypeOK
  <2>5. Balance' = Cardinality(counted) - Cardinality(ran)
    BY DEF Balance
  <2>6. completed[w] \in Nat /\ completed[w] < CounterMod
    BY <2>3, <2>4, CardFacts DEF TypeOK
  <2>7. Balance' = Balance - completed[w]
    BY <2>3, <2>4, <2>5 DEF Balance
  <2>8. QED BY <2>2, <2>6, <2>7, CardFacts
<1>f. /\ counter' = IF Balance' >= 0 THEN Balance' ELSE Balance' + CounterMod
      /\ counter' \in 0..(CounterMod - 1)
      /\ counter > completed[w] <=> Balance' >= 1
  BY <1>0 DEF WrapSub
<1>e. /\ \A v \in Workers \ {w} : ~RunToken(v) /\ ~RunToken(v)'
      /\ \A a \in AllThreads : ~CallToken(a) /\ ~CallToken(a)'
      /\ queued' = 0 /\ ~dropped'
      /\ run'[w] = IF counter > completed[w] THEN "addref" ELSE "release"
  BY DEF OneToken, RunToken, CallToken, TypeOK
<1>1. TypeOK'
  BY <1>f DEF TypeOK
<1>2. OneToken'
  BY DEF TypeOK, OneToken, CallToken, RunToken
<1>3. CounterInv'
  <2>1. RunToken(w)' <=> counter > completed[w]
    BY <1>e DEF RunToken
  <2>2. HasToken' <=> counter > completed[w]
    BY <1>e, <2>1 DEF HasToken
  <2>3. QED BY <1>f, <2>2 DEF CounterInv
<1>4. BatchInv'
  <2>1. \A v \in Workers : ~InLoop(v)'
    BY <1>e DEF InLoop, RunToken
  <2>2. \A v \in Workers : items'[v] = <<>> /\ active'[v] = None
    BY <1>e DEF BatchInv, InLoop, RunToken
  <2>3. taken' = ran'
    OBVIOUS
  <2>4. QED BY <2>1, <2>2, <2>3 DEF BatchInv, InLoop
<1>5. PlaceInv'
  BY DEF TypeOK, PlaceInv
<1>6. ArgInv'
  BY DEF TypeOK, ArgInv, Placed
<1>7. RefInv'
  BY CardFacts DEF TypeOK, RefInv, TokenRef, RunningBatches, OneToken
<1>8. QED BY <1>1, <1>2, <1>3, <1>4, <1>5, <1>6, <1>7

(* AddRef for the batch that Run is about to schedule. *)
LEMMA RunAddRefStep ==
  ASSUME IInv, NEW w \in Workers, RunAddRef(w)
  PROVE  IInv'
<1> USE DEF IInv, RunAddRef, Run, svars, wvars, evars, hvars
<1>1. TypeOK'
  BY StrandAssumption DEF TypeOK
<1>2. OneToken'
  BY DEF TypeOK, OneToken, CallToken, RunToken
<1>3. CounterInv'
  BY DEF TypeOK, OneToken, CounterInv, Balance, HasToken, CallToken, RunToken
<1>4. BatchInv'
  BY DEF TypeOK, BatchInv, InLoop
<1>5. PlaceInv'
  BY DEF TypeOK, PlaceInv
<1>6. ArgInv'
  BY DEF TypeOK, ArgInv, Placed
<1>7. RefInv'
  <2>1. ~TokenRef
    BY DEF TypeOK, TokenRef, OneToken, CallToken, RunToken
  <2>2. TokenRef'
    BY DEF TypeOK, TokenRef
  <2>3. RunningBatches' = RunningBatches
    BY DEF RunningBatches, TypeOK
  <2>4. QED BY <2>1, <2>2, <2>3, CardFacts DEF RefInv, TypeOK
<1>8. QED BY <1>1, <1>2, <1>3, <1>4, <1>5, <1>6, <1>7

(* The token moves from Run into the queue, or to Discard. *)
LEMMA RunScheduleStep ==
  ASSUME IInv, NEW w \in Workers, RunSchedule(w)
  PROVE  IInv'
<1> USE DEF IInv, RunSchedule, Run, svars, wvars, evars, hvars
<1>1. TypeOK'
  BY StrandAssumption DEF TypeOK
<1>0. /\ queued = 0 /\ ~dropped
      /\ \A v \in Workers \ {w} : ~RunToken(v)
      /\ \A a \in AllThreads : ~CallToken(a)
  BY DEF OneToken, RunToken
<1>c. \/ queued' = 1 /\ run' = [run EXCEPT ![w] = "release"]
      \/ queued' = 0 /\ run' = [run EXCEPT ![w] = "discard"]
  BY <1>0
<1>f. /\ \A v \in Workers \ {w} : ~RunToken(v)'
      /\ \A a \in AllThreads : ~CallToken(a)'
      /\ \/ queued' = 1 /\ ~RunToken(w)' /\ run'[w] = "release"
         \/ queued' = 0 /\ run'[w] = "discard"
  BY <1>0, <1>c DEF TypeOK, CallToken, RunToken
<1>2. OneToken'
  BY <1>0, <1>f DEF OneToken
<1>3. CounterInv'
  BY DEF TypeOK, OneToken, CounterInv, Balance, HasToken, CallToken, RunToken
<1>4. BatchInv'
  BY DEF TypeOK, BatchInv, InLoop
<1>5. PlaceInv'
  BY DEF TypeOK, PlaceInv
<1>6. ArgInv'
  BY DEF TypeOK, ArgInv, Placed
<1>7. RefInv'
  <2>1. TokenRef
    BY DEF TypeOK, TokenRef
  <2>2. TokenRef'
    BY <1>f DEF TokenRef
  <2>3. RunningBatches' = RunningBatches
    BY <1>c DEF RunningBatches, TypeOK
  <2>4. QED BY <2>1, <2>2, <2>3 DEF RefInv, TypeOK
<1>8. QED BY <1>1, <1>2, <1>3, <1>4, <1>5, <1>6, <1>7

(* Discard called from Run: the token is lost for good. *)
LEMMA RunDiscardStep ==
  ASSUME IInv, NEW w \in Workers, RunDiscard(w)
  PROVE  IInv'
<1> USE DEF IInv, RunDiscard, Run, DiscardTasks, svars, wvars, evars, hvars
<1>0. /\ PlaceInv'
      /\ \A u : Placed(u)' <=> Placed(u)
      /\ stack' \in Seq(Tasks)
      /\ discarded' \subseteq Tasks
  BY DiscardPlaces
<1>1. TypeOK'
  BY <1>0 DEF TypeOK
<1>2. OneToken'
  BY DEF TypeOK, OneToken, CallToken, RunToken
<1>3. CounterInv'
  BY DEF TypeOK, OneToken, CounterInv, Balance, HasToken, CallToken, RunToken
<1>4. BatchInv'
  BY DEF TypeOK, BatchInv, InLoop
<1>5. PlaceInv'
  BY <1>0
<1>6. ArgInv'
  BY <1>0 DEF ArgInv, TypeOK
<1>7. RefInv'
  BY CardFacts DEF TypeOK, RefInv, TokenRef, RunningBatches, OneToken
<1>8. QED BY <1>1, <1>2, <1>3, <1>4, <1>5, <1>6, <1>7

(* ReleaseRef at the end of Run gives back the reference of the batch. *)
LEMMA RunReleaseStep ==
  ASSUME IInv, NEW w \in Workers, RunRelease(w)
  PROVE  IInv'
<1> USE DEF IInv, RunRelease, Run, svars, wvars, evars, hvars
<1>0. /\ RunningBatches' = RunningBatches \ {w} /\ w \in RunningBatches
      /\ Cardinality(RunningBatches') = Cardinality(RunningBatches) - 1
      /\ Cardinality(RunningBatches) \in Nat
      /\ Cardinality(RunningBatches') \in Nat
  <2>1. RunningBatches' = RunningBatches \ {w} /\ w \in RunningBatches
    BY DEF RunningBatches, TypeOK
  <2>2. Cardinality(RunningBatches') = Cardinality(RunningBatches) - 1
    BY <2>1, CardFacts, FS_RemoveElement
  <2>3. Cardinality(RunningBatches') \in Nat
    BY <2>1, CardFacts, FS_RemoveElement, FS_CardinalityType
  <2>4. QED BY <2>1, <2>2, <2>3, CardFacts
<1>f. TokenRef' <=> TokenRef
  BY DEF TokenRef, TypeOK
<1>1. TypeOK'
  <2>1. refs' \in Nat
    BY <1>0 DEF RefInv, TypeOK
  <2>2. QED BY <2>1 DEF TypeOK
<1>2. OneToken'
  BY DEF TypeOK, OneToken, CallToken, RunToken
<1>3. CounterInv'
  BY DEF TypeOK, OneToken, CounterInv, Balance, HasToken, CallToken, RunToken
<1>4. BatchInv'
  BY DEF TypeOK, BatchInv, InLoop
<1>5. PlaceInv'
  BY DEF TypeOK, PlaceInv
<1>6. ArgInv'
  BY DEF TypeOK, ArgInv, Placed
<1>7. RefInv'
  BY <1>0, <1>f DEF RefInv, TypeOK
<1>8. QED BY <1>1, <1>2, <1>3, <1>4, <1>5, <1>6, <1>7

(* The executor begins to stop: nothing of the strand changes. *)
LEMMA StopBeginStep ==
  ASSUME IInv, StopBegin
  PROVE  IInv'
<1> USE DEF IInv, StopBegin, svars, wvars, evars, hvars
<1>1. TypeOK'
  BY StrandAssumption DEF TypeOK
<1>2. OneToken'
  BY DEF TypeOK, OneToken, CallToken, RunToken
<1>3. CounterInv'
  BY DEF TypeOK, OneToken, CounterInv, Balance, HasToken, CallToken, RunToken
<1>4. BatchInv'
  BY DEF TypeOK, BatchInv, InLoop
<1>5. PlaceInv'
  BY DEF TypeOK, PlaceInv
<1>6. ArgInv'
  BY DEF TypeOK, ArgInv, Placed
<1>7. RefInv'
  BY CardFacts DEF TypeOK, RefInv, TokenRef, RunningBatches, OneToken
<1>8. QED BY <1>1, <1>2, <1>3, <1>4, <1>5, <1>6, <1>7

(* The executor discards the queued strand: the token is lost. *)
LEMMA StopDisposeStep ==
  ASSUME IInv, StopDispose
  PROVE  IInv'
<1> USE DEF IInv, StopDispose, DiscardTasks, svars, wvars, evars, hvars
<1>0. /\ PlaceInv'
      /\ \A u : Placed(u)' <=> Placed(u)
      /\ stack' \in Seq(Tasks)
      /\ discarded' \subseteq Tasks
  BY DiscardPlaces
<1>1. TypeOK'
  BY <1>0 DEF TypeOK
<1>2. OneToken'
  BY DEF TypeOK, OneToken, CallToken, RunToken
<1>3. CounterInv'
  BY DEF TypeOK, OneToken, CounterInv, Balance, HasToken, CallToken, RunToken
<1>4. BatchInv'
  BY DEF TypeOK, BatchInv, InLoop
<1>5. PlaceInv'
  BY <1>0
<1>6. ArgInv'
  BY <1>0 DEF ArgInv, TypeOK
<1>7. RefInv'
  BY CardFacts DEF TypeOK, RefInv, TokenRef, RunningBatches, OneToken
<1>8. QED BY <1>1, <1>2, <1>3, <1>4, <1>5, <1>6, <1>7

(* The executor has stopped: nothing of the strand changes. *)
LEMMA StopEndStep ==
  ASSUME IInv, StopEnd
  PROVE  IInv'
<1> USE DEF IInv, StopEnd, svars, wvars, evars, hvars
<1>1. TypeOK'
  BY StrandAssumption DEF TypeOK
<1>2. OneToken'
  BY DEF TypeOK, OneToken, CallToken, RunToken
<1>3. CounterInv'
  BY DEF TypeOK, OneToken, CounterInv, Balance, HasToken, CallToken, RunToken
<1>4. BatchInv'
  BY DEF TypeOK, BatchInv, InLoop
<1>5. PlaceInv'
  BY DEF TypeOK, PlaceInv
<1>6. ArgInv'
  BY DEF TypeOK, ArgInv, Placed
<1>7. RefInv'
  BY CardFacts DEF TypeOK, RefInv, TokenRef, RunningBatches, OneToken
<1>8. QED BY <1>1, <1>2, <1>3, <1>4, <1>5, <1>6, <1>7

(* ~Strand gives back the reference of the handle. *)
LEMMA DropHandleStep ==
  ASSUME IInv, DropHandle
  PROVE  IInv'
<1> USE DEF IInv, DropHandle, svars, wvars, evars, hvars
<1>1. TypeOK'
  <2>1. refs' \in Nat
    BY CardFacts DEF RefInv, TypeOK
  <2>2. QED BY <2>1 DEF TypeOK
<1>2. OneToken'
  BY DEF TypeOK, OneToken, CallToken, RunToken
<1>3. CounterInv'
  BY DEF TypeOK, OneToken, CounterInv, Balance, HasToken, CallToken, RunToken
<1>4. BatchInv'
  BY DEF TypeOK, BatchInv, InLoop
<1>5. PlaceInv'
  BY DEF TypeOK, PlaceInv
<1>6. ArgInv'
  BY DEF TypeOK, ArgInv, Placed
<1>7. RefInv'
  BY CardFacts DEF TypeOK, RefInv, TokenRef, RunningBatches, OneToken
<1>8. QED BY <1>1, <1>2, <1>3, <1>4, <1>5, <1>6, <1>7

(* A step that changes nothing. *)
LEMMA StutterStep ==
  ASSUME IInv, UNCHANGED vars
  PROVE  IInv'
BY DEF IInv, vars, svars, wvars, evars, hvars, TypeOK, OneToken, CallToken,
       RunToken, CounterInv, Balance, HasToken, BatchInv, InLoop, PlaceInv,
       ArgInv, Placed, RefInv, TokenRef, RunningBatches

(* A new strand satisfies the inductive invariant. *)
LEMMA InitInv ==
  ASSUME Init
  PROVE  IInv
<1> USE DEF Init
<1>1. /\ ToSet(<<>>) = {} /\ IsInjective(<<>>)
      /\ Cardinality({}) = 0
  BY EmptyFacts, FS_EmptySet
<1>2. TypeOK
  <2>1. Cardinality(Tasks) \in Nat /\ 0 \in 0..(CounterMod - 1)
    BY StrandAssumption, FS_CardinalityType
  <2>2. /\ {} \subseteq Tasks
        /\ <<>> \in Seq(Tasks)
    OBVIOUS
  <2>3. QED BY <2>1, <2>2 DEF TypeOK
<1>3. OneToken
  BY DEF OneToken, CallToken, RunToken
<1>4. CounterInv
  BY <1>1 DEF CounterInv, Balance, HasToken, CallToken, RunToken
<1>5. BatchInv
  BY DEF BatchInv, InLoop
<1>6. PlaceInv
  BY <1>1 DEF PlaceInv
<1>7. ArgInv
  BY DEF ArgInv
<1>8. RefInv
  <2>1. RunningBatches = {} /\ ~TokenRef
    BY DEF RunningBatches, TokenRef
  <2>2. QED BY <1>1, <2>1 DEF RefInv
<1>9. QED BY <1>2, <1>3, <1>4, <1>5, <1>6, <1>7, <1>8 DEF IInv

(* Every step of the strand preserves the inductive invariant. *)
LEMMA NextInv ==
  ASSUME IInv, [Next]_vars
  PROVE  IInv'
<1>1. ASSUME NEW th \in AllThreads, NEW t \in Tasks, ExecuteCall(th, t)
      PROVE  IInv'
  BY <1>1, ExecuteCallStep
<1>2. ASSUME NEW th \in AllThreads, ExecuteStep(th)
      PROVE  IInv'
  BY <1>2, ExecutePutStep, ExecuteCountStep, ExecuteAddRefStep,
     ExecuteScheduleStep, ExecuteDiscardStep DEF ExecuteStep
<1>3. ASSUME NEW w \in Workers, RunStep(w)
      PROVE  IInv'
  BY <1>3, RunStartStep, RunTakeAllStep, RunTaskStep, RunTaskDoneStep,
     RunSubStep, RunAddRefStep, RunScheduleStep, RunDiscardStep,
     RunReleaseStep DEF RunStep
<1>4. CASE StopBegin \/ StopStep
  BY <1>4, StopBeginStep, StopDisposeStep, StopEndStep DEF StopStep
<1>5. CASE DropHandle
  BY <1>5, DropHandleStep
<1>6. CASE UNCHANGED vars
  BY <1>6, StutterStep
<1>7. QED BY <1>1, <1>2, <1>3, <1>4, <1>5, <1>6 DEF Next

(* The inductive invariant holds in every behaviour of the strand. *)
THEOREM Invariance == Spec => []IInv
<1>1. Init => IInv
  BY InitInv
<1>2. IInv /\ [Next]_vars => IInv'
  BY NextInv
<1>3. QED BY <1>1, <1>2, PTL DEF Spec

(* Every variable keeps its type; in particular counter_ stays a size_t    *)
(* and the reference count never becomes negative.                         *)
THEOREM TypeCorrect == Spec => []TypeOK
<1>1. IInv => TypeOK
  BY DEF IInv
<1>2. QED BY <1>1, Invariance, PTL

(* The tasks of a strand exclude each other: at most one worker is inside  *)
(* the loop of StrandImpl::Run.                                            *)
THEOREM MutualExclusionHolds == Spec => []MutualExclusion
<1>1. IInv => MutualExclusion
  BY DEF IInv, OneToken, RunToken, MutualExclusion, InBatch
<1>2. QED BY <1>1, Invariance, PTL

(* The strand is never linked twice in the queue of its executor, nor      *)
(* while one of its batches runs.                                          *)
THEOREM LinkedOnceHolds == Spec => []LinkedOnce
<1>1. IInv => LinkedOnce
  BY DEF IInv, OneToken, RunToken, LinkedOnce, InBatch
<1>2. QED BY <1>1, Invariance, PTL

(* TakeAll never returns an empty list: the balance is positive, so some   *)
(* counted task has not been run, and it can only be in the stack.         *)
THEOREM NoEmptyBatchHolds == Spec => []NoEmptyBatch
<1>1. ASSUME IInv, NEW w \in Workers, run[w] = "takeall"
      PROVE  stack /= <<>>
  <2>1. HasToken /\ ~dropped /\ RunToken(w)
    BY <1>1 DEF IInv, OneToken, HasToken, RunToken
  <2>2. Balance >= 1
    BY <1>1, <2>1 DEF IInv, CounterInv
  <2>3. \A v \in Workers : ~InLoop(v)
    BY <1>1, <2>1 DEF IInv, OneToken, RunToken, InLoop
  <2>4. /\ taken = ran
        /\ \A v \in Workers : active[v] = None /\ ToSet(items[v]) = {}
    BY <1>1, <2>3, EmptyFacts DEF IInv, BatchInv, InLoop
  <2>5. PICK t \in counted : t \notin ran
    <3>1. SUFFICES ASSUME counted \subseteq ran PROVE FALSE
      OBVIOUS
    <3>2. IsFiniteSet(ran) /\ Cardinality(ran) \in Int
          /\ Cardinality(counted) \in Int
      BY <1>1, CardFacts DEF IInv, TypeOK
    <3>3. Cardinality(counted) <= Cardinality(ran)
      BY <3>1, <3>2, FS_Subset
    <3>4. QED BY <2>2, <2>4, <3>2, <3>3 DEF Balance
  <2>6. Placed(t) /\ t \in Tasks /\ discarded = {}
    BY <1>1, <2>1 DEF IInv, ArgInv, PlaceInv, TypeOK
  <2>7. t \in ToSet(stack)
    BY <2>4, <2>5, <2>6, StrandAssumption DEF Placed
  <2>8. QED
    BY <2>7, EmptyFacts
<1>2. IInv => NoEmptyBatch
  BY <1>1 DEF NoEmptyBatch
<1>3. QED BY <1>2, Invariance, PTL

(* The StrandImpl is not deleted while a thread or the executor uses it. *)
THEOREM NoUseAfterFreeHolds == Spec => []NoUseAfterFree
<1>1. ASSUME IInv, InUse
      PROVE  refs > 0
  <2>1. /\ Cardinality(RunningBatches) \in Nat /\ IsFiniteSet(RunningBatches)
        /\ refs = (IF handle THEN 1 ELSE 0) + (IF TokenRef THEN 1 ELSE 0)
                   + Cardinality(RunningBatches)
    BY <1>1, CardFacts DEF IInv, RefInv
  <2>2. CASE queued > 0
    <3>1. TokenRef
      BY <1>1, <2>2 DEF IInv, OneToken, TokenRef
    <3>2. QED BY <2>1, <3>1
  <2>3. CASE \E th \in AllThreads : call[th] /= "out"
    <3>1. handle
      BY <1>1, <2>3 DEF IInv, RefInv
    <3>2. QED BY <2>1, <3>1
  <2>4. CASE \E w \in Workers : run[w] /= "idle"
    <3>1. RunningBatches /= {}
      BY <2>4 DEF RunningBatches
    <3>2. Cardinality(RunningBatches) /= 0
      BY <2>1, <3>1, FS_EmptySet
    <3>3. QED BY <2>1, <3>2
  <2>5. QED BY <1>1, <2>2, <2>3, <2>4 DEF InUse
<1>2. IInv => NoUseAfterFree
  BY <1>1 DEF NoUseAfterFree
<1>3. QED BY <1>2, Invariance, PTL

(* A dropped strand that nobody uses any more has been deleted, unless its *)
(* executor discarded it.                                                  *)
THEOREM NoLeakHolds == Spec => []NoLeak
<1>1. ASSUME IInv, ~handle, ~InUse, ~dropped
      PROVE  refs = 0
  <2>1. RunningBatches = {} /\ ~TokenRef
    BY <1>1 DEF IInv, OneToken, InUse, RunningBatches, TokenRef
  <2>2. Cardinality(RunningBatches) = 0
    BY <2>1, FS_EmptySet
  <2>3. QED BY <1>1, <2>1, <2>2 DEF IInv, RefInv
<1>2. IInv => NoLeak
  BY <1>1 DEF NoLeak
<1>3. QED BY <1>2, Invariance, PTL

----------------------------------------------------------------------------
(* The strand implements the serial executor. *)

(* The batch is what the worker inside the loop of Run still has to do,    *)
(* the active task the one of the worker that runs a task                  *)
Seen ==
  /\ \A w \in Workers : InLoop(w) => Batch = items[w]
  /\ (\A w \in Workers : ~InLoop(w)) => Batch = <<>>
  /\ Batch \in Seq(Tasks)
  /\ \A w \in Workers : run[w] = "task" => Active = active[w] /\ active[w] /= None
  /\ (\A w \in Workers : run[w] /= "task") => Active = None

LEMMA SeenFacts == IInv => Seen
<1> SUFFICES ASSUME IInv PROVE Seen
  OBVIOUS
<1>1. \A v, w \in Workers : InBatch(v) /\ InBatch(w) => v = w
  BY DEF IInv, OneToken, InBatch, RunToken
<1>2. \A w \in Workers : InLoop(w) => InBatch(w)
  BY DEF InLoop, InBatch
<1>3. \A w \in Workers : InBatch(w) => Batch = items[w]
  BY <1>1 DEF Batch
<1>4. (\A w \in Workers : ~InBatch(w)) => Batch = <<>>
  BY DEF Batch
<1>5. \A w \in Workers : ~InLoop(w) => items[w] = <<>>
  BY DEF IInv, BatchInv
<1>6. Batch \in Seq(Tasks)
  <2>1. \A w \in Workers : items[w] \in Seq(Tasks)
    BY DEF IInv, TypeOK
  <2>2. <<>> \in Seq(Tasks)
    OBVIOUS
  <2>3. QED BY <1>3, <1>4, <2>1, <2>2
<1>7. \A w \in Workers : active[w] /= None <=> run[w] = "task"
  BY DEF IInv, BatchInv
<1>8. \A v, w \in Workers : run[v] = "task" /\ run[w] = "task" => v = w
  BY DEF IInv, OneToken, RunToken
<1>9. /\ \A w \in Workers : run[w] = "task" => Active = active[w] /\ active[w] /= None
      /\ (\A w \in Workers : run[w] /= "task") => Active = None
  BY <1>7, <1>8 DEF Active
<1>10. QED BY <1>2, <1>3, <1>4, <1>5, <1>6, <1>9 DEF Seen

LEMMA SeenNext == IInv' => Seen'
BY SeenFacts, PTL

(* A step that enters and leaves no loop of Run *)
LEMMA SameBatch ==
  ASSUME IInv, IInv', items' = items, active' = active,
         \A w \in Workers : InLoop(w)' <=> InLoop(w)
  PROVE  Batch' = Batch /\ Active' = Active
<1>1. Seen /\ Seen'
  BY SeenFacts, SeenNext
<1>2. Batch' = Batch
  <2>1. CASE \E w \in Workers : InLoop(w)
    <3>1. PICK w \in Workers : InLoop(w)
      BY <2>1
    <3>2. Batch = items[w] /\ Batch' = items'[w]
      BY <1>1, <3>1 DEF Seen
    <3>3. QED BY <3>2
  <2>2. CASE \A w \in Workers : ~InLoop(w)
    BY <1>1, <2>2 DEF Seen
  <2>3. QED BY <2>1, <2>2
<1>3. Active' = Active
  BY DEF Active
<1>4. QED BY <1>2, <1>3

(* The tasks that are on their way to the stack *)
Putting == {arg[th] : th \in {x \in AllThreads : call[x] = "put"}}

LEMMA SamePutting ==
  ASSUME arg' = arg,
         \A th \in AllThreads : call'[th] = "put" <=> call[th] = "put"
  PROVE  Putting' = Putting
BY DEF Putting

(* What the serial executor sees stays the same *)
Unseen ==
  /\ Batch' \o Reverse(stack') = Batch \o Reverse(stack)
  /\ Active' = Active
  /\ Accepted' = Accepted

(* Execute is entered: the task is not accepted before Put. *)
LEMMA CallUnseen ==
  ASSUME IInv, IInv', NEW th \in AllThreads, NEW t \in Tasks, ExecuteCall(th, t)
  PROVE  Unseen
<1>1. /\ call[th] = "out" /\ t \notin submitted /\ submitted' = submitted \cup {t}
      /\ call' = [call EXCEPT ![th] = "put"] /\ arg' = [arg EXCEPT ![th] = t]
      /\ UNCHANGED <<stack, items, active, run>>
  BY DEF ExecuteCall, Call, svars, wvars
<1>2. Batch' = Batch /\ Active' = Active
  BY <1>1, SameBatch DEF InLoop
<1>3. Putting' = Putting \cup {t}
  <2>1. \A x \in AllThreads : x /= th => call'[x] = call[x] /\ arg'[x] = arg[x]
    BY <1>1 DEF IInv, TypeOK
  <2>2. call'[th] = "put" /\ arg'[th] = t
    BY <1>1 DEF IInv, TypeOK
  <2>3. QED BY <1>1, <2>1, <2>2 DEF Putting
<1>4. Accepted' = Accepted
  BY <1>1, <1>3 DEF Accepted, Putting
<1>5. QED BY <1>1, <1>2, <1>4 DEF Unseen

(* Put links the task behind those accepted before. *)
LEMMA PutIsAccept ==
  ASSUME IInv, IInv', NEW th \in AllThreads, ExecutePut(th)
  PROVE  Serial!Next
<1>1. /\ call[th] = "put" /\ stack' = <<arg[th]>> \o stack
      /\ call' = [call EXCEPT ![th] = "count"]
      /\ UNCHANGED <<arg, items, active, run, submitted>>
  BY DEF ExecutePut, Call, svars, wvars, hvars
<1>2. PICK x \in Tasks : x = arg[th]
  BY <1>1 DEF IInv, ArgInv, TypeOK
<1>3. x \in submitted /\ \A u \in AllThreads : call[u] = "put" /\ arg[u] = x => u = th
  BY <1>1, <1>2 DEF IInv, ArgInv
<1>4. Batch' = Batch /\ Active' = Active
  BY <1>1, SameBatch DEF InLoop
<1>5. Putting' = Putting \ {x} /\ x \in Putting
  <2>1. \A u \in AllThreads : u /= th => call'[u] = call[u]
    BY <1>1 DEF IInv, TypeOK
  <2>2. call'[th] = "count"
    BY <1>1 DEF IInv, TypeOK
  <2>3. QED BY <1>1, <1>2, <1>3, <2>1, <2>2 DEF Putting
<1>6. Accepted' = Accepted \cup {x} /\ x \notin Accepted
  BY <1>1, <1>3, <1>5 DEF Accepted, Putting
<1>7. stack \in Seq(Tasks) /\ Batch \in Seq(Tasks)
  BY SeenFacts DEF IInv, TypeOK, Seen
<1>8. Reverse(stack') = Append(Reverse(stack), x) /\ Reverse(stack) \in Seq(Tasks)
  BY <1>1, <1>2, <1>7, ReversePush, ReverseFacts
<1>9. Batch' \o Reverse(stack') = Append(Batch \o Reverse(stack), x)
  BY <1>4, <1>7, <1>8, ConcatAppend
<1>10. Serial!Accept(x)
  BY <1>4, <1>6, <1>9 DEF Serial!Accept
<1>11. QED BY <1>10 DEF Serial!Next

(* TakeAll: the new batch is the old stack reversed. *)
LEMMA TakeAllUnseen ==
  ASSUME IInv, IInv', NEW w \in Workers, RunTakeAll(w)
  PROVE  Unseen
<1>1. /\ run[w] = "takeall" /\ items' = [items EXCEPT ![w] = Reverse(stack)]
      /\ stack' = <<>> /\ run' = [run EXCEPT ![w] = "loop"]
      /\ UNCHANGED <<call, arg, active, submitted>>
  BY DEF RunTakeAll, Run, hvars
<1>2. Seen /\ Seen'
  BY SeenFacts, SeenNext
<1>3. run'[w] = "loop" /\ items'[w] = Reverse(stack)
  BY <1>1 DEF IInv, TypeOK
<1>4. \A v \in Workers : ~InLoop(v)
  BY <1>1 DEF IInv, OneToken, RunToken, InLoop
<1>5. Batch = <<>> /\ Batch' = Reverse(stack)
  BY <1>2, <1>3, <1>4 DEF Seen, InLoop
<1>6. stack \in Seq(Tasks)
  BY DEF IInv, TypeOK
<1>7. Reverse(stack) \in Seq(Tasks)
  BY <1>6, ReverseFacts
<1>8. Reverse(stack') = <<>>
  BY <1>1, ReverseEmpty
<1>9. Batch' \o Reverse(stack') = Batch \o Reverse(stack)
  BY <1>5, <1>7, <1>8, ConcatEmptySeq
<1>10. Active' = Active
  BY <1>1 DEF Active
<1>11. Accepted' = Accepted
  BY <1>1 DEF Accepted
<1>12. QED BY <1>9, <1>10, <1>11 DEF Unseen

(* The next task of the batch is the one that was accepted first. *)
LEMMA TaskIsStart ==
  ASSUME IInv, IInv', NEW w \in Workers, RunTask(w)
  PROVE  Serial!Next
<1>1. /\ run[w] = "loop" /\ items[w] /= <<>>
      /\ active' = [active EXCEPT ![w] = Head(items[w])]
      /\ items' = [items EXCEPT ![w] = Tail(items[w])]
      /\ run' = [run EXCEPT ![w] = "task"]
      /\ UNCHANGED <<stack, call, arg, submitted>>
  BY DEF RunTask, Run, svars, hvars
<1>2. Seen /\ Seen'
  BY SeenFacts, SeenNext
<1>3. /\ run'[w] = "task" /\ items'[w] = Tail(items[w])
      /\ active'[w] = Head(items[w])
  BY <1>1 DEF IInv, TypeOK
<1>4. \A v \in Workers : run[v] /= "task"
  BY <1>1 DEF IInv, OneToken, RunToken
<1>5. Batch = items[w] /\ Batch' = Tail(items[w])
  BY <1>1, <1>2, <1>3 DEF Seen, InLoop
<1>6. Active = None /\ Active' = Head(items[w])
  BY <1>2, <1>3, <1>4 DEF Seen
<1>7. stack \in Seq(Tasks) /\ items[w] \in Seq(Tasks)
  BY DEF IInv, TypeOK
<1>8. Reverse(stack) \in Seq(Tasks)
  BY <1>7, ReverseFacts
<1>9. /\ Batch \o Reverse(stack) /= <<>>
      /\ Head(Batch \o Reverse(stack)) = Head(items[w])
      /\ Tail(Batch \o Reverse(stack)) = Batch' \o Reverse(stack')
  BY <1>1, <1>5, <1>7, <1>8, ConcatHeadTail
<1>10. Accepted' = Accepted
  BY <1>1 DEF Accepted
<1>11. Serial!Start
  BY <1>6, <1>9, <1>10 DEF Serial!Start
<1>12. QED BY <1>11 DEF Serial!Next

(* A task returns before the next one starts. *)
LEMMA DoneIsFinish ==
  ASSUME IInv, IInv', NEW w \in Workers, RunTaskDone(w)
  PROVE  Serial!Next
<1>1. /\ run[w] = "task" /\ active' = [active EXCEPT ![w] = None]
      /\ run' = [run EXCEPT ![w] = "loop"]
      /\ UNCHANGED <<stack, items, call, arg, submitted>>
  BY DEF RunTaskDone, Run, svars
<1>2. Seen /\ Seen'
  BY SeenFacts, SeenNext
<1>3. run'[w] = "loop" /\ \A v \in Workers : v /= w => run'[v] = run[v]
  BY <1>1 DEF IInv, TypeOK
<1>4. \A v \in Workers : run'[v] /= "task"
  BY <1>1, <1>3 DEF IInv, OneToken, RunToken
<1>5. Active /= None /\ Active' = None
  BY <1>1, <1>2, <1>4 DEF Seen
<1>6. Batch' = Batch
  BY <1>1, <1>2, <1>3 DEF Seen, InLoop
<1>7. Accepted' = Accepted
  BY <1>1 DEF Accepted
<1>8. Serial!Finish
  BY <1>1, <1>5, <1>6, <1>7 DEF Serial!Finish
<1>9. QED BY <1>8 DEF Serial!Next

(* Discard throws away what waits, when no batch is being executed. *)
LEMMA DiscardIsDiscardAll ==
  ASSUME IInv, IInv', DiscardTasks,
         \A w \in Workers : ~InLoop(w) /\ ~InLoop(w)',
         arg' = arg,
         \A th \in AllThreads : call'[th] = "put" <=> call[th] = "put"
  PROVE  Serial!Next
<1>1. stack' = <<>> /\ submitted' = submitted
  BY DEF DiscardTasks
<1>2. Seen /\ Seen'
  BY SeenFacts, SeenNext
<1>3. Batch' = <<>> /\ Active = None /\ Active' = None
  BY <1>2 DEF Seen, InLoop
<1>4. Batch' \o Reverse(stack') = <<>>
  BY <1>1, <1>3, ReverseEmpty
<1>5. Accepted' = Accepted
  BY <1>1, SamePutting DEF Accepted, Putting
<1>6. Serial!DiscardAll
  BY <1>3, <1>4, <1>5 DEF Serial!DiscardAll
<1>7. QED BY <1>6 DEF Serial!Next

(* All other steps are not seen from outside. *)
LEMMA QuietUnseen ==
  ASSUME IInv, IInv', UNCHANGED <<stack, items, active, submitted, arg>>,
         \A th \in AllThreads : call'[th] = "put" <=> call[th] = "put",
         \A w \in Workers : InLoop(w)' <=> InLoop(w)
  PROVE  Unseen
<1>1. Batch' = Batch /\ Active' = Active
  BY SameBatch
<1>2. Accepted' = Accepted
  BY SamePutting DEF Accepted, Putting
<1>3. QED BY <1>1, <1>2 DEF Unseen

(* fetch_sub ends a batch that has nothing left. *)
LEMMA SubUnseen ==
  ASSUME IInv, IInv', NEW w \in Workers, RunSub(w)
  PROVE  Unseen
<1>1. /\ run[w] = "loop" /\ items[w] = <<>>
      /\ run' = [run EXCEPT ![w] = IF counter > completed[w] THEN "addref" ELSE "release"]
      /\ UNCHANGED <<stack, items, active, call, arg, submitted>>
  BY DEF RunSub, Run
<1>2. Seen /\ Seen'
  BY SeenFacts, SeenNext
<1>3. run'[w] \in {"addref", "release"} /\ \A v \in Workers : v /= w => run'[v] = run[v]
  BY <1>1 DEF IInv, TypeOK
<1>4. \A v \in Workers : ~InLoop(v)'
  BY <1>1, <1>3 DEF IInv, OneToken, RunToken, InLoop
<1>5. Batch = <<>> /\ Batch' = <<>>
  BY <1>1, <1>2, <1>4 DEF Seen, InLoop
<1>6. Active' = Active /\ Accepted' = Accepted
  BY <1>1 DEF Active, Accepted
<1>7. QED BY <1>1, <1>5, <1>6 DEF Unseen

(* Every step of the strand is a step of the serial executor or none. *)
LEMMA NextRefines ==
  ASSUME IInv, IInv', [Next]_vars
  PROVE  Serial!Next \/ Unseen
<1>1. ASSUME NEW th \in AllThreads, NEW t \in Tasks, ExecuteCall(th, t)
      PROVE  Unseen
  BY <1>1, CallUnseen
<1>2. ASSUME NEW th \in AllThreads, ExecuteStep(th)
      PROVE  Serial!Next \/ Unseen
  <2>1. CASE ExecutePut(th)
    BY <2>1, PutIsAccept
  <2>2. CASE ExecuteCount(th) \/ ExecuteAddRef(th) \/ ExecuteSchedule(th)
    <3>1. UNCHANGED <<stack, items, active, run, submitted, arg>>
      BY <2>2 DEF ExecuteCount, ExecuteAddRef, ExecuteSchedule, svars, wvars, hvars
    <3>2. \A u \in AllThreads : call'[u] = "put" <=> call[u] = "put"
      BY <2>2 DEF ExecuteCount, ExecuteAddRef, ExecuteSchedule, Call, IInv, TypeOK
    <3>3. \A w \in Workers : InLoop(w)' <=> InLoop(w)
      BY <3>1 DEF InLoop
    <3>4. QED BY <3>1, <3>2, <3>3, QuietUnseen
  <2>3. CASE ExecuteDiscard(th)
    <3>1. DiscardTasks /\ UNCHANGED <<arg, run>> /\ call[th] = "discard"
      BY <2>3 DEF ExecuteDiscard, wvars
    <3>2. \A w \in Workers : ~InLoop(w) /\ ~InLoop(w)'
      BY <3>1 DEF IInv, OneToken, CallToken, RunToken, InLoop
    <3>3. \A u \in AllThreads : call'[u] = "put" <=> call[u] = "put"
      BY <2>3 DEF ExecuteDiscard, Call, IInv, TypeOK
    <3>4. QED BY <3>1, <3>2, <3>3, DiscardIsDiscardAll
  <2>4. QED BY <1>2, <2>1, <2>2, <2>3 DEF ExecuteStep
<1>3. ASSUME NEW w \in Workers, RunStep(w)
      PROVE  Serial!Next \/ Unseen
  <2>1. CASE RunTakeAll(w) \/ RunTask(w) \/ RunTaskDone(w) \/ RunSub(w)
    BY <2>1, TakeAllUnseen, TaskIsStart, DoneIsFinish, SubUnseen
  <2>2. CASE RunStart(w) \/ RunAddRef(w) \/ RunSchedule(w) \/ RunRelease(w)
    <3>1. UNCHANGED <<stack, items, active, call, submitted, arg>>
      BY <2>2 DEF RunStart, RunAddRef, RunSchedule, RunRelease, svars, hvars
    <3>2. \A v \in Workers : InLoop(v)' <=> InLoop(v)
      BY <2>2 DEF RunStart, RunAddRef, RunSchedule, RunRelease, Run, InLoop,
                  IInv, TypeOK
    <3>3. QED BY <3>1, <3>2, QuietUnseen
  <2>3. CASE RunDiscard(w)
    <3>1. /\ DiscardTasks /\ UNCHANGED <<arg, call>> /\ run[w] = "discard"
          /\ run' = [run EXCEPT ![w] = "release"]
      BY <2>3 DEF RunDiscard, Run
    <3>2. \A v \in Workers : ~InLoop(v)
      BY <3>1 DEF IInv, OneToken, RunToken, InLoop
    <3>3. \A v \in Workers : ~InLoop(v)'
      BY <3>1, <3>2 DEF InLoop, IInv, TypeOK
    <3>4. QED BY <3>1, <3>2, <3>3, DiscardIsDiscardAll
  <2>4. QED BY <1>3, <2>1, <2>2, <2>3 DEF RunStep
<1>4. CASE StopBegin \/ StopEnd \/ DropHandle
  <2>1. UNCHANGED <<stack, items, active, run, call, submitted, arg>>
    BY <1>4 DEF StopBegin, StopEnd, DropHandle, svars, wvars, hvars
  <2>2. \A v \in Workers : InLoop(v)' <=> InLoop(v)
    BY <2>1 DEF InLoop
  <2>3. QED BY <2>1, <2>2, QuietUnseen
<1>5. CASE StopDispose
  <2>1. DiscardTasks /\ UNCHANGED <<arg, call, run>> /\ queued > 0
    BY <1>5 DEF StopDispose, wvars
  <2>2. queued = 1
    BY <2>1 DEF IInv, OneToken
  <2>3. \A v \in Workers : ~InLoop(v) /\ ~InLoop(v)'
    BY <2>1, <2>2 DEF IInv, OneToken, RunToken, InLoop
  <2>4. QED BY <2>1, <2>3, DiscardIsDiscardAll
<1>6. CASE UNCHANGED vars
  BY <1>6 DEF vars, svars, wvars, hvars, Unseen, Batch, InBatch, Active, Accepted
<1>7. QED BY <1>1, <1>2, <1>3, <1>4, <1>5, <1>6 DEF Next, StopStep

(* The tasks of a strand start one at a time, in the order in which Put    *)
(* linked them, each of them once, whatever workers execute the batches    *)
(* and whatever Execute, Run and Discard interleave to.                    *)
THEOREM Refinement == Spec => ImplementsSerialExecutor
<1>1. Init => Serial!Init
  <2> SUFFICES ASSUME Init PROVE Serial!Init
    OBVIOUS
  <2>1. Batch = <<>> /\ Active = None
    BY DEF Init, Batch, Active, InBatch
  <2>2. Reverse(stack) = <<>>
    BY ReverseEmpty DEF Init
  <2>3. Accepted = {}
    BY DEF Init, Accepted
  <2>4. QED BY <2>1, <2>2, <2>3 DEF Serial!Init
<1>2. IInv /\ IInv' /\ [Next]_vars
        => [Serial!Next]_<<Batch \o Reverse(stack), Active, Accepted>>
  BY NextRefines DEF Unseen
<1>3. QED BY <1>1, <1>2, Invariance, PTL
          DEF Spec, ImplementsSerialExecutor, Serial!Spec
=============================================================================
