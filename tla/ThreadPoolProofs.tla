-------------------------- MODULE ThreadPoolProofs --------------------------
(***************************************************************************)
(* Proofs about ThreadPool for every set of workers, clients and tasks.    *)
(*                                                                         *)
(* The argument.  A task that is counted and not yet uncounted (live) is   *)
(* in exactly one place: in the queue, in the hands of the thread that     *)
(* executes Execute, Close or Done for it, or running.  The counter is the *)
(* number of live tasks, and a submitted task that is not live has had     *)
(* exactly one of Run and Discard.                                         *)
(***************************************************************************)
EXTENDS ThreadPool, SequenceFacts, FiniteSetTheorems

(* the worker is inside task->Run(), possibly in an Execute called by it *)
InTask(w) ==
  \/ pc[w] \in {"running", "put", "refused"}
  \/ pc[w] \in {"done", "notify"} /\ ret[w] = "running"

(* the owner is inside CloseImpl, possibly in the disposer *)
InClose ==
  \/ pc[Owner] = "closing"
  \/ pc[Owner] \in {"done", "notify"} /\ ret[Owner] = "closing"

PcInv ==
  /\ \A w \in Workers :
       /\ pc[w] \in {"take", "running", "exited", "put", "refused", "done",
                     "notify"}
       /\ pc[w] \in {"done", "notify"} => ret[w] \in {"take", "running"}
       /\ InTask(w) <=> cur[w] /= None
  /\ \A c \in Clients :
       /\ pc[c] \in {"idle", "put", "refused", "done", "notify", "wz_lock",
                     "wz_load", "wz_wait", "closing", "joining"}
       /\ pc[c] \in {"done", "notify"} => ret[c] \in {"idle", "closing"}
  /\ qlock = Owner <=> InClose

CloseInv ==
  /\ closed => items = <<>>
  /\ pc[Owner] = "joining" => closed
  /\ stopped => closed /\ \A w \in Workers : pc[w] = "exited"

(* the thread holds a task of its own in arg *)
HasArg(th) == pc[th] \in {"put", "refused", "done"}

CountInv ==
  /\ counter = Cardinality(live)
  /\ live \subseteq submitted

PlaceInv ==
  /\ IsInjective(items)
  /\ ToSet(items) \subseteq live
  /\ \A th \in PoolThreads :
       HasArg(th) => /\ arg[th] \in live \ ToSet(items)
                     /\ \A w \in Workers : cur[w] /= arg[th]
  /\ \A a, b \in PoolThreads :
       HasArg(a) /\ HasArg(b) /\ arg[a] = arg[b] => a = b
  /\ \A w \in Workers : cur[w] /= None => cur[w] \in live \ ToSet(items)
  /\ \A v, w \in Workers : cur[v] /= None /\ cur[v] = cur[w] => v = w

(* a live task is in one of these places *)
LocatedInv ==
  \A t \in live :
    \/ t \in ToSet(items)
    \/ \E th \in PoolThreads : HasArg(th) /\ arg[th] = t
    \/ \E w \in Workers : cur[w] = t

Untouched(t) == runs[t] = 0 /\ discards[t] = 0
Once(t) == runs[t] + discards[t] = 1

HistoryInv ==
  /\ \A t \in Tasks \ submitted : Untouched(t)
  /\ \A t \in ToSet(items) : Untouched(t)
  /\ \A th \in PoolThreads :
       /\ pc[th] \in {"put", "refused"} => Untouched(arg[th])
       /\ pc[th] = "done" => Once(arg[th])
  /\ \A w \in Workers :
       cur[w] /= None => runs[cur[w]] = 1 /\ discards[cur[w]] = 0
  /\ \A t \in submitted \ live : Once(t)

SpawnInv ==
  /\ \A t \in Tasks : runs[t] > 0 /\ ~Running(t) => Spawn[t] \subseteq submitted
  /\ \A c \in Clients : before[c] \subseteq submitted

IInv ==
  /\ TypeOK
  /\ PcInv
  /\ CloseInv
  /\ CountInv
  /\ PlaceInv
  /\ LocatedInv
  /\ HistoryInv
  /\ SpawnInv

(* What the assumptions say about the threads of the pool. *)
LEMMA ThreadFacts ==
  /\ Workers \cap Clients = {} /\ Owner \in Clients /\ Owner \in PoolThreads
  /\ Workers \subseteq PoolThreads /\ Clients \subseteq PoolThreads
  /\ Owner \notin Workers /\ Owner /= None
  /\ None \notin Tasks /\ None \notin PoolThreads
  /\ \A th \in PoolThreads : th \in Workers \/ th \in Clients
BY PoolAssumption DEF PoolThreads

(* The live tasks are finitely many. *)
LEMMA LiveFinite ==
  ASSUME TypeOK
  PROVE  IsFiniteSet(live) /\ Cardinality(live) \in Nat
BY PoolAssumption, FS_Subset, FS_CardinalityType DEF TypeOK

(* Execute counts the new task before anybody else can see it. *)
LEMMA ExecuteAddStep ==
  ASSUME IInv, NEW th \in PoolThreads, NEW t \in Tasks, ExecuteAdd(th, t)
  PROVE  IInv'
<1> USE ThreadFacts DEF IInv, ExecuteAdd, MaySubmit, Add, Goto, qvars, cvars, tvars
<1>1. TypeOK'
  BY PoolAssumption DEF TypeOK
<1>2. PcInv'
  BY DEF TypeOK, PcInv, InTask, InClose
<1>3. CloseInv'
  BY DEF TypeOK, PcInv, CloseInv
<1>0. /\ t \notin live /\ t \notin ToSet(items)
      /\ \A w \in Workers : cur[w] /= t
      /\ \A a \in PoolThreads : HasArg(a) => arg[a] /= t
      /\ ~HasArg(th)
  BY DEF CountInv, PlaceInv, HasArg
<1>a. /\ arg'[th] = t /\ HasArg(th)'
      /\ \A a \in PoolThreads \ {th} : arg'[a] = arg[a] /\ HasArg(a)' = HasArg(a)
  BY DEF TypeOK, HasArg
<1>4. CountInv'
  <2>1. Cardinality(live') = Cardinality(live) + 1
    BY <1>0, LiveFinite, FS_AddElement
  <2>2. QED BY <2>1 DEF CountInv
<1>5. PlaceInv'
  BY <1>0, <1>a DEF PlaceInv
<1>6. LocatedInv'
  BY <1>0, <1>a DEF LocatedInv
<1>7. HistoryInv'
  BY DEF TypeOK, PlaceInv, HasArg, HistoryInv, Untouched, Once
<1>8. SpawnInv'
  BY DEF TypeOK, SpawnInv, Running
<1>9. QED BY <1>1, <1>2, <1>3, <1>4, <1>5, <1>6, <1>7, <1>8

(* Put moves the task from the submitter into the queue. *)
LEMMA ExecutePutStep ==
  ASSUME IInv, NEW th \in PoolThreads, ExecutePut(th)
  PROVE  IInv'
<1> USE ThreadFacts DEF IInv, ExecutePut, PutItem, NotifyOne, Goto, Home, qvars, cvars, tvars
<1>0. /\ arg[th] \in Tasks /\ arg[th] \in live \ ToSet(items)
      /\ \A w \in Workers : cur[w] /= arg[th]
      /\ HasArg(th) /\ Untouched(arg[th])
  BY DEF TypeOK, PlaceInv, HasArg, HistoryInv
<1>f. /\ items' \in Seq(Tasks)
      /\ ToSet(items') = ToSet(items) \cup {arg[th]}
      /\ IsInjective(items')
  BY <1>0, AppendFacts DEF TypeOK, PlaceInv
<1>a. /\ ~HasArg(th)'
      /\ \A a \in PoolThreads \ {th} : pc'[a] = pc[a] /\ HasArg(a)' = HasArg(a)
      /\ UNCHANGED <<arg, cur, live, submitted, runs, discards>>
  BY DEF TypeOK, HasArg
<1>1. TypeOK'
  <2>1. qwait' \subseteq Workers
    BY DEF TypeOK
  <2>2. QED BY <1>f, <2>1 DEF TypeOK
<1>2. PcInv'
  BY DEF TypeOK, PcInv, InTask, InClose
<1>3. CloseInv'
  BY DEF TypeOK, PcInv, CloseInv
<1>4. CountInv'
  BY DEF TypeOK, CountInv
<1>5. PlaceInv'
  BY <1>0, <1>f, <1>a DEF PlaceInv
<1>6. LocatedInv'
  BY <1>0, <1>f, <1>a DEF LocatedInv
<1>7. HistoryInv'
  <2>1. pc'[th] \notin {"put", "refused", "done"}
    BY <1>a DEF HasArg
  <2>2. QED BY <1>0, <1>f, <1>a, <2>1 DEF HistoryInv, Untouched, Once
<1>8. SpawnInv'
  BY DEF TypeOK, SpawnInv, Running
<1>9. QED BY <1>1, <1>2, <1>3, <1>4, <1>5, <1>6, <1>7, <1>8

(* Put refuses: the task stays with its submitter. *)
LEMMA ExecuteRefusedStep ==
  ASSUME IInv, NEW th \in PoolThreads, ExecuteRefused(th)
  PROVE  IInv'
<1> USE ThreadFacts DEF IInv, ExecuteRefused, PutRefused, Goto, qvars, cvars, tvars
<1>1. TypeOK'
  BY PoolAssumption DEF TypeOK
<1>2. PcInv'
  BY DEF TypeOK, PcInv, InTask, InClose
<1>3. CloseInv'
  BY DEF TypeOK, PcInv, CloseInv
<1>4. CountInv'
  BY DEF TypeOK, CountInv
<1>5. PlaceInv'
  BY DEF TypeOK, PlaceInv, HasArg
<1>6. LocatedInv'
  BY DEF TypeOK, LocatedInv, HasArg
<1>7. HistoryInv'
  BY DEF TypeOK, PlaceInv, HasArg, HistoryInv, Untouched, Once
<1>8. SpawnInv'
  BY DEF TypeOK, SpawnInv, Running
<1>9. QED BY <1>1, <1>2, <1>3, <1>4, <1>5, <1>6, <1>7, <1>8

(* The refused task is discarded, once, and still counted. *)
LEMMA ExecuteDiscardStep ==
  ASSUME IInv, NEW th \in PoolThreads, ExecuteDiscard(th)
  PROVE  IInv'
<1> USE ThreadFacts DEF IInv, ExecuteDiscard, Goto, Home, qvars, cvars, tvars
<1>0. /\ arg[th] \in Tasks /\ arg[th] \in live \ ToSet(items)
      /\ \A w \in Workers : cur[w] /= arg[th]
      /\ \A a \in PoolThreads \ {th} : HasArg(a) => arg[a] /= arg[th]
      /\ HasArg(th) /\ Untouched(arg[th]) /\ arg[th] \in submitted
  BY DEF TypeOK, PlaceInv, HasArg, HistoryInv, CountInv
<1>f. /\ discards' \in [Tasks -> Nat]
      /\ discards'[arg[th]] = 1
      /\ \A t \in Tasks \ {arg[th]} : discards'[t] = discards[t]
  BY <1>0 DEF TypeOK, Untouched
<1>1. TypeOK'
  BY <1>f DEF TypeOK
<1>2. PcInv'
  BY DEF TypeOK, PcInv, InTask, InClose
<1>3. CloseInv'
  BY DEF TypeOK, PcInv, CloseInv
<1>4. CountInv'
  BY DEF TypeOK, CountInv
<1>5. PlaceInv'
  BY DEF TypeOK, PlaceInv, HasArg
<1>6. LocatedInv'
  BY DEF TypeOK, LocatedInv, HasArg
<1>7. HistoryInv'
  <2>1. /\ \A t \in Tasks \ {arg[th]} :
             (Untouched(t)' <=> Untouched(t)) /\ (Once(t)' <=> Once(t))
        /\ Once(arg[th])'
    BY <1>0, <1>f DEF Untouched, Once, TypeOK
  <2>2. pc'[th] = "done" /\ \A a \in PoolThreads \ {th} : pc'[a] = pc[a]
    BY DEF TypeOK
  <2>3. \A a \in PoolThreads : HasArg(a) => arg[a] \in Tasks
    BY DEF PlaceInv, TypeOK
  <2>4. \A a \in PoolThreads \ {th} :
          /\ pc'[a] \in {"put", "refused"} => Untouched(arg[a])'
          /\ pc'[a] = "done" => Once(arg[a])'
    BY <1>0, <2>1, <2>2, <2>3 DEF HistoryInv, HasArg
  <2>5. \A w \in Workers :
          cur[w] /= None => runs[cur[w]] = 1 /\ discards'[cur[w]] = 0
    BY <1>0, <1>f DEF HistoryInv, PlaceInv, TypeOK
  <2>6. UNCHANGED <<submitted, live, items, cur, arg, runs>>
    OBVIOUS
  <2>7. \A t \in ToSet(items) : Untouched(t)'
    BY <1>0, <2>1 DEF HistoryInv, PlaceInv, TypeOK
  <2>8. \A t \in Tasks \ submitted : Untouched(t)'
    BY <1>0, <2>1 DEF HistoryInv
  <2>9. \A t \in submitted \ live : Once(t)'
    BY <1>0, <2>1 DEF HistoryInv, TypeOK
  <2>10. QED BY <2>1, <2>2, <2>4, <2>5, <2>6, <2>7, <2>8, <2>9 DEF HistoryInv
<1>8. SpawnInv'
  BY DEF TypeOK, SpawnInv, Running
<1>9. QED BY <1>1, <1>2, <1>3, <1>4, <1>5, <1>6, <1>7, <1>8

(* Done takes the resolved task out of the live ones. *)
LEMMA CounterDoneStep ==
  ASSUME IInv, NEW th \in PoolThreads, CounterDone(th)
  PROVE  IInv'
<1> USE ThreadFacts DEF IInv, CounterDone, DoneSub, LastDone, Goto, qvars, cvars, tvars
<1>0. /\ arg[th] \in Tasks /\ arg[th] \in live \ ToSet(items)
      /\ \A w \in Workers : cur[w] /= arg[th]
      /\ \A a \in PoolThreads \ {th} : HasArg(a) => arg[a] /= arg[th]
      /\ HasArg(th) /\ Once(arg[th])
      /\ ret[th] \in {"idle", "running", "take", "closing"}
  BY DEF TypeOK, PlaceInv, HasArg, HistoryInv
<1>f. /\ counter' = Cardinality(live') /\ counter' \in Nat
      /\ live' \subseteq live
  <2>1. /\ IsFiniteSet(live') /\ Cardinality(live') = Cardinality(live) - 1
    BY <1>0, LiveFinite, FS_RemoveElement
  <2>2. Cardinality(live') \in Nat
    BY <2>1, FS_CardinalityType
  <2>3. QED BY <2>1, <2>2 DEF CountInv
<1>a. /\ ~HasArg(th)' /\ pc'[th] \notin {"put", "refused", "done"}
      /\ \A a \in PoolThreads \ {th} : pc'[a] = pc[a] /\ HasArg(a)' = HasArg(a)
      /\ UNCHANGED <<arg, cur, items>>
  BY <1>0 DEF TypeOK, HasArg
<1>1. TypeOK'
  <2>1. pc' \in [PoolThreads -> {"idle", "take", "running", "exited", "put",
        "refused", "done", "notify", "wz_lock", "wz_load", "wz_wait",
        "closing", "joining"}]
    BY <1>0 DEF TypeOK
  <2>2. live' \subseteq Tasks
    BY <1>f DEF TypeOK
  <2>3. QED BY <1>f, <2>1, <2>2 DEF TypeOK
<1>2. PcInv'
  BY DEF TypeOK, PcInv, InTask, InClose
<1>3. CloseInv'
  BY DEF TypeOK, PcInv, CloseInv
<1>4. CountInv'
  BY <1>f DEF CountInv
<1>5. PlaceInv'
  BY <1>0, <1>a DEF PlaceInv, HasArg
<1>6. LocatedInv'
  BY DEF TypeOK, LocatedInv, HasArg
<1>7. HistoryInv'
  BY DEF TypeOK, PlaceInv, HasArg, HistoryInv, Untouched, Once
<1>8. SpawnInv'
  BY DEF TypeOK, SpawnInv, Running
<1>9. QED BY <1>1, <1>2, <1>3, <1>4, <1>5, <1>6, <1>7, <1>8

(* The wake-up of the waiters moves no task. *)
LEMMA CounterNotifyStep ==
  ASSUME IInv, NEW th \in PoolThreads, CounterNotify(th)
  PROVE  IInv'
<1> USE ThreadFacts DEF IInv, CounterNotify, DoneNotify, Goto, qvars, cvars, tvars
<1>1. TypeOK'
  BY PoolAssumption DEF TypeOK
<1>2. PcInv'
  BY DEF TypeOK, PcInv, InTask, InClose
<1>3. CloseInv'
  BY DEF TypeOK, PcInv, CloseInv
<1>4. CountInv'
  BY DEF TypeOK, CountInv
<1>5. PlaceInv'
  BY DEF TypeOK, PlaceInv, HasArg
<1>6. LocatedInv'
  BY DEF TypeOK, LocatedInv, HasArg
<1>7. HistoryInv'
  BY DEF TypeOK, PlaceInv, HasArg, HistoryInv, Untouched, Once
<1>8. SpawnInv'
  BY DEF TypeOK, SpawnInv, Running
<1>9. QED BY <1>1, <1>2, <1>3, <1>4, <1>5, <1>6, <1>7, <1>8

(* Take moves the head of the queue to a worker, which runs it. *)
LEMMA WorkerTakeStep ==
  ASSUME IInv, NEW w \in Workers, WorkerTake(w)
  PROVE  IInv'
<1> USE ThreadFacts DEF IInv, WorkerTake, TakeItem, TakeReady, Goto, qvars, cvars, tvars
<1>1. TypeOK'
  BY PoolAssumption DEF TypeOK
<1>2. PcInv'
  BY DEF TypeOK, PcInv, InTask, InClose
<1>3. CloseInv'
  BY DEF TypeOK, PcInv, CloseInv
<1>4. CountInv'
  BY DEF TypeOK, CountInv
<1>h. PICK h \in Tasks : h = Head(items)
  BY PopFacts DEF TypeOK
<1>0. /\ h \in Tasks /\ items \in Seq(Tasks)
      /\ ToSet(items) = {h} \cup ToSet(items')
      /\ IsInjective(items') /\ h \notin ToSet(items')
      /\ h \in live /\ Untouched(h)
  BY <1>h, PopFacts DEF TypeOK, PlaceInv, HistoryInv
<1>a. /\ cur[w] = None /\ cur'[w] = h /\ ~HasArg(w) /\ ~HasArg(w)'
      /\ \A v \in Workers \ {w} : cur'[v] = cur[v]
      /\ \A a \in PoolThreads \ {w} : pc'[a] = pc[a]
      /\ \A a \in PoolThreads : HasArg(a)' <=> HasArg(a)
      /\ UNCHANGED <<arg, live, submitted, discards>>
  <2>1. ~InTask(w)
    BY DEF InTask
  <2>2. cur[w] = None
    BY <2>1 DEF PcInv
  <2>3. pc'[w] = "running" /\ \A a \in PoolThreads \ {w} : pc'[a] = pc[a]
    BY DEF TypeOK
  <2>4. cur'[w] = h /\ \A v \in Workers \ {w} : cur'[v] = cur[v]
    BY <1>h DEF TypeOK
  <2>5. /\ ~HasArg(w) /\ ~HasArg(w)'
        /\ \A a \in PoolThreads : HasArg(a)' <=> HasArg(a)
    BY <2>3 DEF HasArg
  <2>6. QED BY <2>2, <2>3, <2>4, <2>5
<1>b. \A v \in Workers : cur[v] /= h
  BY <1>0 DEF PlaceInv
<1>5. PlaceInv'
  BY <1>0, <1>a, <1>b DEF PlaceInv
<1>6. LocatedInv'
  <2> SUFFICES ASSUME NEW t \in live
               PROVE  \/ t \in ToSet(items')
                      \/ \E a \in PoolThreads : HasArg(a)' /\ arg'[a] = t
                      \/ \E v \in Workers : cur'[v] = t
    BY <1>a DEF LocatedInv
  <2>1. t \in Tasks
    BY DEF TypeOK
  <2>2. CASE t \in ToSet(items)
    BY <1>0, <1>a, <2>2
  <2>3. CASE \E a \in PoolThreads : HasArg(a) /\ arg[a] = t
    BY <1>a, <2>3
  <2>4. CASE \E v \in Workers : cur[v] = t
    BY <1>a, <2>1, <2>4
  <2>5. QED BY <2>2, <2>3, <2>4 DEF LocatedInv
<1>7. HistoryInv'
  <2>1. /\ runs'[h] = 1 /\ discards[h] = 0
        /\ \A t \in Tasks \ {h} : runs'[t] = runs[t]
    BY <1>h, <1>0 DEF TypeOK, Untouched
  <2>2. \A t \in Tasks \ {h} :
             (Untouched(t)' <=> Untouched(t)) /\ (Once(t)' <=> Once(t))
    BY <1>a, <2>1 DEF Untouched, Once
  <2>3. \A a \in PoolThreads : HasArg(a) => arg[a] \in Tasks \ {h}
    BY <1>0 DEF PlaceInv, TypeOK
  <2>4. \A a \in PoolThreads :
          /\ pc'[a] \in {"put", "refused"} => Untouched(arg[a])'
          /\ pc'[a] = "done" => Once(arg[a])'
    BY <1>a, <2>2, <2>3 DEF HistoryInv, HasArg
  <2>5. \A v \in Workers :
          cur'[v] /= None => runs'[cur'[v]] = 1 /\ discards'[cur'[v]] = 0
    BY <1>a, <1>b, <2>1 DEF HistoryInv, TypeOK
  <2>6. \A t \in ToSet(items') : Untouched(t)'
    BY <1>0, <2>2 DEF HistoryInv, PlaceInv, TypeOK
  <2>7. \A t \in Tasks \ submitted' : Untouched(t)'
    BY <1>0, <1>a, <2>2 DEF HistoryInv, CountInv
  <2>8. \A t \in submitted' \ live' : Once(t)'
    BY <1>0, <1>a, <2>2 DEF HistoryInv, TypeOK
  <2>9. QED BY <2>4, <2>5, <2>6, <2>7, <2>8 DEF HistoryInv
<1>8. SpawnInv'
  <2>1. \A t \in Tasks \ {h} :
          runs'[t] = runs[t] /\ (Running(t)' <=> Running(t))
    BY <1>h, <1>0, <1>a DEF TypeOK, Running
  <2>2. Running(h)'
    BY <1>a DEF Running
  <2>3. QED BY <1>a, <2>1, <2>2 DEF SpawnInv
<1>9. QED BY <1>1, <1>2, <1>3, <1>4, <1>5, <1>6, <1>7, <1>8

(* A worker that goes to sleep holds no task. *)
LEMMA WorkerWaitStep ==
  ASSUME IInv, NEW w \in Workers, WorkerWait(w)
  PROVE  IInv'
<1> USE ThreadFacts DEF IInv, WorkerWait, TakeWait, TakeReady, qvars, cvars, tvars
<1>1. TypeOK'
  BY PoolAssumption DEF TypeOK
<1>2. PcInv'
  BY DEF TypeOK, PcInv, InTask, InClose
<1>3. CloseInv'
  BY DEF TypeOK, PcInv, CloseInv
<1>4. CountInv'
  BY DEF TypeOK, CountInv
<1>5. PlaceInv'
  BY DEF TypeOK, PlaceInv, HasArg
<1>6. LocatedInv'
  BY DEF TypeOK, LocatedInv, HasArg
<1>7. HistoryInv'
  BY DEF TypeOK, PlaceInv, HasArg, HistoryInv, Untouched, Once
<1>8. SpawnInv'
  BY DEF TypeOK, SpawnInv, Running
<1>9. QED BY <1>1, <1>2, <1>3, <1>4, <1>5, <1>6, <1>7, <1>8

(* A worker leaves only from an empty, closed queue. *)
LEMMA WorkerExitStep ==
  ASSUME IInv, NEW w \in Workers, WorkerExit(w)
  PROVE  IInv'
<1> USE ThreadFacts DEF IInv, WorkerExit, TakeNull, TakeReady, Goto, qvars, cvars, tvars
<1>1. TypeOK'
  BY PoolAssumption DEF TypeOK
<1>2. PcInv'
  BY DEF TypeOK, PcInv, InTask, InClose
<1>3. CloseInv'
  BY DEF TypeOK, PcInv, CloseInv
<1>4. CountInv'
  BY DEF TypeOK, CountInv
<1>5. PlaceInv'
  BY DEF TypeOK, PlaceInv, HasArg
<1>6. LocatedInv'
  BY DEF TypeOK, LocatedInv, HasArg
<1>7. HistoryInv'
  BY DEF TypeOK, PlaceInv, HasArg, HistoryInv, Untouched, Once
<1>8. SpawnInv'
  BY DEF TypeOK, SpawnInv, Running
<1>9. QED BY <1>1, <1>2, <1>3, <1>4, <1>5, <1>6, <1>7, <1>8

(* Run returns: the worker holds the task until Done. *)
LEMMA WorkerRanStep ==
  ASSUME IInv, NEW w \in Workers, WorkerRan(w)
  PROVE  IInv'
<1> USE ThreadFacts DEF IInv, WorkerRan, Goto, qvars, cvars, tvars
<1>1. TypeOK'
  BY PoolAssumption DEF TypeOK
<1>2. PcInv'
  BY DEF TypeOK, PcInv, InTask, InClose
<1>3. CloseInv'
  BY DEF TypeOK, PcInv, CloseInv
<1>4. CountInv'
  BY DEF TypeOK, CountInv
<1>0. /\ cur[w] \in Tasks /\ cur[w] \in live \ ToSet(items)
      /\ runs[cur[w]] = 1 /\ discards[cur[w]] = 0
      /\ \A a \in PoolThreads : HasArg(a) => arg[a] /= cur[w]
      /\ \A v \in Workers \ {w} : cur[v] /= cur[w]
  BY DEF TypeOK, PcInv, InTask, PlaceInv, HistoryInv
<1>a. /\ cur'[w] = None /\ arg'[w] = cur[w] /\ HasArg(w)' /\ pc'[w] = "done"
      /\ \A v \in Workers \ {w} : cur'[v] = cur[v]
      /\ \A a \in PoolThreads \ {w} :
           pc'[a] = pc[a] /\ arg'[a] = arg[a] /\ HasArg(a)' = HasArg(a)
      /\ UNCHANGED <<items, live, submitted, runs, discards>>
  BY DEF TypeOK, HasArg
<1>5. PlaceInv'
  <2>1. \A a \in PoolThreads :
          HasArg(a)' => /\ arg'[a] \in live' \ ToSet(items')
                        /\ \A v \in Workers : cur'[v] /= arg'[a]
    <3> SUFFICES ASSUME NEW a \in PoolThreads, HasArg(a)'
                 PROVE  /\ arg'[a] \in live' \ ToSet(items')
                        /\ \A v \in Workers : cur'[v] /= arg'[a]
      OBVIOUS
    <3>1. CASE a = w
      BY <1>0, <1>a, <3>1
    <3>2. CASE a /= w
      <4>1. arg'[a] = arg[a] /\ HasArg(a)
        BY <1>a, <3>2
      <4>2. arg[a] \in live \ ToSet(items) /\ \A v \in Workers : cur[v] /= arg[a]
        BY <4>1 DEF PlaceInv
      <4>3. arg[a] /= None
        BY <4>2 DEF TypeOK
      <4>4. QED BY <1>a, <4>1, <4>2, <4>3
    <3>3. QED BY <3>1, <3>2
  <2>2. \A a, b \in PoolThreads :
          HasArg(a)' /\ HasArg(b)' /\ arg'[a] = arg'[b] => a = b
    BY <1>0, <1>a DEF PlaceInv
  <2>3. QED BY <1>0, <1>a, <2>1, <2>2 DEF PlaceInv
<1>6. LocatedInv'
  BY DEF TypeOK, LocatedInv, HasArg
<1>7. HistoryInv'
  <2>1. Once(cur[w])
    BY <1>0 DEF Once
  <2>2. QED BY <1>0, <1>a, <2>1 DEF HistoryInv, Untouched, Once
<1>8. SpawnInv'
  BY DEF TypeOK, SpawnInv, Running
<1>9. QED BY <1>1, <1>2, <1>3, <1>4, <1>5, <1>6, <1>7, <1>8

(* A spurious wake-up in Take changes only who sleeps. *)
LEMMA WorkerSpuriousStep ==
  ASSUME IInv, NEW w \in Workers, WorkerSpurious(w)
  PROVE  IInv'
<1> USE ThreadFacts DEF IInv, WorkerSpurious, TakeSpurious, qvars, cvars, tvars
<1>1. TypeOK'
  BY PoolAssumption DEF TypeOK
<1>2. PcInv'
  BY DEF TypeOK, PcInv, InTask, InClose
<1>3. CloseInv'
  BY DEF TypeOK, PcInv, CloseInv
<1>4. CountInv'
  BY DEF TypeOK, CountInv
<1>5. PlaceInv'
  BY DEF TypeOK, PlaceInv, HasArg
<1>6. LocatedInv'
  BY DEF TypeOK, LocatedInv, HasArg
<1>7. HistoryInv'
  BY DEF TypeOK, PlaceInv, HasArg, HistoryInv, Untouched, Once
<1>8. SpawnInv'
  BY DEF TypeOK, SpawnInv, Running
<1>9. QED BY <1>1, <1>2, <1>3, <1>4, <1>5, <1>6, <1>7, <1>8

(* WaitIdle is entered: everything submitted is remembered. *)
LEMMA WaitIdleCallStep ==
  ASSUME IInv, NEW c \in Clients, WaitIdleCall(c)
  PROVE  IInv'
<1> USE ThreadFacts DEF IInv, WaitIdleCall, Goto, qvars, cvars, tvars
<1>1. TypeOK'
  BY PoolAssumption DEF TypeOK
<1>2. PcInv'
  BY DEF TypeOK, PcInv, InTask, InClose
<1>3. CloseInv'
  BY DEF TypeOK, PcInv, CloseInv
<1>4. CountInv'
  BY DEF TypeOK, CountInv
<1>5. PlaceInv'
  BY DEF TypeOK, PlaceInv, HasArg
<1>6. LocatedInv'
  BY DEF TypeOK, LocatedInv, HasArg
<1>7. HistoryInv'
  BY DEF TypeOK, PlaceInv, HasArg, HistoryInv, Untouched, Once
<1>8. SpawnInv'
  BY DEF TypeOK, SpawnInv, Running
<1>9. QED BY <1>1, <1>2, <1>3, <1>4, <1>5, <1>6, <1>7, <1>8

(* WaitZero locks the mutex of the counter. *)
LEMMA WaitIdleLockStep ==
  ASSUME IInv, NEW c \in Clients, WaitIdleLock(c)
  PROVE  IInv'
<1> USE ThreadFacts DEF IInv, WaitIdleLock, WaitIdleStep, WaitZeroLock, Goto, qvars, cvars, tvars
<1>1. TypeOK'
  BY PoolAssumption DEF TypeOK
<1>2. PcInv'
  BY DEF TypeOK, PcInv, InTask, InClose
<1>3. CloseInv'
  BY DEF TypeOK, PcInv, CloseInv
<1>4. CountInv'
  BY DEF TypeOK, CountInv
<1>5. PlaceInv'
  BY DEF TypeOK, PlaceInv, HasArg
<1>6. LocatedInv'
  BY DEF TypeOK, LocatedInv, HasArg
<1>7. HistoryInv'
  BY DEF TypeOK, PlaceInv, HasArg, HistoryInv, Untouched, Once
<1>8. SpawnInv'
  BY DEF TypeOK, SpawnInv, Running
<1>9. QED BY <1>1, <1>2, <1>3, <1>4, <1>5, <1>6, <1>7, <1>8

(* WaitZero saw zero and returns. *)
LEMMA WaitIdleReturnStep ==
  ASSUME IInv, NEW c \in Clients, WaitIdleReturn(c)
  PROVE  IInv'
<1> USE ThreadFacts DEF IInv, WaitIdleReturn, WaitIdleStep, WaitZeroReturn, Goto, qvars, cvars, tvars
<1>1. TypeOK'
  BY PoolAssumption DEF TypeOK
<1>2. PcInv'
  BY DEF TypeOK, PcInv, InTask, InClose
<1>3. CloseInv'
  BY DEF TypeOK, PcInv, CloseInv
<1>4. CountInv'
  BY DEF TypeOK, CountInv
<1>5. PlaceInv'
  BY DEF TypeOK, PlaceInv, HasArg
<1>6. LocatedInv'
  BY DEF TypeOK, LocatedInv, HasArg
<1>7. HistoryInv'
  BY DEF TypeOK, PlaceInv, HasArg, HistoryInv, Untouched, Once
<1>8. SpawnInv'
  BY DEF TypeOK, SpawnInv, Running
<1>9. QED BY <1>1, <1>2, <1>3, <1>4, <1>5, <1>6, <1>7, <1>8

(* WaitZero saw work and prepares to wait. *)
LEMMA WaitIdleBusyStep ==
  ASSUME IInv, NEW c \in Clients, WaitIdleBusy(c)
  PROVE  IInv'
<1> USE ThreadFacts DEF IInv, WaitIdleBusy, WaitIdleStep, WaitZeroBusy, Goto, qvars, cvars, tvars
<1>1. TypeOK'
  BY PoolAssumption DEF TypeOK
<1>2. PcInv'
  BY DEF TypeOK, PcInv, InTask, InClose
<1>3. CloseInv'
  BY DEF TypeOK, PcInv, CloseInv
<1>4. CountInv'
  BY DEF TypeOK, CountInv
<1>5. PlaceInv'
  BY DEF TypeOK, PlaceInv, HasArg
<1>6. LocatedInv'
  BY DEF TypeOK, LocatedInv, HasArg
<1>7. HistoryInv'
  BY DEF TypeOK, PlaceInv, HasArg, HistoryInv, Untouched, Once
<1>8. SpawnInv'
  BY DEF TypeOK, SpawnInv, Running
<1>9. QED BY <1>1, <1>2, <1>3, <1>4, <1>5, <1>6, <1>7, <1>8

(* WaitZero releases the mutex and sleeps. *)
LEMMA WaitIdleBlockStep ==
  ASSUME IInv, NEW c \in Clients, WaitIdleBlock(c)
  PROVE  IInv'
<1> USE ThreadFacts DEF IInv, WaitIdleBlock, WaitIdleStep, WaitZeroBlock, Goto, qvars, cvars, tvars
<1>1. TypeOK'
  BY PoolAssumption DEF TypeOK
<1>2. PcInv'
  BY DEF TypeOK, PcInv, InTask, InClose
<1>3. CloseInv'
  BY DEF TypeOK, PcInv, CloseInv
<1>4. CountInv'
  BY DEF TypeOK, CountInv
<1>5. PlaceInv'
  BY DEF TypeOK, PlaceInv, HasArg
<1>6. LocatedInv'
  BY DEF TypeOK, LocatedInv, HasArg
<1>7. HistoryInv'
  BY DEF TypeOK, PlaceInv, HasArg, HistoryInv, Untouched, Once
<1>8. SpawnInv'
  BY DEF TypeOK, SpawnInv, Running
<1>9. QED BY <1>1, <1>2, <1>3, <1>4, <1>5, <1>6, <1>7, <1>8

(* A spurious wake-up in WaitZero changes only who sleeps. *)
LEMMA WaitIdleSpuriousStep ==
  ASSUME IInv, NEW c \in Clients, WaitIdleSpurious(c)
  PROVE  IInv'
<1> USE ThreadFacts DEF IInv, WaitIdleSpurious, WaitZeroSpurious, qvars, cvars, tvars
<1>1. TypeOK'
  BY PoolAssumption DEF TypeOK
<1>2. PcInv'
  BY DEF TypeOK, PcInv, InTask, InClose
<1>3. CloseInv'
  BY DEF TypeOK, PcInv, CloseInv
<1>4. CountInv'
  BY DEF TypeOK, CountInv
<1>5. PlaceInv'
  BY DEF TypeOK, PlaceInv, HasArg
<1>6. LocatedInv'
  BY DEF TypeOK, LocatedInv, HasArg
<1>7. HistoryInv'
  BY DEF TypeOK, PlaceInv, HasArg, HistoryInv, Untouched, Once
<1>8. SpawnInv'
  BY DEF TypeOK, SpawnInv, Running
<1>9. QED BY <1>1, <1>2, <1>3, <1>4, <1>5, <1>6, <1>7, <1>8

(* Stop takes the mutex of the queue and starts to close it. *)
LEMMA StopCallStep ==
  ASSUME IInv, StopCall
  PROVE  IInv'
<1> USE ThreadFacts DEF IInv, StopCall, CloseLock, Goto, qvars, cvars, tvars
<1>1. TypeOK'
  BY PoolAssumption DEF TypeOK
<1>2. PcInv'
  BY DEF TypeOK, PcInv, InTask, InClose
<1>3. CloseInv'
  BY DEF TypeOK, PcInv, CloseInv
<1>4. CountInv'
  BY DEF TypeOK, CountInv
<1>5. PlaceInv'
  BY DEF TypeOK, PlaceInv, HasArg
<1>6. LocatedInv'
  BY DEF TypeOK, LocatedInv, HasArg
<1>7. HistoryInv'
  BY DEF TypeOK, PlaceInv, HasArg, HistoryInv, Untouched, Once
<1>8. SpawnInv'
  BY DEF TypeOK, SpawnInv, Running
<1>9. QED BY <1>1, <1>2, <1>3, <1>4, <1>5, <1>6, <1>7, <1>8

(* The disposer discards the head of the queue, once. *)
LEMMA StopDisposeStep ==
  ASSUME IInv, StopDispose
  PROVE  IInv'
<1> USE ThreadFacts DEF IInv, StopDispose, ClosePop, Goto, qvars, cvars, tvars
<1>1. TypeOK'
  BY PoolAssumption DEF TypeOK
<1>2. PcInv'
  BY DEF TypeOK, PcInv, InTask, InClose
<1>3. CloseInv'
  BY DEF TypeOK, PcInv, CloseInv
<1>4. CountInv'
  BY DEF TypeOK, CountInv
<1>h. PICK h \in Tasks : h = Head(items)
  BY PopFacts DEF TypeOK
<1>0. /\ h \in Tasks /\ items \in Seq(Tasks)
      /\ ToSet(items) = {h} \cup ToSet(items')
      /\ IsInjective(items') /\ h \notin ToSet(items')
      /\ h \in live /\ Untouched(h)
  BY <1>h, PopFacts DEF TypeOK, PlaceInv, HistoryInv
<1>a. /\ arg'[Owner] = h /\ ~HasArg(Owner) /\ HasArg(Owner)'
      /\ pc'[Owner] = "done"
      /\ \A a \in PoolThreads \ {Owner} :
           pc'[a] = pc[a] /\ arg'[a] = arg[a] /\ HasArg(a)' = HasArg(a)
      /\ UNCHANGED <<cur, live, submitted, runs>>
  BY <1>h DEF TypeOK, HasArg
<1>b. /\ \A v \in Workers : cur[v] /= h
      /\ \A a \in PoolThreads : HasArg(a) => arg[a] \in Tasks \ {h}
  BY <1>0, PoolAssumption DEF PlaceInv, TypeOK
<1>5. PlaceInv'
  BY <1>0, <1>a, <1>b DEF PlaceInv
<1>6. LocatedInv'
  BY <1>0, <1>a DEF LocatedInv
<1>7. HistoryInv'
  <2>1. /\ discards'[h] = 1 /\ runs[h] = 0
        /\ \A t \in Tasks \ {h} : discards'[t] = discards[t]
    BY <1>h, <1>0 DEF TypeOK, Untouched
  <2>2. /\ \A t \in Tasks \ {h} :
             (Untouched(t)' <=> Untouched(t)) /\ (Once(t)' <=> Once(t))
        /\ Once(h)'
    BY <1>a, <2>1 DEF Untouched, Once
  <2>3. \A a \in PoolThreads :
          /\ pc'[a] \in {"put", "refused"} => Untouched(arg[a])'
          /\ pc'[a] = "done" => Once(arg[a])'
    BY <1>a, <1>b, <2>2 DEF HistoryInv, HasArg
  <2>4. \A v \in Workers :
          cur'[v] /= None => runs'[cur'[v]] = 1 /\ discards'[cur'[v]] = 0
    BY <1>a, <1>b, <2>1 DEF HistoryInv, TypeOK
  <2>5. \A t \in ToSet(items') : Untouched(t)'
    BY <1>0, <2>2 DEF HistoryInv, PlaceInv, TypeOK
  <2>6. \A t \in Tasks \ submitted' : Untouched(t)'
    BY <1>0, <1>a, <2>2 DEF HistoryInv, CountInv
  <2>7. \A t \in submitted' \ live' : Once(t)'
    BY <1>0, <1>a, <2>2 DEF HistoryInv, TypeOK
  <2>8. QED BY <2>3, <2>4, <2>5, <2>6, <2>7 DEF HistoryInv
<1>8. SpawnInv'
  BY DEF TypeOK, SpawnInv, Running
<1>9. QED BY <1>1, <1>2, <1>3, <1>4, <1>5, <1>6, <1>7, <1>8

(* Close ends: the queue is empty and closed for good. *)
LEMMA StopClosedStep ==
  ASSUME IInv, StopClosed
  PROVE  IInv'
<1> USE ThreadFacts DEF IInv, StopClosed, CloseFinish, Goto, qvars, cvars, tvars
<1>1. TypeOK'
  BY PoolAssumption DEF TypeOK
<1>2. PcInv'
  BY DEF TypeOK, PcInv, InTask, InClose
<1>3. CloseInv'
  BY DEF TypeOK, PcInv, CloseInv
<1>4. CountInv'
  BY DEF TypeOK, CountInv
<1>5. PlaceInv'
  BY DEF TypeOK, PlaceInv, HasArg
<1>6. LocatedInv'
  BY DEF TypeOK, LocatedInv, HasArg
<1>7. HistoryInv'
  BY DEF TypeOK, PlaceInv, HasArg, HistoryInv, Untouched, Once
<1>8. SpawnInv'
  BY DEF TypeOK, SpawnInv, Running
<1>9. QED BY <1>1, <1>2, <1>3, <1>4, <1>5, <1>6, <1>7, <1>8

(* Stop returns after the last worker has left. *)
LEMMA StopJoinStep ==
  ASSUME IInv, StopJoin
  PROVE  IInv'
<1> USE ThreadFacts DEF IInv, StopJoin, Goto, qvars, cvars, tvars
<1>1. TypeOK'
  BY PoolAssumption DEF TypeOK
<1>2. PcInv'
  BY DEF TypeOK, PcInv, InTask, InClose
<1>3. CloseInv'
  BY DEF TypeOK, PcInv, CloseInv
<1>4. CountInv'
  BY DEF TypeOK, CountInv
<1>5. PlaceInv'
  BY DEF TypeOK, PlaceInv, HasArg
<1>6. LocatedInv'
  BY DEF TypeOK, LocatedInv, HasArg
<1>7. HistoryInv'
  BY DEF TypeOK, PlaceInv, HasArg, HistoryInv, Untouched, Once
<1>8. SpawnInv'
  BY DEF TypeOK, SpawnInv, Running
<1>9. QED BY <1>1, <1>2, <1>3, <1>4, <1>5, <1>6, <1>7, <1>8

(* A step that changes nothing. *)
LEMMA StutterStep ==
  ASSUME IInv, UNCHANGED vars
  PROVE  IInv'
<1> USE DEF IInv, vars, qvars, cvars
<1>1. TypeOK'
  BY DEF TypeOK
<1>2. PcInv'
  BY DEF PcInv, InTask, InClose
<1>3. CloseInv'
  BY DEF CloseInv
<1>4. CountInv'
  BY DEF CountInv
<1>5. PlaceInv'
  BY DEF PlaceInv, HasArg
<1>6. LocatedInv'
  BY DEF LocatedInv, HasArg
<1>7. HistoryInv'
  BY DEF HistoryInv, Untouched, Once
<1>8. SpawnInv'
  BY DEF SpawnInv, Running
<1>9. QED BY <1>1, <1>2, <1>3, <1>4, <1>5, <1>6, <1>7, <1>8

(* A new pool satisfies the inductive invariant. *)
LEMMA InitInv ==
  ASSUME Init
  PROVE  IInv
<1> USE ThreadFacts DEF Init, QInit, CInit
<1>1. ToSet(<<>>) = {} /\ IsInjective(<<>>) /\ Cardinality({}) = 0
  BY EmptyFacts, FS_EmptySet
<1>2. TypeOK
  <2>1. 0 \in 0..MaxWaitIdle /\ 0 \in 0..MaxSpurious /\ <<>> \in Seq(Tasks)
    BY PoolAssumption
  <2>2. QED BY <2>1 DEF TypeOK
<1>3. PcInv
  BY DEF PcInv, InTask, InClose
<1>4. CloseInv
  BY DEF CloseInv
<1>5. CountInv
  BY <1>1 DEF CountInv
<1>6. PlaceInv
  BY <1>1 DEF PlaceInv, HasArg
<1>7. LocatedInv
  BY DEF LocatedInv
<1>8. HistoryInv
  BY <1>1 DEF HistoryInv, Untouched, Once
<1>9. SpawnInv
  BY DEF SpawnInv
<1>10. QED BY <1>2, <1>3, <1>4, <1>5, <1>6, <1>7, <1>8, <1>9 DEF IInv

(* Every step of the pool preserves the inductive invariant. *)
LEMMA NextInv ==
  ASSUME IInv, [Next]_vars
  PROVE  IInv'
<1>1. ASSUME NEW th \in PoolThreads, NEW t \in Tasks, ExecuteAdd(th, t)
      PROVE  IInv'
  BY <1>1, ExecuteAddStep
<1>2. ASSUME NEW th \in PoolThreads, ExecuteStep(th) \/ DoneStep(th)
      PROVE  IInv'
  BY <1>2, ExecutePutStep, ExecuteRefusedStep, ExecuteDiscardStep,
     CounterDoneStep, CounterNotifyStep DEF ExecuteStep, DoneStep
<1>3. ASSUME NEW w \in Workers, WorkerStep(w) \/ WorkerSpurious(w)
      PROVE  IInv'
  BY <1>3, WorkerTakeStep, WorkerWaitStep, WorkerExitStep, WorkerRanStep,
     WorkerSpuriousStep DEF WorkerStep
<1>4. ASSUME NEW c \in Clients,
             WaitIdleCall(c) \/ WaitStep(c) \/ WaitIdleSpurious(c)
      PROVE  IInv'
  BY <1>4, WaitIdleCallStep, WaitIdleLockStep, WaitIdleReturnStep,
     WaitIdleBusyStep, WaitIdleBlockStep, WaitIdleSpuriousStep DEF WaitStep
<1>5. CASE StopCall \/ StopStep
  BY <1>5, StopCallStep, StopDisposeStep, StopClosedStep, StopJoinStep
     DEF StopStep
<1>6. CASE Quiescent \/ UNCHANGED vars
  BY <1>6, StutterStep DEF Quiescent
<1>7. QED BY <1>1, <1>2, <1>3, <1>4, <1>5, <1>6 DEF Next

(* The inductive invariant holds in every behaviour of the pool. *)
THEOREM Invariance == Spec => []IInv
<1>1. Init => IInv
  BY InitInv
<1>2. IInv /\ [Next]_vars => IInv'
  BY NextInv
<1>3. QED BY <1>1, <1>2, PTL DEF Spec

(* Every variable keeps its type: in particular the counter of outstanding *)
(* tasks, a size_t in the code, never goes below zero.                     *)
THEOREM TypeCorrect == Spec => []TypeOK
<1>1. IInv => TypeOK
  BY DEF IInv
<1>2. QED BY <1>1, Invariance, PTL

(* A submitted task that is not live has been run to the end or discarded. *)
LEMMA NotLiveResolved ==
  ASSUME IInv, NEW t \in submitted, t \notin live
  PROVE  Resolved(t)
<1>1. t \in Tasks /\ Once(t) /\ runs[t] \in Nat /\ discards[t] \in Nat
  BY DEF IInv, TypeOK, HistoryInv
<1>2. ~Running(t)
  BY <1>1, ThreadFacts DEF IInv, PlaceInv, Running
<1>3. QED BY <1>1, <1>2 DEF Resolved, Once

(* The counter is zero only when no submitted task is unresolved. *)
LEMMA IdleFromInv ==
  ASSUME IInv
  PROVE  IdleMeansNoWork
<1> SUFFICES ASSUME counter = 0, NEW t \in submitted
             PROVE  Resolved(t)
  BY DEF IdleMeansNoWork
<1>1. live = {}
  BY LiveFinite, FS_EmptySet DEF IInv, CountInv
<1>2. QED BY <1>1, NotLiveResolved

(* When the counter that WaitIdle reads is zero, every submitted task has  *)
(* been run to the end or discarded.                                       *)
THEOREM IdleMeansNoWorkHolds == Spec => []IdleMeansNoWork
<1>1. IInv => IdleMeansNoWork
  BY IdleFromInv
<1>2. QED BY <1>1, Invariance, PTL

(* When Stop has returned, no worker is left, the queue is empty and only  *)
(* tasks that Put is refusing to a client are not resolved.                *)
THEOREM StoppedIsDrainedHolds == Spec => []StoppedIsDrained
<1>1. ASSUME IInv, stopped
      PROVE  /\ \A w \in Workers : pc[w] = "exited"
             /\ items = <<>>
  BY <1>1 DEF IInv, CloseInv
<1>2. ASSUME IInv, stopped, NEW t \in submitted
      PROVE  Resolved(t) \/ \E c \in Clients :
                              arg[c] = t /\ pc[c] \in {"put", "refused"}
  <2>1. CASE t \notin live
    BY <1>2, <2>1, NotLiveResolved
  <2>2. CASE t \in live
    <3>1. t \in Tasks /\ ToSet(items) = {}
      BY <1>1, <1>2, EmptyFacts DEF IInv, TypeOK
    <3>2. \A w \in Workers : cur[w] = None
      BY <1>1, <1>2 DEF IInv, PcInv, InTask
    <3>3. PICK th \in PoolThreads : HasArg(th) /\ arg[th] = t
      BY <1>2, <2>2, <3>1, <3>2, ThreadFacts DEF IInv, LocatedInv
    <3>4. th \in Clients
      BY <1>1, <1>2, <3>3, ThreadFacts DEF HasArg
    <3>5. CASE pc[th] = "done"
      <4>1. Once(t) /\ ~Running(t) /\ runs[t] \in Nat /\ discards[t] \in Nat
        BY <1>2, <3>1, <3>2, <3>3, <3>5, ThreadFacts
           DEF IInv, HistoryInv, Running, TypeOK
      <4>2. QED BY <4>1 DEF Once, Resolved
    <3>6. CASE pc[th] \in {"put", "refused"}
      BY <3>3, <3>4, <3>6
    <3>7. QED BY <3>3, <3>5, <3>6 DEF HasArg
  <2>3. QED BY <2>1, <2>2
<1>3. IInv => StoppedIsDrained
  BY <1>1, <1>2 DEF StoppedIsDrained
<1>4. QED BY <1>3, Invariance, PTL
(* Only the return of WaitZero, which has read zero, ends WaitIdle. *)
LEMMA ReturnReadZero ==
  ASSUME IInv, Next, NEW c \in Clients, pc[c] = "wz_load", pc'[c] = "idle"
  PROVE  counter = 0
<1> USE ThreadFacts DEF IInv, TypeOK, Goto
<1>1. ASSUME NEW th \in PoolThreads, NEW t \in Tasks, ExecuteAdd(th, t)
      PROVE  counter = 0
  BY <1>1 DEF ExecuteAdd
<1>2. ASSUME NEW th \in PoolThreads, ExecuteStep(th)
      PROVE  counter = 0
  BY <1>2 DEF ExecuteStep, ExecutePut, ExecuteRefused, ExecuteDiscard
<1>3. ASSUME NEW th \in PoolThreads, DoneStep(th)
      PROVE  counter = 0
  BY <1>3 DEF DoneStep, CounterDone, CounterNotify
<1>4. ASSUME NEW w \in Workers, WorkerStep(w) \/ WorkerSpurious(w)
      PROVE  counter = 0
  BY <1>4 DEF WorkerStep, WorkerSpurious, WorkerTake, WorkerWait, WorkerExit,
              WorkerRan
<1>5. ASSUME NEW d \in Clients,
             WaitIdleCall(d) \/ WaitStep(d) \/ WaitIdleSpurious(d)
      PROVE  counter = 0
  BY <1>5 DEF WaitIdleCall, WaitStep, WaitIdleSpurious, WaitIdleLock,
              WaitIdleReturn, WaitIdleBusy, WaitIdleBlock, WaitIdleStep,
              WaitZeroReturn
<1>6. CASE StopCall \/ StopStep
  BY <1>6 DEF StopCall, StopStep, StopDispose, StopClosed, StopJoin
<1>7. CASE Quiescent
  BY <1>7 DEF Quiescent, vars
<1>8. QED BY <1>1, <1>2, <1>3, <1>4, <1>5, <1>6, <1>7 DEF Next

(* When WaitIdle returns, what was submitted before the call is resolved,  *)
(* and so is what those tasks submitted.                                   *)
THEOREM WaitIdleCoversHolds == Spec => WaitIdleCovers
<1>1. ASSUME IInv, Next, NEW c \in Clients, pc[c] = "wz_load", pc'[c] = "idle",
             NEW t \in before[c]
      PROVE  /\ Resolved(t)
             /\ runs[t] > 0 => \A u \in Spawn[t] : Resolved(u)
  <2>1. \A u \in submitted : Resolved(u)
    BY <1>1, ReturnReadZero, IdleFromInv DEF IdleMeansNoWork
  <2>2. t \in submitted /\ t \in Tasks
    BY <1>1 DEF IInv, SpawnInv, TypeOK
  <2>3. ASSUME runs[t] > 0
        PROVE  Spawn[t] \subseteq submitted
    <3>1. ~Running(t)
      <4>1. live = {}
        BY <1>1, ReturnReadZero, LiveFinite, FS_EmptySet DEF IInv, CountInv
      <4>2. QED BY <1>1, <2>2, <4>1, ThreadFacts DEF IInv, PlaceInv, Running
    <3>2. QED BY <1>1, <2>2, <2>3, <3>1 DEF IInv, SpawnInv
  <2>4. QED BY <2>1, <2>2, <2>3
<1>2. IInv /\ [Next]_vars =>
        [\A c \in Clients :
          (pc[c] = "wz_load" /\ pc'[c] = "idle") =>
            \A t \in before[c] :
              /\ Resolved(t)
              /\ runs[t] > 0 => \A u \in Spawn[t] : Resolved(u)]_vars
  BY <1>1
<1>3. QED BY <1>2, Invariance, PTL DEF Spec, WaitIdleCovers

(* Once the queue is closed no task is started. *)
THEOREM NoStartAfterCloseHolds == Spec => NoStartAfterClose
<1>1. ASSUME IInv, Next, closed
      PROVE  runs' = runs
  <2>1. items = <<>>
    BY <1>1 DEF IInv, CloseInv
  <2>2. ASSUME NEW w \in Workers, WorkerStep(w) \/ WorkerSpurious(w)
        PROVE  runs' = runs
    BY <2>1, <2>2 DEF WorkerStep, WorkerSpurious, WorkerTake, TakeItem,
                      WorkerWait, WorkerExit, WorkerRan, tvars
  <2>3. QED
    BY <1>1, <2>2
       DEF Next, ExecuteAdd, ExecuteStep, ExecutePut, ExecuteRefused,
           ExecuteDiscard, DoneStep, CounterDone, CounterNotify, WaitIdleCall,
           WaitStep, WaitIdleLock, WaitIdleReturn, WaitIdleBusy,
           WaitIdleBlock, WaitIdleStep, WaitIdleSpurious, StopCall, StopStep,
           StopDispose, StopClosed, StopJoin, Quiescent, vars, tvars
<1>2. IInv /\ [Next]_vars => [closed => runs' = runs]_vars
  BY <1>1
<1>3. QED BY <1>2, Invariance, PTL DEF Spec, NoStartAfterClose
----------------------------------------------------------------------------
(* The pool implements the abstract executor. *)

(* What a task looks like depends on these four variables only. *)
LEMMA SameStatus ==
  ASSUME UNCHANGED <<submitted, cur, runs, discards>>
  PROVE  Status' = Status
BY DEF Status, Running

(* A step that changes the status of one task is a step of that task. *)
LEMMA StatusStep ==
  ASSUME NEW t \in Tasks, NEW from, NEW to,
         Status[t] = from, Status'[t] = to,
         \A u \in Tasks \ {t} : Status'[u] = Status[u]
  PROVE  Abstract!Become(t, from, to)
<1>1. Status' = [Status EXCEPT ![t] = to]
  BY DEF Status
<1>2. QED BY <1>1 DEF Abstract!Become

(* Execute, seen from outside: a new task becomes pending. *)
LEMMA AddIsSubmit ==
  ASSUME IInv, NEW th \in PoolThreads, NEW t \in Tasks, ExecuteAdd(th, t)
  PROVE  Abstract!Next
<1>1. /\ submitted' = submitted \cup {t} /\ t \notin submitted
      /\ UNCHANGED <<cur, runs, discards>>
  BY DEF ExecuteAdd, MaySubmit, tvars
<1>2. Untouched(t) /\ ~Running(t)
  BY <1>1, ThreadFacts DEF IInv, HistoryInv, PlaceInv, CountInv, Running
<1>3. Status[t] = "new" /\ Status'[t] = "pending"
  BY <1>1, <1>2 DEF Status, Untouched, Running
<1>4. \A u \in Tasks \ {t} : Status'[u] = Status[u]
  BY <1>1 DEF Status, Running
<1>5. QED BY <1>3, <1>4, StatusStep DEF Abstract!Next

(* Take, seen from outside: a pending task starts to run. *)
LEMMA TakeIsStart ==
  ASSUME IInv, NEW w \in Workers, WorkerTake(w)
  PROVE  Abstract!Next
<1> USE ThreadFacts DEF IInv, TypeOK
<1>1. PICK t \in Tasks : t = Head(items)
  BY PopFacts DEF WorkerTake, TakeItem
<1>2. /\ t \in ToSet(items) /\ Untouched(t) /\ t \in submitted
      /\ ~Running(t)
  BY <1>1, PopFacts
     DEF WorkerTake, TakeItem, HistoryInv, PlaceInv, CountInv, Running
<1>3. /\ cur[w] = None /\ cur' = [cur EXCEPT ![w] = t]
      /\ runs' = [runs EXCEPT ![t] = @ + 1]
      /\ UNCHANGED <<submitted, discards>>
  BY <1>1 DEF WorkerTake, PcInv, InTask
<1>4. Status[t] = "pending" /\ Status'[t] = "running"
  BY <1>2, <1>3 DEF Status, Untouched, Running
<1>5. ASSUME NEW u \in Tasks \ {t}
      PROVE  Status'[u] = Status[u]
  <2>1. (Running(u)' <=> Running(u)) /\ runs'[u] = runs[u]
    BY <1>3 DEF Running
  <2>2. QED BY <1>3, <2>1 DEF Status
<1>6. QED BY <1>4, <1>5, StatusStep DEF Abstract!Next

(* The return of Run, seen from outside: a running task is done. *)
LEMMA RanIsFinish ==
  ASSUME IInv, NEW w \in Workers, WorkerRan(w)
  PROVE  Abstract!Next
<1> USE ThreadFacts DEF IInv, TypeOK
<1>1. PICK t \in Tasks : t = cur[w]
  BY DEF WorkerRan, PcInv, InTask
<1>2. /\ runs[t] = 1 /\ discards[t] = 0 /\ t \in submitted
      /\ \A v \in Workers \ {w} : cur[v] /= t
  BY <1>1 DEF HistoryInv, PlaceInv, CountInv
<1>3. /\ cur' = [cur EXCEPT ![w] = None]
      /\ UNCHANGED <<submitted, runs, discards>>
  BY DEF WorkerRan, tvars
<1>4. Running(t) /\ ~Running(t)'
  BY <1>1, <1>2, <1>3 DEF Running
<1>5. Status[t] = "running" /\ Status'[t] = "done"
  BY <1>2, <1>3, <1>4 DEF Status
<1>6. ASSUME NEW u \in Tasks \ {t}
      PROVE  Status'[u] = Status[u]
  <2>1. Running(u)' <=> Running(u)
    BY <1>1, <1>3 DEF Running
  <2>2. QED BY <1>3, <2>1 DEF Status
<1>7. QED BY <1>5, <1>6, StatusStep DEF Abstract!Next

(* Discard, called by Execute or by the disposer of Stop *)
LEMMA DiscardIsDiscard ==
  ASSUME IInv, NEW t \in submitted, Untouched(t), ~Running(t),
         discards' = [discards EXCEPT ![t] = @ + 1],
         UNCHANGED <<submitted, cur, runs>>
  PROVE  Abstract!Next
<1> USE DEF IInv, TypeOK
<1>1. t \in Tasks
  OBVIOUS
<1>2. Status[t] = "pending" /\ Status'[t] = "discarded"
  BY <1>1 DEF Status, Untouched, Running
<1>3. \A u \in Tasks \ {t} : Status'[u] = Status[u]
  BY DEF Status, Running
<1>4. QED BY <1>1, <1>2, <1>3, StatusStep DEF Abstract!Next

(* Every step of the pool is a step of the abstract executor or none. *)
LEMMA NextRefines ==
  ASSUME IInv, [Next]_vars
  PROVE  [Abstract!Next]_Status
<1>1. ASSUME NEW th \in PoolThreads, NEW t \in Tasks, ExecuteAdd(th, t)
      PROVE  Abstract!Next
  BY <1>1, AddIsSubmit
<1>2. ASSUME NEW th \in PoolThreads, ExecuteDiscard(th)
      PROVE  Abstract!Next
  <2>1. PICK t \in Tasks : t = arg[th]
    BY <1>2 DEF ExecuteDiscard, IInv, TypeOK, PlaceInv, HasArg
  <2>2. t \in submitted /\ Untouched(t) /\ ~Running(t)
    BY <1>2, <2>1
       DEF ExecuteDiscard, IInv, CountInv, PlaceInv, HasArg, HistoryInv, Running
  <2>3. QED BY <1>2, <2>1, <2>2, DiscardIsDiscard DEF ExecuteDiscard
<1>3. CASE StopDispose
  <2>1. PICK t \in Tasks : t = Head(items)
    BY <1>3, PopFacts DEF StopDispose, ClosePop, IInv, TypeOK
  <2>2. t \in submitted /\ Untouched(t) /\ ~Running(t)
    BY <1>3, <2>1, PopFacts, ThreadFacts
       DEF StopDispose, ClosePop, IInv, TypeOK, CountInv, PlaceInv, HistoryInv,
           Running
  <2>3. QED BY <1>3, <2>1, <2>2, DiscardIsDiscard DEF StopDispose
<1>4. ASSUME NEW w \in Workers, WorkerTake(w) \/ WorkerRan(w)
      PROVE  Abstract!Next
  BY <1>4, TakeIsStart, RanIsFinish
<1>5. ASSUME NEW th \in PoolThreads,
             ExecutePut(th) \/ ExecuteRefused(th) \/ DoneStep(th)
      PROVE  Status' = Status
  BY <1>5, SameStatus
     DEF ExecutePut, ExecuteRefused, DoneStep, CounterDone, CounterNotify, tvars
<1>6. ASSUME NEW w \in Workers,
             WorkerWait(w) \/ WorkerExit(w) \/ WorkerSpurious(w)
      PROVE  Status' = Status
  BY <1>6, SameStatus DEF WorkerWait, WorkerExit, WorkerSpurious, tvars
<1>7. ASSUME NEW c \in Clients,
             WaitIdleCall(c) \/ WaitStep(c) \/ WaitIdleSpurious(c)
      PROVE  Status' = Status
  BY <1>7, SameStatus
     DEF WaitIdleCall, WaitStep, WaitIdleLock, WaitIdleReturn, WaitIdleBusy,
         WaitIdleBlock, WaitIdleStep, WaitIdleSpurious, tvars
<1>8. CASE StopCall \/ StopClosed \/ StopJoin
  BY <1>8, SameStatus DEF StopCall, StopClosed, StopJoin, tvars
<1>9. CASE Quiescent \/ UNCHANGED vars
  BY <1>9, SameStatus DEF Quiescent, vars
<1>10. QED
  BY <1>1, <1>2, <1>3, <1>4, <1>5, <1>6, <1>7, <1>8, <1>9
     DEF Next, ExecuteStep, WorkerStep, StopStep

(* Every task handed to Execute is given exactly one of Run and Discard,   *)
(* exactly once, whatever Execute, Take, Done and Stop interleave to.      *)
THEOREM Refinement == Spec => ImplementsExecutor
<1>1. Init => Abstract!Init
  BY DEF Init, Abstract!Init, Status
<1>2. IInv /\ [Next]_vars => [Abstract!Next]_Status
  BY NextRefines
<1>3. QED BY <1>1, <1>2, Invariance, PTL
          DEF Spec, ImplementsExecutor, Abstract!Spec
=============================================================================
