--------------------------- MODULE FuturesProofs ---------------------------
(***************************************************************************)
(* Proofs about Futures for pipelines of any length, any programs and any  *)
(* pool, with and without Stop.                                            *)
(*                                                                         *)
(* The argument follows the callbacks.  A callback that has been handed    *)
(* out is a token: it is held by one thread or is in the queue once        *)
(* (TokenInv), and only while its contract is at Rendezvous and it has not *)
(* run (Fresh).  That a Rendezvous is not entered twice from either side   *)
(* is a matter of who may still produce (PipeInv: the promise of contract  *)
(* i is set by the run of callback i - 1 or of the inner callback) and who *)
(* may still consume (BuilderInv and InnerInv).                            *)
(***************************************************************************)
EXTENDS SequenceFacts, Futures, FiniteSetTheorems

Places == [op : {"home", "invoke", "run", "subscribe", "suspended"},
           c : Contracts \cup {Fiber}]

(* th holds the callback of contract pc[th].c *)
Busy(th) == pc[th].op \in {"invoke", "run"}

(* What it takes for the callback of c to be on its way *)
Fresh(c) ==
  /\ c \in Contracts => rv[c] = "Rendezvous" /\ runs[c] = 0
  /\ c = Fiber => built = N + 3 /\ runs[N] = 1 /\ got = None

(* Each callback is on its way at most once, and only when it may be *)
TokenInv ==
  /\ \A t, u \in AllThreads : Busy(t) /\ Busy(u) /\ pc[t].c = pc[u].c => t = u
  /\ IsInjective(queue)
  /\ \A t \in AllThreads : Busy(t) => pc[t].c \notin ToSet(queue)
  /\ \A t \in AllThreads : Busy(t) => Fresh(pc[t].c)
  /\ \A c \in ToSet(queue) : Fresh(c)

(* A callback that has run had both parties; a ready contract has a result *)
ContractInv ==
  \A c \in Contracts :
    /\ rv[c] /= "Panic"
    /\ runs[c] \in {0, 1}
    /\ runs[c] = 1 => rv[c] = "Rendezvous"
    /\ Ready(c) => result[c] /= None

(* The builder has not consumed what it has yet to consume; what it got is *)
(* the result of the last contract                                         *)
BuilderInv ==
  /\ \A c \in 0..N : built <= c => rv[c] \in {"Initial", "Producer"}
  /\ \A t \in AllThreads :
       pc[t].op = "suspended" =>
         /\ t = "builder" /\ pc[t].c = N /\ built = N + 3
         /\ rv[N] \in {"Initial", "Producer"}
  /\ fired => built = N + 1 /\ runs[N] = 1
  /\ got /= None => /\ Ready(N) /\ got = result[N]
                    /\ built > N
                    /\ built = N + 3 => runs[N] = 1

(* The continuation of combinator i has returned a future *)
Flat(i) ==
  /\ runs[i - 1] = 1
  /\ Needs(i, result[i - 1])
  /\ prog.kind[i] = "flat"
  /\ prog.fun[i] /= "throw"

(* An inner contract is used by the one continuation that created it *)
InnerInv ==
  /\ \A c \in inners : c > N /\ rv[c] \in {"Initial", "Consumer"} /\ Flat(c - N)
  /\ \A t \in AllThreads :
       pc[t].op = "subscribe" =>
         /\ pc[t].c \in (N + 1)..(2 * N)
         /\ rv[pc[t].c] \in {"Initial", "Producer"}
         /\ Flat(pc[t].c - N)
  /\ \A t, u \in AllThreads :
       /\ pc[t].op = "subscribe" /\ pc[u].op = "subscribe"
       /\ pc[t].c = pc[u].c
       => t = u
  /\ \A c \in (N + 1)..(2 * N) :
       /\ rv[c] /= "Initial" => Flat(c - N)
       /\ Ready(c) => result[c] = prog.inner

(* Contract i is fulfilled by the run of the callback before it, or by the *)
(* run of the inner callback when there is one                             *)
PipeInv ==
  /\ Ready(0) => result[0] = prog.source
  /\ \A i \in 1..N :
       Ready(i) => /\ runs[i - 1] = 1
                   /\ result[i] = Outcome(i, result[i - 1])
                   /\ Flat(i) => runs[Inner(i)] = 1
  /\ \A i \in 1..N :
       calls[i] = IF runs[i - 1] = 1 /\ Needs(i, result[i - 1]) THEN 1 ELSE 0

FutureInv ==
  TypeOK /\ TokenInv /\ ContractInv /\ BuilderInv /\ InnerInv /\ PipeInv

----------------------------------------------------------------------------
(* The operators of the model *)

(* The numbers of the contracts *)
LEMMA ContractFacts ==
  /\ N \in Nat
  /\ 0 \in Contracts /\ N \in Contracts
  /\ Fiber \notin Contracts
  /\ \A c \in 0..N : c \in Contracts
  /\ \A i \in 1..N : /\ i \in Contracts /\ i - 1 \in Contracts
                     /\ Inner(i) \in Contracts /\ Inner(i) > N
                     /\ Inner(i) - N = i
                     /\ Inner(i) \in (N + 1)..(2 * N)
  /\ \A c \in (N + 1)..(2 * N) : c \in Contracts /\ c - N \in 1..N
  /\ \A c \in Contracts : c \in Nat /\ c /= Fiber /\ (c > N => c \in (N + 1)..(2 * N))
BY FuturesAssumption DEF Contracts, Fiber, Inner

(* The parts of a program *)
LEMMA ProgramFacts ==
  ASSUME TypeOK
  PROVE  /\ prog.source \in {"ok", "err"} /\ prog.inner \in {"ok", "err"}
         /\ \A i \in 1..N : /\ prog.kind[i] \in {"then", "flat", "recover"}
                            /\ prog.fun[i] \in {"ok", "err", "throw"}
         /\ \A c \in Contracts : prog.via[c] \in {"inline", "pool"}
BY FuturesAssumption DEF TypeOK, IsProgram

(* An operation of a thread is the pair of its name and its contract. *)
LEMMA AtFacts ==
  ASSUME NEW op, NEW c
  PROVE  At(op, c).op = op /\ At(op, c).c = c
BY DEF At

(* SetResult on a contract whose promise has not been used: the result is  *)
(* in place, and the callback is handed to the thread if it is there.      *)
LEMMA SetResultFacts ==
  ASSUME TypeOK, NEW t \in AllThreads, NEW c \in Contracts, NEW r \in {"ok", "err"},
         SetResult(t, c, r), rv[c] \in {"Initial", "Consumer"}
  PROVE  /\ result' \in [Contracts -> {"ok", "err", None}]
         /\ rv' \in [Contracts -> States \cup {"Panic"}]
         /\ pc' \in [AllThreads -> Places]
         /\ result'[c] = r
         /\ \A d \in Contracts : d /= c => result'[d] = result[d] /\ rv'[d] = rv[d]
         /\ \A u \in AllThreads : u /= t => pc'[u] = pc[u]
         /\ \/ rv[c] = "Initial" /\ rv'[c] = "Producer" /\ pc'[t].op = "home"
            \/ /\ rv[c] = "Consumer" /\ rv'[c] = "Rendezvous"
               /\ pc'[t].op = "invoke" /\ pc'[t].c = c
<1>1. rv'[c] = Produced(rv[c]) /\ result'[c] = r
  BY DEF SetResult, TypeOK
<1>2. /\ result' \in [Contracts -> {"ok", "err", None}]
      /\ \A d \in Contracts : d /= c => result'[d] = result[d] /\ rv'[d] = rv[d]
  BY DEF SetResult, TypeOK
<1>3. rv' \in [Contracts -> States \cup {"Panic"}]
  <2>1. Produced(rv[c]) \in States \cup {"Panic"}
    BY DEF Produced, States
  <2>2. QED BY <2>1 DEF SetResult, TypeOK
<1>4. 0 \in Contracts
  BY ContractFacts
<1>5. CASE rv[c] = "Initial"
  <2>1. pc' = [pc EXCEPT ![t] = At("home", 0)]
    BY <1>5 DEF SetResult, Return, Home
  <2>2. At("home", 0) \in Places
    BY <1>4 DEF At, Places
  <2>3. pc'[t].op = "home"
    BY <2>1 DEF At, TypeOK, Places
  <2>4. rv'[c] = "Producer"
    BY <1>1, <1>5 DEF Produced
  <2>5. QED BY <1>1, <1>2, <1>3, <1>5, <2>1, <2>2, <2>3, <2>4 DEF TypeOK, Places
<1>6. CASE rv[c] = "Consumer"
  <2>1. pc' = [pc EXCEPT ![t] = At("invoke", c)]
    BY <1>6 DEF SetResult, Goto
  <2>2. At("invoke", c) \in Places
    BY DEF At, Places
  <2>3. pc'[t].op = "invoke" /\ pc'[t].c = c
    BY <2>1 DEF At, TypeOK, Places
  <2>4. rv'[c] = "Rendezvous"
    BY <1>1, <1>6 DEF Produced
  <2>5. QED BY <1>1, <1>2, <1>3, <1>6, <2>1, <2>2, <2>3, <2>4 DEF TypeOK, Places
<1>7. QED BY <1>5, <1>6

(* SetCallback on a future that has not been consumed: the callback is in  *)
(* place, and is handed to the thread if the result is there.              *)
LEMMA SetCallbackFacts ==
  ASSUME TypeOK, NEW t \in AllThreads, NEW c \in Contracts,
         SetCallback(t, c), rv[c] \in {"Initial", "Producer"}
  PROVE  /\ rv' \in [Contracts -> States \cup {"Panic"}]
         /\ pc' \in [AllThreads -> Places]
         /\ \A d \in Contracts : d /= c => rv'[d] = rv[d]
         /\ \A u \in AllThreads : u /= t => pc'[u] = pc[u]
         /\ \/ rv[c] = "Initial" /\ rv'[c] = "Consumer" /\ pc'[t].op = "home"
            \/ /\ rv[c] = "Producer" /\ rv'[c] = "Rendezvous"
               /\ pc'[t].op = "invoke" /\ pc'[t].c = c
<1>1. rv'[c] = Consumed(rv[c])
  BY DEF SetCallback, TypeOK
<1>2. \A d \in Contracts : d /= c => rv'[d] = rv[d]
  BY DEF SetCallback, TypeOK
<1>3. rv' \in [Contracts -> States \cup {"Panic"}]
  <2>1. Consumed(rv[c]) \in States \cup {"Panic"}
    BY DEF Consumed, States
  <2>2. QED BY <2>1 DEF SetCallback, TypeOK
<1>4. 0 \in Contracts
  BY ContractFacts
<1>5. CASE rv[c] = "Initial"
  <2>1. pc' = [pc EXCEPT ![t] = At("home", 0)]
    BY <1>5 DEF SetCallback, Return, Home
  <2>2. At("home", 0) \in Places
    BY <1>4 DEF At, Places
  <2>3. pc'[t].op = "home"
    BY <2>1 DEF At, TypeOK, Places
  <2>4. rv'[c] = "Consumer"
    BY <1>1, <1>5 DEF Consumed
  <2>5. QED BY <1>1, <1>2, <1>3, <1>5, <2>1, <2>2, <2>3, <2>4 DEF TypeOK, Places
<1>6. CASE rv[c] = "Producer"
  <2>1. pc' = [pc EXCEPT ![t] = At("invoke", c)]
    BY <1>6 DEF SetCallback, Goto
  <2>2. At("invoke", c) \in Places
    BY DEF At, Places
  <2>3. pc'[t].op = "invoke" /\ pc'[t].c = c
    BY <2>1 DEF At, TypeOK, Places
  <2>4. rv'[c] = "Rendezvous"
    BY <1>1, <1>6 DEF Consumed
  <2>5. QED BY <1>1, <1>2, <1>3, <1>6, <2>1, <2>2, <2>3, <2>4 DEF TypeOK, Places
<1>7. QED BY <1>5, <1>6

----------------------------------------------------------------------------
(* What every step has in common, and the parts of the invariant that a    *)
(* step leaves alone.  Steps are described by what they do to each thread  *)
(* and each contract.                                                      *)

(* Nothing that has happened on a contract is taken back *)
Grows ==
  /\ prog' = prog
  /\ \A c \in Contracts :
       /\ runs[c] = 1 => runs'[c] = 1
       /\ rv[c] = "Rendezvous" => rv'[c] = "Rendezvous"
       /\ Ready(c) => Ready(c)' /\ result'[c] = result[c]

(* Only thread t moves *)
Alone(t) == \A u \in AllThreads : u /= t => pc'[u] = pc[u]

(* What a continuation has done, and what a combinator makes of a ready    *)
(* result, does not change.                                                *)
LEMMA FlatGrows ==
  ASSUME ContractInv, Grows, NEW i \in 1..N
  PROVE  /\ Flat(i) => Flat(i)'
         /\ runs[i - 1] = 1 /\ Flat(i)' => Flat(i)
         /\ Ready(i - 1) => /\ Outcome(i, result[i - 1])' = Outcome(i, result[i - 1])
                            /\ Needs(i, result[i - 1])' <=> Needs(i, result[i - 1])
<1>1. i - 1 \in Contracts
  BY ContractFacts
<1>2. runs[i - 1] = 1 => Ready(i - 1)
  BY <1>1 DEF ContractInv, Ready
<1>3. Ready(i - 1) => result'[i - 1] = result[i - 1]
  BY <1>1 DEF Grows
<1>4. runs[i - 1] = 1 => runs'[i - 1] = 1
  BY <1>1 DEF Grows
<1>5. prog' = prog
  BY DEF Grows
<1>6. QED BY <1>2, <1>3, <1>4, <1>5 DEF Flat, Needs, Outcome

(* The tokens, when thread t moves and the queue stays as it is *)
LEMMA TokenMove ==
  ASSUME TypeOK, TypeOK', TokenInv, NEW t \in AllThreads, Alone(t), queue' = queue,
         Busy(t)' => (Busy(t) /\ pc'[t].c = pc[t].c) \/ ~Fresh(pc'[t].c),
         Busy(t)' => Fresh(pc[t].c)',
         \A d \in Contracts \cup {Fiber} :
           Fresh(d) /\ ~(Busy(t) /\ pc[t].c = d) => Fresh(d)'
  PROVE  TokenInv'
<1>1. \A u \in AllThreads : pc[u].c \in Contracts \cup {Fiber}
  BY DEF TypeOK
<1>2. \A c \in ToSet(queue) : c \in Contracts \cup {Fiber}
  BY ToSetMember DEF TypeOK
<1>3. \A u \in AllThreads : u /= t => (Busy(u)' <=> Busy(u)) /\ pc'[u].c = pc[u].c
  BY DEF Alone, Busy
<1>4. ASSUME NEW u \in AllThreads, u /= t, Busy(u)
      PROVE  Fresh(pc[u].c)' /\ (Busy(t)' => pc'[t].c /= pc[u].c)
  <2>1. Fresh(pc[u].c) /\ ~(Busy(t) /\ pc[t].c = pc[u].c)
    BY <1>4 DEF TokenInv
  <2>2. PICK d \in Contracts \cup {Fiber} : d = pc[u].c
    BY <1>1
  <2>3. Fresh(d)'
    BY <2>1, <2>2
  <2>4. pc'[u].c = d
    BY <1>3, <1>4, <2>2
  <2>5. Fresh(pc[u].c)'
    BY <2>3, <2>4 DEF Fresh
  <2>6. QED BY <2>1, <2>5
<1>5. ASSUME NEW c \in ToSet(queue)
      PROVE  Fresh(c)' /\ (Busy(t)' => pc'[t].c /= c)
  <2>1. Fresh(c) /\ ~(Busy(t) /\ pc[t].c = c)
    BY DEF TokenInv
  <2>2. QED BY <1>2, <2>1
<1>6. (\A v, u \in AllThreads : Busy(v) /\ Busy(u) /\ pc[v].c = pc[u].c => v = u)'
  BY <1>3, <1>4 DEF TokenInv
<1>7. IsInjective(queue)'
  BY DEF TokenInv
<1>8. (\A u \in AllThreads : Busy(u) => pc[u].c \notin ToSet(queue))'
  BY <1>3, <1>5 DEF TokenInv
<1>9. (\A u \in AllThreads : Busy(u) => Fresh(pc[u].c))'
  BY <1>3, <1>4
<1>10. (\A c \in ToSet(queue) : Fresh(c))'
  BY <1>5
<1>11. QED BY <1>6, <1>7, <1>8, <1>9, <1>10 DEF TokenInv

(* The builder's side, when a step is not the builder's *)
LEMMA BuilderFrame ==
  ASSUME TypeOK, TypeOK', BuilderInv, Grows,
         built' = built, fired' = fired, got' = got,
         \A c \in 0..N :
           rv[c] \in {"Initial", "Producer"} => rv'[c] \in {"Initial", "Producer"},
         \A u \in AllThreads : pc'[u].op = "suspended" => pc'[u] = pc[u]
  PROVE  BuilderInv'
<1>1. N \in Nat /\ N \in 0..N /\ N \in Contracts
  BY ContractFacts
<1>2. (\A c \in 0..N : built <= c => rv[c] \in {"Initial", "Producer"})'
  BY DEF BuilderInv
<1>3. ASSUME NEW u \in AllThreads, pc'[u].op = "suspended"
      PROVE  /\ u = "builder" /\ pc'[u].c = N /\ built' = N + 3
             /\ rv'[N] \in {"Initial", "Producer"}
  BY <1>1, <1>3 DEF BuilderInv
<1>4. (fired => built = N + 1 /\ runs[N] = 1)'
  BY <1>1 DEF BuilderInv, Grows
<1>5. (got /= None => /\ Ready(N) /\ got = result[N]
                      /\ built > N
                      /\ built = N + 3 => runs[N] = 1)'
  BY <1>1 DEF BuilderInv, Grows
<1>6. QED BY <1>2, <1>3, <1>4, <1>5 DEF BuilderInv

(* The inner contracts, when a step does not touch one *)
LEMMA InnerFrame ==
  ASSUME TypeOK, TypeOK', ContractInv, InnerInv, Grows,
         inners' = inners,
         \A c \in (N + 1)..(2 * N) : rv'[c] = rv[c] /\ result'[c] = result[c],
         \A u \in AllThreads : pc'[u].op = "subscribe" => pc'[u] = pc[u]
  PROVE  InnerInv'
<1>1. \A c \in (N + 1)..(2 * N) : Flat(c - N) => Flat(c - N)'
  BY FlatGrows, ContractFacts
<1>2. \A c \in inners : c > N => c \in (N + 1)..(2 * N)
  BY ContractFacts DEF TypeOK
<1>3. ASSUME NEW c \in inners'
      PROVE  (c > N /\ rv[c] \in {"Initial", "Consumer"} /\ Flat(c - N))'
  <2>1. c > N /\ rv[c] \in {"Initial", "Consumer"} /\ Flat(c - N)
    BY DEF InnerInv
  <2>2. QED BY <1>1, <1>2, <2>1
<1>4. ASSUME NEW u \in AllThreads, pc'[u].op = "subscribe"
      PROVE  (/\ pc[u].c \in (N + 1)..(2 * N)
              /\ rv[pc[u].c] \in {"Initial", "Producer"}
              /\ Flat(pc[u].c - N))'
  <2>1. pc'[u] = pc[u]
    BY <1>4
  <2>2. PICK c \in (N + 1)..(2 * N) :
          c = pc[u].c /\ rv[c] \in {"Initial", "Producer"} /\ Flat(c - N)
    BY <1>4, <2>1 DEF InnerInv
  <2>3. Flat(c - N)' /\ pc'[u].c = c /\ rv'[c] \in {"Initial", "Producer"}
    BY <1>1, <2>1, <2>2
  <2>4. QED BY <2>3
<1>5. (\A t, u \in AllThreads :
         /\ pc[t].op = "subscribe" /\ pc[u].op = "subscribe"
         /\ pc[t].c = pc[u].c
         => t = u)'
  BY DEF InnerInv
<1>6. (\A c \in (N + 1)..(2 * N) :
         /\ rv[c] /= "Initial" => Flat(c - N)
         /\ Ready(c) => result[c] = prog.inner)'
  BY <1>1 DEF InnerInv, Ready, Grows
<1>7. QED BY <1>3, <1>4, <1>5, <1>6 DEF InnerInv

(* What has been said of combinator i stays true *)
LEMMA PipeAt ==
  ASSUME ContractInv, PipeInv, Grows, NEW i \in 1..N
  PROVE  /\ Ready(i) => (/\ runs[i - 1] = 1
                         /\ result[i] = Outcome(i, result[i - 1])
                         /\ Flat(i) => runs[Inner(i)] = 1)'
         /\ runs'[i - 1] = runs[i - 1] /\ calls'[i] = calls[i] =>
              (calls[i] = IF runs[i - 1] = 1 /\ Needs(i, result[i - 1]) THEN 1 ELSE 0)'
<1>1. i \in Contracts /\ i - 1 \in Contracts /\ Inner(i) \in Contracts
  BY ContractFacts
<1>2. runs[i - 1] = 1 => Ready(i - 1) /\ runs'[i - 1] = 1
  BY <1>1 DEF ContractInv, Ready, Grows
<1>3. ASSUME Ready(i)
      PROVE  (/\ runs[i - 1] = 1
              /\ result[i] = Outcome(i, result[i - 1])
              /\ Flat(i) => runs[Inner(i)] = 1)'
  <2>1. /\ runs[i - 1] = 1 /\ result[i] = Outcome(i, result[i - 1])
        /\ Flat(i) => runs[Inner(i)] = 1
    BY <1>3 DEF PipeInv
  <2>2. result'[i] = result[i]
    BY <1>1, <1>3 DEF Grows
  <2>3. Outcome(i, result[i - 1])' = Outcome(i, result[i - 1])
    BY <1>2, <2>1, FlatGrows
  <2>4. Flat(i)' => runs'[Inner(i)] = 1
    BY <1>1, <2>1, FlatGrows DEF Grows
  <2>5. QED BY <1>2, <2>1, <2>2, <2>3, <2>4
<1>4. ASSUME runs'[i - 1] = runs[i - 1], calls'[i] = calls[i]
      PROVE  (calls[i] = IF runs[i - 1] = 1 /\ Needs(i, result[i - 1]) THEN 1 ELSE 0)'
  <2>1. calls[i] = IF runs[i - 1] = 1 /\ Needs(i, result[i - 1]) THEN 1 ELSE 0
    BY DEF PipeInv
  <2>2. runs[i - 1] = 1 => (Needs(i, result[i - 1])' <=> Needs(i, result[i - 1]))
    BY <1>2, FlatGrows
  <2>3. QED BY <1>4, <2>1, <2>2
<1>5. QED BY <1>3, <1>4

(* The pipeline, when a step fulfils no promise of it and runs no callback *)
(* of it                                                                   *)
LEMMA PipeFrame ==
  ASSUME TypeOK, TypeOK', ContractInv, PipeInv, Grows,
         calls' = calls,
         \A i \in 0..N : Ready(i)' => Ready(i),
         \A i \in 1..N : runs'[i - 1] = runs[i - 1]
  PROVE  PipeInv'
<1>1. (Ready(0) => result[0] = prog.source)'
  BY ContractFacts DEF PipeInv, Grows
<1>2. ASSUME NEW i \in 1..N
      PROVE  /\ (Ready(i) => /\ runs[i - 1] = 1
                             /\ result[i] = Outcome(i, result[i - 1])
                             /\ Flat(i) => runs[Inner(i)] = 1)'
             /\ (calls[i] = IF runs[i - 1] = 1 /\ Needs(i, result[i - 1])
                            THEN 1 ELSE 0)'
  BY PipeAt
<1>3. QED BY <1>1, <1>2 DEF PipeInv

(* The contracts, when a step does not touch them *)
LEMMA StillGrows ==
  ASSUME UNCHANGED <<prog, rv, result, runs>>
  PROVE  Grows
BY DEF Grows, Ready

(* All but the tokens, when a step only moves callbacks about *)
LEMMA CallbackFrame ==
  ASSUME FutureInv, TypeOK', NEW t \in AllThreads, Alone(t),
         pc'[t].op \notin {"subscribe", "suspended"},
         UNCHANGED <<prog, rv, result, built, inners, fired, got, calls, runs>>
  PROVE  ContractInv' /\ BuilderInv' /\ InnerInv' /\ PipeInv'
<1>1. Grows
  BY StillGrows
<1>2. \A u \in AllThreads : pc'[u].op \in {"subscribe", "suspended"} => pc'[u] = pc[u]
  BY DEF Alone
<1>3. ContractInv'
  BY DEF FutureInv, ContractInv, Ready
<1>4. BuilderInv'
  BY <1>1, <1>2, BuilderFrame DEF FutureInv
<1>5. InnerInv'
  BY <1>1, <1>2, InnerFrame DEF FutureInv
<1>6. PipeInv'
  BY <1>1, PipeFrame DEF FutureInv, Ready
<1>7. QED BY <1>3, <1>4, <1>5, <1>6

----------------------------------------------------------------------------
(* The initial states and the steps *)

LEMMA InitInv ==
  ASSUME Init
  PROVE  FutureInv
<1>1. Home \in Places /\ Home.op = "home"
  BY ContractFacts DEF Home, At, Places
<1>2. \A t \in AllThreads : pc[t].op = "home"
  BY <1>1 DEF Init
<1>3. TypeOK
  <2>1. /\ prog \in Programs
        /\ rv \in [Contracts -> States \cup {"Panic"}]
        /\ result \in [Contracts -> {"ok", "err", None}]
    BY DEF Init, States
  <2>2. pc \in [AllThreads -> Places]
    BY <1>1 DEF Init
  <2>3. built \in 0..(N + 3)
    BY ContractFacts DEF Init
  <2>4. /\ queue \in Seq(Contracts \cup {Fiber})
        /\ inners \subseteq Contracts /\ gone \subseteq 1..N
        /\ got \in {"ok", "err", None}
    BY DEF Init
  <2>5. stopped \in BOOLEAN /\ fired \in BOOLEAN
    BY DEF Init
  <2>6. calls \in [1..N -> Nat] /\ runs \in [Contracts -> Nat]
    BY DEF Init
  <2>7. QED BY <2>1, <2>2, <2>3, <2>4, <2>5, <2>6 DEF TypeOK, Places
<1>4. TokenInv
  BY <1>2, EmptyFacts DEF Init, TokenInv, Busy
<1>5. ContractInv
  BY DEF Init, ContractInv, Ready
<1>6. BuilderInv
  BY <1>2, ContractFacts DEF Init, BuilderInv
<1>7. InnerInv
  BY <1>2, ContractFacts DEF Init, InnerInv, Ready
<1>8. PipeInv
  BY ContractFacts DEF Init, PipeInv, Ready
<1>9. QED BY <1>3, <1>4, <1>5, <1>6, <1>7, <1>8 DEF FutureInv

LEMMA InvokeInlineStep ==
  ASSUME FutureInv, NEW t \in AllThreads, InvokeInline(t)
  PROVE  FutureInv'
<1>1. pc[t] \in Places
  BY DEF FutureInv, TypeOK, Places
<1>2. pc' = [pc EXCEPT ![t] = At("run", pc[t].c)]
  BY DEF InvokeInline, Goto
<1>3. At("run", pc[t].c) \in Places
  BY <1>1 DEF At, Places
<1>4. pc'[t].op = "run" /\ pc'[t].c = pc[t].c /\ Alone(t)
  BY <1>2 DEF At, Alone, FutureInv, TypeOK
<1>5. TypeOK'
  BY <1>2, <1>3 DEF InvokeInline, FutureInv, TypeOK, Places
<1>6. \A d \in Contracts \cup {Fiber} : Fresh(d) => Fresh(d)'
  BY DEF InvokeInline, Fresh
<1>7. Busy(t) /\ Busy(t)'
  BY <1>4 DEF InvokeInline, Busy
<1>8. Fresh(pc[t].c)'
  BY <1>4, <1>7 DEF InvokeInline, Fresh, FutureInv, TokenInv
<1>9. TokenInv'
  BY <1>4, <1>5, <1>6, <1>7, <1>8, TokenMove DEF InvokeInline, FutureInv
<1>10. ContractInv' /\ BuilderInv' /\ InnerInv' /\ PipeInv'
  BY <1>4, <1>5, CallbackFrame DEF InvokeInline
<1>11. QED BY <1>5, <1>9, <1>10 DEF FutureInv

LEMMA HomeFacts ==
  ASSUME TypeOK, NEW t \in AllThreads, Return(t)
  PROVE  /\ pc' \in [AllThreads -> Places]
         /\ pc'[t].op = "home" /\ Alone(t) /\ ~Busy(t)'
<1>1. Home \in Places /\ Home.op = "home"
  BY ContractFacts DEF Home, At, Places
<1>2. QED BY <1>1 DEF Return, TypeOK, Places, Alone, Busy

LEMMA InvokePoolStep ==
  ASSUME FutureInv, NEW t \in AllThreads, InvokePool(t)
  PROVE  FutureInv'
<1>1. pc' \in [AllThreads -> Places] /\ pc'[t].op = "home" /\ Alone(t) /\ ~Busy(t)'
  BY HomeFacts DEF InvokePool, FutureInv
<1>2. PICK c \in Contracts \cup {Fiber} : c = pc[t].c
  BY DEF FutureInv, TypeOK
<1>3. queue' = Append(queue, c) /\ Busy(t)
  BY <1>2 DEF InvokePool, Busy
<1>4. queue \in Seq(Contracts \cup {Fiber})
  BY DEF FutureInv, TypeOK
<1>5. /\ queue' \in Seq(Contracts \cup {Fiber})
      /\ ToSet(queue') = ToSet(queue) \cup {c}
      /\ IsInjective(queue) /\ c \notin ToSet(queue) => IsInjective(queue')
  BY <1>3, <1>4, AppendFacts
<1>6. TypeOK'
  BY <1>1, <1>5 DEF InvokePool, FutureInv, TypeOK, Places
<1>7. \A d : Fresh(d) <=> Fresh(d)'
  BY DEF InvokePool, Fresh
<1>8. \A u \in AllThreads : Busy(u)' => u /= t /\ Busy(u) /\ pc'[u].c = pc[u].c
  BY <1>1 DEF Alone, Busy
<1>9. c \notin ToSet(queue) /\ Fresh(c) /\ IsInjective(queue)
  BY <1>2, <1>3 DEF FutureInv, TokenInv
<1>10. (\A u, v \in AllThreads : Busy(u) /\ Busy(v) /\ pc[u].c = pc[v].c => u = v)'
  BY <1>8 DEF FutureInv, TokenInv
<1>11. (\A u \in AllThreads : Busy(u) => pc[u].c \notin ToSet(queue))'
  BY <1>2, <1>3, <1>5, <1>8 DEF FutureInv, TokenInv
<1>12. ASSUME NEW u \in AllThreads, Busy(u)'
       PROVE  Fresh(pc[u].c)'
  BY <1>8, <1>12 DEF InvokePool, Fresh, FutureInv, TokenInv
<1>13. (\A d \in ToSet(queue) : Fresh(d))'
  BY <1>5, <1>7, <1>9 DEF FutureInv, TokenInv
<1>14. TokenInv'
  BY <1>5, <1>9, <1>10, <1>11, <1>12, <1>13 DEF TokenInv
<1>15. ContractInv' /\ BuilderInv' /\ InnerInv' /\ PipeInv'
  BY <1>1, <1>6, CallbackFrame DEF InvokePool
<1>16. QED BY <1>6, <1>14, <1>15 DEF FutureInv

(* The promises that go with discarded callbacks *)
LEMMA TargetFacts ==
  ASSUME NEW c \in Contracts \cup {Fiber}
  PROVE  Target(c) \subseteq 1..N
<1>1. CASE c < N
  BY <1>1, FuturesAssumption DEF Target, Contracts, Fiber
<1>2. CASE c \in {N, Fiber}
  BY <1>2, FuturesAssumption DEF Target, Contracts, Fiber
<1>3. CASE ~(c < N) /\ c \notin {N, Fiber}
  BY <1>3, FuturesAssumption DEF Target, Contracts, Fiber
<1>4. QED BY <1>1, <1>2, <1>3

LEMMA InvokeDiscardedStep ==
  ASSUME FutureInv, NEW t \in AllThreads, InvokeDiscarded(t)
  PROVE  FutureInv'
<1>1. pc' \in [AllThreads -> Places] /\ pc'[t].op = "home" /\ Alone(t) /\ ~Busy(t)'
  BY HomeFacts DEF InvokeDiscarded, FutureInv
<1>2. Target(pc[t].c) \subseteq 1..N
  BY TargetFacts DEF FutureInv, TypeOK
<1>3. TypeOK'
  BY <1>1, <1>2 DEF InvokeDiscarded, FutureInv, TypeOK, Places
<1>4. \A d \in Contracts \cup {Fiber} : Fresh(d) => Fresh(d)'
  BY DEF InvokeDiscarded, Fresh
<1>5. TokenInv'
  BY <1>1, <1>3, <1>4, TokenMove DEF InvokeDiscarded, FutureInv
<1>6. ContractInv' /\ BuilderInv' /\ InnerInv' /\ PipeInv'
  BY <1>1, <1>3, CallbackFrame DEF InvokeDiscarded
<1>7. QED BY <1>3, <1>5, <1>6 DEF FutureInv

LEMMA WorkerTakeStep ==
  ASSUME FutureInv, NEW w \in Workers, WorkerTake(w)
  PROVE  FutureInv'
<1>1. w \in AllThreads
  BY DEF AllThreads
<1>2. queue \in Seq(Contracts \cup {Fiber}) /\ queue /= <<>>
  BY DEF WorkerTake, FutureInv, TypeOK
<1>3. PICK h : h = Head(queue)
  OBVIOUS
<1>4. /\ h \in Contracts \cup {Fiber}
      /\ queue' \in Seq(Contracts \cup {Fiber})
      /\ ToSet(queue) = {h} \cup ToSet(queue')
      /\ IsInjective(queue) => IsInjective(queue') /\ h \notin ToSet(queue')
  BY <1>2, <1>3, PopFacts DEF WorkerTake
<1>5. pc' = [pc EXCEPT ![w] = At("run", h)]
  BY <1>3 DEF WorkerTake, Goto
<1>6. At("run", h) \in Places
  BY <1>4 DEF At, Places
<1>7. pc'[w].op = "run" /\ pc'[w].c = h /\ Alone(w)
  BY <1>1, <1>5 DEF At, Alone, FutureInv, TypeOK
<1>8. TypeOK'
  <2>1. pc' \in [AllThreads -> Places]
    BY <1>1, <1>5, <1>6 DEF FutureInv, TypeOK, Places
  <2>2. QED BY <1>4, <2>1 DEF WorkerTake, FutureInv, TypeOK, Places
<1>9. \A d : Fresh(d) <=> Fresh(d)'
  BY DEF WorkerTake, Fresh
<1>10. \A u \in AllThreads : u /= w => (Busy(u)' <=> Busy(u)) /\ pc'[u].c = pc[u].c
  BY <1>7 DEF Alone, Busy
<1>11. Fresh(h) /\ IsInjective(queue)
  BY <1>4 DEF FutureInv, TokenInv
<1>12. \A u \in AllThreads : Busy(u) => pc[u].c /= h /\ pc[u].c \notin ToSet(queue')
  BY <1>4 DEF FutureInv, TokenInv
<1>13. (\A u, v \in AllThreads : Busy(u) /\ Busy(v) /\ pc[u].c = pc[v].c => u = v)'
  BY <1>7, <1>10, <1>12 DEF FutureInv, TokenInv
<1>14. (\A u \in AllThreads : Busy(u) => pc[u].c \notin ToSet(queue))'
  BY <1>4, <1>7, <1>10, <1>11, <1>12
<1>15. ASSUME NEW u \in AllThreads, Busy(u)'
       PROVE  Fresh(pc[u].c)'
  <2>1. PICK d : d = pc'[u].c
    OBVIOUS
  <2>2. Fresh(d)
    BY <1>7, <1>10, <1>11, <1>15, <2>1 DEF FutureInv, TokenInv
  <2>3. QED BY <2>1, <2>2 DEF WorkerTake, Fresh
<1>16. (\A d \in ToSet(queue) : Fresh(d))'
  BY <1>4, <1>9 DEF FutureInv, TokenInv
<1>17. TokenInv'
  BY <1>4, <1>11, <1>13, <1>14, <1>15, <1>16 DEF TokenInv
<1>18. ContractInv' /\ BuilderInv' /\ InnerInv' /\ PipeInv'
  BY <1>1, <1>7, <1>8, CallbackFrame DEF WorkerTake
<1>19. QED BY <1>8, <1>17, <1>18 DEF FutureInv

LEMMA StopPoolStep ==
  ASSUME FutureInv, StopPool
  PROVE  FutureInv'
<1>1. "builder" \in AllThreads
  BY DEF AllThreads
<1>2. \A k \in 1..Len(queue) : Target(queue[k]) \subseteq 1..N
  <2>1. \A k \in 1..Len(queue) : queue[k] \in Contracts \cup {Fiber}
    BY ElementOfSeq DEF FutureInv, TypeOK
  <2>2. QED BY <2>1, TargetFacts
<1>3. UNION {Target(queue[k]) : k \in 1..Len(queue)} \subseteq 1..N
  BY <1>2
<1>4. TypeOK'
  <2>1. gone' \subseteq 1..N /\ stopped' \in BOOLEAN
    BY <1>3 DEF StopPool, FutureInv, TypeOK
  <2>2. queue' \in Seq(Contracts \cup {Fiber})
    BY DEF StopPool
  <2>3. QED BY <2>1, <2>2 DEF StopPool, FutureInv, TypeOK
<1>5. ToSet(queue') = {} /\ IsInjective(queue')
  BY EmptyFacts DEF StopPool
<1>6. TokenInv'
  BY <1>5 DEF StopPool, FutureInv, TokenInv, Busy, Fresh
<1>7. ContractInv'
  BY DEF StopPool, FutureInv, ContractInv, Ready
<1>8. Grows
  BY StillGrows DEF StopPool
<1>9. BuilderInv'
  BY <1>4, <1>8, BuilderFrame DEF StopPool, FutureInv
<1>10. InnerInv'
  BY <1>4, <1>8, InnerFrame DEF StopPool, FutureInv
<1>11. PipeInv'
  BY <1>4, <1>8, PipeFrame DEF StopPool, FutureInv, Ready
<1>12. QED BY <1>4, <1>6, <1>7, <1>9, <1>10, <1>11 DEF FutureInv

(* What SetCallback on an unconsumed future does to the tokens, the        *)
(* contracts and the pipeline, whatever else the step does                 *)
LEMMA Consuming ==
  ASSUME FutureInv, TypeOK', NEW t \in AllThreads, NEW c \in Contracts, ~Busy(t),
         SetCallback(t, c), rv[c] \in {"Initial", "Producer"},
         UNCHANGED <<prog, result, queue, runs, got, calls>>,
         (built = N + 3 => built' = N + 3)
  PROVE  Grows /\ TokenInv' /\ ContractInv' /\ PipeInv'
<1>1. /\ \A d \in Contracts : d /= c => rv'[d] = rv[d]
      /\ Alone(t)
      /\ \/ rv[c] = "Initial" /\ rv'[c] = "Consumer" /\ pc'[t].op = "home"
         \/ /\ rv[c] = "Producer" /\ rv'[c] = "Rendezvous"
            /\ pc'[t].op = "invoke" /\ pc'[t].c = c
  BY SetCallbackFacts DEF FutureInv, Alone
<1>2. Grows
  BY <1>1 DEF Grows, Ready
<1>3. c /= Fiber
  BY ContractFacts
<1>4. runs[c] = 0
  BY DEF FutureInv, ContractInv
<1>5. \A d \in Contracts \cup {Fiber} : Fresh(d) => Fresh(d)'
  BY <1>1, <1>3 DEF Fresh
<1>6. Busy(t)' => ~Fresh(pc'[t].c)
  BY <1>1 DEF Fresh, Busy
<1>7. Busy(t)' => Fresh(pc[t].c)'
  BY <1>1, <1>3, <1>4 DEF Fresh, Busy
<1>8. TokenInv'
  BY <1>1, <1>5, <1>6, <1>7, TokenMove DEF FutureInv
<1>9. ContractInv'
  BY <1>1, <1>4 DEF FutureInv, ContractInv, Ready
<1>10. \A i \in 0..N : Ready(i)' => Ready(i)
  BY <1>1, ContractFacts DEF Ready
<1>11. PipeInv'
  BY <1>2, <1>10, PipeFrame DEF FutureInv
<1>12. QED BY <1>2, <1>8, <1>9, <1>11

(* The builder consumes contract c: Combine, GetSubscribe and AwaitSuspend *)
LEMMA BuilderConsumes ==
  ASSUME FutureInv, NEW c \in 0..N, SetCallback("builder", c),
         pc["builder"].op \in {"home", "suspended"},
         rv[c] \in {"Initial", "Producer"},
         built' \in 0..(N + 3), built' > c, built <= built',
         c < N => built' <= c + 1,
         built = N + 3 => built' = built,
         got = None,
         fired => built' = built,
         UNCHANGED <<prog, result, inners, queue, stopped, fired, got, calls, runs, gone>>,
         c < N => pc["builder"].op = "home"
  PROVE  FutureInv'
<1>1. "builder" \in AllThreads /\ c \in Contracts /\ N \in Nat
  BY ContractFacts DEF AllThreads
<1>2. /\ rv' \in [Contracts -> States \cup {"Panic"}]
      /\ pc' \in [AllThreads -> Places]
      /\ \A d \in Contracts : d /= c => rv'[d] = rv[d]
      /\ \A u \in AllThreads : u /= "builder" => pc'[u] = pc[u]
      /\ \/ rv[c] = "Initial" /\ rv'[c] = "Consumer" /\ pc'["builder"].op = "home"
         \/ /\ rv[c] = "Producer" /\ rv'[c] = "Rendezvous"
            /\ pc'["builder"].op = "invoke" /\ pc'["builder"].c = c
  BY <1>1, SetCallbackFacts DEF FutureInv
<1>3. TypeOK'
  BY <1>2 DEF FutureInv, TypeOK, Places
<1>4. ~Busy("builder")
  BY DEF Busy
<1>5. Grows /\ TokenInv' /\ ContractInv' /\ PipeInv'
  BY <1>1, <1>3, <1>4, Consuming
<1>6. \A u \in AllThreads : pc'[u].op \in {"subscribe", "suspended"}
                            => u /= "builder" /\ pc'[u] = pc[u]
  BY <1>2
<1>7. BuilderInv'
  <2>1. (\A d \in 0..N : built <= d => rv[d] \in {"Initial", "Producer"})'
    <3> SUFFICES ASSUME NEW d \in 0..N, built' <= d
                 PROVE  rv'[d] \in {"Initial", "Producer"}
      OBVIOUS
    <3>1. built \in 0..(N + 3) /\ built <= d /\ d /= c
      BY DEF FutureInv, TypeOK
    <3>2. d \in Contracts
      BY ContractFacts
    <3>3. QED BY <1>2, <3>1, <3>2 DEF FutureInv, BuilderInv
  <2>2. \A u \in AllThreads : pc'[u].op /= "suspended"
    BY <1>6 DEF FutureInv, BuilderInv
  <2>3. (fired => built = N + 1 /\ runs[N] = 1)'
    BY DEF FutureInv, BuilderInv
  <2>4. got' = None
    OBVIOUS
  <2>5. QED BY <2>1, <2>2, <2>3, <2>4 DEF BuilderInv
<1>8. InnerInv'
  <2>1. \A d \in (N + 1)..(2 * N) : rv'[d] = rv[d] /\ result'[d] = result[d]
    BY <1>1, <1>2, ContractFacts
  <2>2. QED BY <1>3, <1>5, <1>6, <2>1, InnerFrame DEF FutureInv
<1>9. QED BY <1>3, <1>5, <1>7, <1>8 DEF FutureInv

LEMMA CombineStep ==
  ASSUME FutureInv, Combine
  PROVE  FutureInv'
<1>1. built \in 0..(N + 3) /\ N \in Nat
  BY ContractFacts DEF FutureInv, TypeOK
<1>2. built \in 0..N /\ built < N /\ built' = built + 1
  BY <1>1 DEF Combine
<1>3. PICK c \in 0..N : c = built
  BY <1>2
<1>4. rv[c] \in {"Initial", "Producer"}
  BY <1>2, <1>3 DEF FutureInv, BuilderInv
<1>5. pc["builder"].op = "home" /\ SetCallback("builder", c)
  BY <1>3 DEF Combine, Home, At
<1>6. got = None /\ ~fired
  BY <1>1, <1>2 DEF FutureInv, BuilderInv
<1>7. QED BY <1>1, <1>2, <1>3, <1>4, <1>5, <1>6, BuilderConsumes DEF Combine

LEMMA GetSubscribeStep ==
  ASSUME FutureInv, GetSubscribe
  PROVE  FutureInv'
<1>1. N \in Nat /\ N \in 0..N /\ built = N /\ built' = N + 1
  BY ContractFacts DEF GetSubscribe
<1>2. rv[N] \in {"Initial", "Producer"}
  BY <1>1 DEF FutureInv, BuilderInv
<1>3. pc["builder"].op = "home" /\ SetCallback("builder", N)
  BY DEF GetSubscribe, Home, At
<1>4. got = None /\ ~fired
  BY <1>1 DEF FutureInv, BuilderInv
<1>5. QED BY <1>1, <1>2, <1>3, <1>4, BuilderConsumes DEF GetSubscribe

LEMMA AwaitSuspendStep ==
  ASSUME FutureInv, AwaitSuspend
  PROVE  FutureInv'
<1>1. N \in Nat /\ N \in 0..N /\ N \in Contracts /\ "builder" \in AllThreads
  BY ContractFacts DEF AllThreads
<1>2. pc["builder"].op = "suspended" /\ SetCallback("builder", N) /\ built' = built
  BY DEF AwaitSuspend, At
<1>3. built = N + 3 /\ rv[N] \in {"Initial", "Producer"}
  BY <1>1, <1>2 DEF FutureInv, BuilderInv
<1>4. runs[N] = 0
  BY <1>1, <1>3 DEF FutureInv, ContractInv
<1>5. got = None
  BY <1>3, <1>4 DEF FutureInv, BuilderInv
<1>6. QED BY <1>1, <1>2, <1>3, <1>5, BuilderConsumes DEF AwaitSuspend

LEMMA GetWakeStep ==
  ASSUME FutureInv, GetWake
  PROVE  FutureInv'
<1>1. N \in Nat /\ N \in Contracts
  BY ContractFacts
<1>2. built = N + 1 /\ runs[N] = 1 /\ rv[N] = "Rendezvous"
  BY <1>1 DEF GetWake, FutureInv, BuilderInv, ContractInv
<1>3. TypeOK'
  BY <1>1 DEF GetWake, FutureInv, TypeOK
<1>4. Grows
  BY StillGrows DEF GetWake
<1>5. \A c : Fresh(c) <=> Fresh(c)'
  BY <1>1, <1>2 DEF GetWake, Fresh
<1>6. TokenInv'
  <2>1. ASSUME NEW u \in AllThreads, Busy(u)'
        PROVE  Fresh(pc[u].c)'
    BY <1>1, <1>2, <2>1 DEF GetWake, Fresh, Busy, FutureInv, TokenInv
  <2>2. QED BY <1>5, <2>1 DEF GetWake, Busy, FutureInv, TokenInv
<1>7. ContractInv'
  BY DEF GetWake, FutureInv, ContractInv, Ready
<1>8. BuilderInv'
  <2>1. (got /= None => /\ Ready(N) /\ got = result[N]
                        /\ built > N
                        /\ built = N + 3 => runs[N] = 1)'
    BY <1>1, <1>2 DEF GetWake, Ready
  <2>2. QED BY <2>1 DEF GetWake, FutureInv, BuilderInv
<1>9. InnerInv'
  BY <1>3, <1>4, InnerFrame DEF GetWake, FutureInv
<1>10. PipeInv'
  BY <1>3, <1>4, PipeFrame DEF GetWake, FutureInv, Ready
<1>11. QED BY <1>3, <1>6, <1>7, <1>8, <1>9, <1>10 DEF FutureInv

LEMMA PollStep ==
  ASSUME FutureInv, Poll
  PROVE  FutureInv'
<1>1. N \in Nat /\ N \in Contracts /\ N \in 0..N
  BY ContractFacts
<1>2. built = N /\ built' = N + 2 /\ rv[N] = "Producer" /\ got' = result[N]
  BY DEF Poll
<1>3. rv'[N] = "Rendezvous" /\ \A c \in Contracts : c /= N => rv'[c] = rv[c]
  BY <1>1, <1>2 DEF Poll, Consumed, FutureInv, TypeOK
<1>4. rv' \in [Contracts -> States \cup {"Panic"}]
  BY <1>1, <1>2, <1>3 DEF Poll, Consumed, FutureInv, TypeOK, States
<1>5. TypeOK'
  BY <1>1, <1>2, <1>4 DEF Poll, FutureInv, TypeOK
<1>6. Grows
  BY <1>1, <1>2, <1>3 DEF Poll, Grows, Ready
<1>7. runs[N] = 0
  BY <1>1, <1>2 DEF FutureInv, ContractInv
<1>8. ASSUME NEW c, Fresh(c), c \in Contracts \cup {Fiber}
      PROVE  Fresh(c)'
  BY <1>1, <1>2, <1>3, <1>8 DEF Poll, Fresh
<1>9. TokenInv'
  <2>1. ASSUME NEW u \in AllThreads, Busy(u)'
        PROVE  Fresh(pc[u].c)'
    <3>1. PICK d \in Contracts \cup {Fiber} : d = pc[u].c
      BY DEF FutureInv, TypeOK
    <3>2. Fresh(d)'
      BY <1>8, <2>1, <3>1 DEF Poll, Busy, FutureInv, TokenInv
    <3>3. QED BY <3>1, <3>2 DEF Poll, Fresh
  <2>2. \A c \in ToSet(queue) : Fresh(c)'
    BY <1>8, ToSetMember DEF FutureInv, TypeOK, TokenInv
  <2>3. QED BY <2>1, <2>2 DEF Poll, Busy, FutureInv, TokenInv
<1>10. ContractInv'
  BY <1>1, <1>2, <1>3, <1>7 DEF Poll, FutureInv, ContractInv, Ready
<1>11. BuilderInv'
  <2>1. (\A c \in 0..N : built <= c => rv[c] \in {"Initial", "Producer"})'
    BY <1>1, <1>2
  <2>2. \A u \in AllThreads : pc'[u].op /= "suspended"
    BY <1>1, <1>2 DEF Poll, FutureInv, BuilderInv
  <2>3. ~fired'
    BY <1>1, <1>2 DEF Poll, FutureInv, BuilderInv
  <2>4. (got /= None => /\ Ready(N) /\ got = result[N]
                        /\ built > N
                        /\ built = N + 3 => runs[N] = 1)'
    BY <1>1, <1>2, <1>3 DEF Poll, Ready
  <2>5. QED BY <2>1, <2>2, <2>3, <2>4 DEF BuilderInv
<1>12. InnerInv'
  <2>1. \A d \in (N + 1)..(2 * N) : rv'[d] = rv[d] /\ result'[d] = result[d]
    BY <1>1, <1>3, ContractFacts DEF Poll
  <2>2. QED BY <1>5, <1>6, <2>1, InnerFrame DEF Poll, FutureInv
<1>13. PipeInv'
  <2>1. \A i \in 0..N : Ready(i)' => Ready(i)
    BY <1>1, <1>2, <1>3, ContractFacts DEF Ready
  <2>2. QED BY <1>5, <1>6, <2>1, PipeFrame DEF Poll, FutureInv
<1>14. QED BY <1>5, <1>9, <1>10, <1>11, <1>12, <1>13 DEF FutureInv

LEMMA AwaitReadyStep ==
  ASSUME FutureInv, AwaitReady
  PROVE  FutureInv'
<1>1. N \in Nat /\ N \in Contracts /\ N \in 0..N /\ "builder" \in AllThreads
  BY ContractFacts DEF AllThreads
<1>2. built = N /\ built' = N + 3 /\ rv[N] = "Initial"
  BY DEF AwaitReady
<1>3. pc' = [pc EXCEPT !["builder"] = At("suspended", N)]
  BY DEF AwaitReady, Goto
<1>4. At("suspended", N) \in Places
  BY <1>1 DEF At, Places
<1>5. pc'["builder"].op = "suspended" /\ pc'["builder"].c = N /\ Alone("builder")
  BY <1>1, <1>3 DEF At, Alone, FutureInv, TypeOK
<1>6. TypeOK'
  <2>1. pc' \in [AllThreads -> Places]
    BY <1>3, <1>4 DEF FutureInv, TypeOK, Places
  <2>2. QED BY <1>1, <1>2, <2>1 DEF AwaitReady, FutureInv, TypeOK, Places
<1>7. Grows
  BY StillGrows DEF AwaitReady
<1>8. \A d \in Contracts \cup {Fiber} : Fresh(d) => Fresh(d)'
  BY <1>1, <1>2 DEF AwaitReady, Fresh
<1>9. TokenInv'
  BY <1>1, <1>5, <1>6, <1>8, TokenMove DEF AwaitReady, FutureInv, Busy
<1>10. ContractInv'
  BY DEF AwaitReady, FutureInv, ContractInv, Ready
<1>11. got = None /\ ~fired
  BY <1>1, <1>2 DEF FutureInv, BuilderInv
<1>12. BuilderInv'
  <2>1. (\A c \in 0..N : built <= c => rv[c] \in {"Initial", "Producer"})'
    BY <1>1, <1>2
  <2>2. ASSUME NEW u \in AllThreads, pc'[u].op = "suspended"
        PROVE  /\ u = "builder" /\ pc'[u].c = N /\ built' = N + 3
               /\ rv'[N] \in {"Initial", "Producer"}
    <3>1. u = "builder"
      BY <2>2, <1>5 DEF Alone, FutureInv, BuilderInv
    <3>2. QED BY <1>2, <1>5, <3>1 DEF AwaitReady
  <2>3. QED BY <1>11, <2>1, <2>2 DEF AwaitReady, BuilderInv
<1>13. InnerInv'
  BY <1>1, <1>5, <1>6, <1>7, InnerFrame DEF AwaitReady, FutureInv, Alone
<1>14. PipeInv'
  BY <1>6, <1>7, PipeFrame DEF AwaitReady, FutureInv, Ready
<1>15. QED BY <1>6, <1>9, <1>10, <1>12, <1>13, <1>14 DEF FutureInv

LEMMA RunFiberStep ==
  ASSUME FutureInv, NEW t \in AllThreads, RunFiber(t)
  PROVE  FutureInv'
<1>1. N \in Nat /\ N \in Contracts /\ Fiber \notin Contracts
  BY ContractFacts
<1>2. pc' \in [AllThreads -> Places] /\ pc'[t].op = "home" /\ Alone(t) /\ ~Busy(t)'
  BY HomeFacts DEF RunFiber, FutureInv
<1>3. Busy(t) /\ pc[t].c = Fiber
  BY DEF RunFiber, Running, At, Busy
<1>4. Fresh(Fiber)
  BY <1>3 DEF FutureInv, TokenInv
<1>5. built = N + 3 /\ runs[N] = 1 /\ rv[N] = "Rendezvous" /\ ~fired
  BY <1>1, <1>4 DEF Fresh, FutureInv, ContractInv, BuilderInv
<1>6. TypeOK'
  BY <1>1, <1>2 DEF RunFiber, FutureInv, TypeOK, Places
<1>7. Grows
  BY StillGrows DEF RunFiber
<1>8. \A d \in Contracts \cup {Fiber} :
        Fresh(d) /\ ~(Busy(t) /\ pc[t].c = d) => Fresh(d)'
  BY <1>3 DEF RunFiber, Fresh
<1>9. TokenInv'
  BY <1>2, <1>6, <1>8, TokenMove DEF RunFiber, FutureInv
<1>10. ContractInv'
  BY DEF RunFiber, FutureInv, ContractInv, Ready
<1>11. BuilderInv'
  <2>1. (got /= None => /\ Ready(N) /\ got = result[N]
                        /\ built > N
                        /\ built = N + 3 => runs[N] = 1)'
    BY <1>1, <1>5 DEF RunFiber, Ready
  <2>2. ASSUME NEW u \in AllThreads, pc'[u].op = "suspended"
        PROVE  /\ u = "builder" /\ pc'[u].c = N /\ built' = N + 3
               /\ rv'[N] \in {"Initial", "Producer"}
    <3>1. pc'[u] = pc[u]
      BY <1>2, <2>2 DEF Alone
    <3>2. QED BY <2>2, <3>1 DEF RunFiber, FutureInv, BuilderInv
  <2>3. (\A c \in 0..N : built <= c => rv[c] \in {"Initial", "Producer"})'
    BY DEF RunFiber, FutureInv, BuilderInv
  <2>4. QED BY <1>5, <2>1, <2>2, <2>3 DEF RunFiber, BuilderInv
<1>12. InnerInv'
  BY <1>2, <1>6, <1>7, InnerFrame DEF RunFiber, FutureInv, Alone
<1>13. PipeInv'
  BY <1>6, <1>7, PipeFrame DEF RunFiber, FutureInv, Ready
<1>14. QED BY <1>6, <1>9, <1>10, <1>11, <1>12, <1>13 DEF FutureInv

(* The run of the callback at the end of the pipeline *)
LEMMA RunLast ==
  ASSUME FutureInv, NEW t \in AllThreads, Running(t, N), CountRun(N)
  PROVE  /\ Busy(t) /\ pc[t].c = N
         /\ rv[N] = "Rendezvous" /\ runs[N] = 0 /\ runs'[N] = 1
         /\ runs' \in [Contracts -> Nat]
         /\ \A c \in Contracts : c /= N => runs'[c] = runs[c]
         /\ ~fired /\ (built = N + 3 => got = None)
         /\ ~Fresh(Fiber)
<1>1. N \in Nat /\ N \in Contracts /\ Fiber \notin Contracts
  BY ContractFacts
<1>2. Busy(t) /\ pc[t].c = N
  BY DEF Running, At, Busy
<1>3. Fresh(N)
  BY <1>2 DEF FutureInv, TokenInv
<1>4. rv[N] = "Rendezvous" /\ runs[N] = 0
  BY <1>1, <1>3 DEF Fresh
<1>5. /\ runs'[N] = 1 /\ runs' \in [Contracts -> Nat]
      /\ \A c \in Contracts : c /= N => runs'[c] = runs[c]
  BY <1>1, <1>4 DEF CountRun, FutureInv, TypeOK
<1>6. ~fired /\ (built = N + 3 => got = None) /\ ~Fresh(Fiber)
  BY <1>4 DEF FutureInv, BuilderInv, Fresh
<1>7. QED BY <1>2, <1>4, <1>5, <1>6

LEMMA RunGetterStep ==
  ASSUME FutureInv, NEW t \in AllThreads, RunGetter(t)
  PROVE  FutureInv'
<1>1. N \in Nat /\ N \in Contracts /\ Fiber \notin Contracts
  BY ContractFacts
<1>2. pc' \in [AllThreads -> Places] /\ pc'[t].op = "home" /\ Alone(t) /\ ~Busy(t)'
  BY HomeFacts DEF RunGetter, FutureInv
<1>3. /\ Busy(t) /\ pc[t].c = N
      /\ rv[N] = "Rendezvous" /\ runs[N] = 0 /\ runs'[N] = 1
      /\ runs' \in [Contracts -> Nat]
      /\ \A c \in Contracts : c /= N => runs'[c] = runs[c]
      /\ ~Fresh(Fiber)
  BY RunLast DEF RunGetter
<1>4. TypeOK'
  BY <1>2, <1>3 DEF RunGetter, FutureInv, TypeOK, Places
<1>5. Grows
  BY <1>1, <1>3 DEF RunGetter, Grows, Ready
<1>6. \A d \in Contracts \cup {Fiber} :
        Fresh(d) /\ ~(Busy(t) /\ pc[t].c = d) => Fresh(d)'
  BY <1>1, <1>3 DEF RunGetter, Fresh
<1>7. TokenInv'
  BY <1>2, <1>4, <1>6, TokenMove DEF RunGetter, FutureInv
<1>8. ContractInv'
  BY <1>1, <1>3 DEF RunGetter, FutureInv, ContractInv, Ready
<1>9. BuilderInv'
  <2>1. (got /= None => /\ Ready(N) /\ got = result[N]
                        /\ built > N
                        /\ built = N + 3 => runs[N] = 1)'
    BY <1>1, <1>3 DEF RunGetter, FutureInv, BuilderInv, Ready
  <2>2. ASSUME NEW u \in AllThreads
        PROVE  pc'[u].op /= "suspended"
    <3>1. pc'[u].op = "suspended" => pc'[u] = pc[u]
      BY <1>2 DEF Alone
    <3>2. QED BY <1>3, <3>1 DEF RunGetter, FutureInv, BuilderInv
  <2>3. (\A c \in 0..N : built <= c => rv[c] \in {"Initial", "Producer"})'
    BY DEF RunGetter, FutureInv, BuilderInv
  <2>4. QED BY <1>3, <2>1, <2>2, <2>3 DEF RunGetter, BuilderInv
<1>10. InnerInv'
  BY <1>2, <1>4, <1>5, InnerFrame DEF RunGetter, FutureInv, Alone
<1>11. PipeInv'
  <2>1. \A i \in 1..N : runs'[i - 1] = runs[i - 1]
    BY <1>1, <1>3, ContractFacts
  <2>2. QED BY <1>4, <1>5, <2>1, PipeFrame DEF RunGetter, FutureInv, Ready
<1>12. QED BY <1>4, <1>7, <1>8, <1>9, <1>10, <1>11 DEF FutureInv

LEMMA RunAwaiterStep ==
  ASSUME FutureInv, NEW t \in AllThreads, RunAwaiter(t)
  PROVE  FutureInv'
<1>1. N \in Nat /\ N \in Contracts /\ Fiber \notin Contracts
  BY ContractFacts
<1>2. pc' \in [AllThreads -> Places] /\ pc'[t].op = "home" /\ Alone(t) /\ ~Busy(t)'
  BY HomeFacts DEF RunAwaiter, FutureInv
<1>3. /\ Busy(t) /\ pc[t].c = N
      /\ rv[N] = "Rendezvous" /\ runs[N] = 0 /\ runs'[N] = 1
      /\ runs' \in [Contracts -> Nat]
      /\ \A c \in Contracts : c /= N => runs'[c] = runs[c]
      /\ ~fired /\ (built = N + 3 => got = None)
      /\ ~Fresh(Fiber)
  BY RunLast DEF RunAwaiter
<1>4. queue \in Seq(Contracts \cup {Fiber}) /\ IsInjective(queue) /\ Fiber \notin ToSet(queue)
  BY <1>3 DEF FutureInv, TypeOK, TokenInv
<1>5. /\ queue' \in Seq(Contracts \cup {Fiber})
      /\ ToSet(queue) \subseteq ToSet(queue')
      /\ ToSet(queue') \subseteq ToSet(queue) \cup {Fiber}
      /\ IsInjective(queue')
  <2>1. CASE stopped
    BY <1>4, <2>1 DEF RunAwaiter
  <2>2. CASE ~stopped
    <3>1. queue' = Append(queue, Fiber)
      BY <2>2 DEF RunAwaiter
    <3>2. PICK f \in Contracts \cup {Fiber} : f = Fiber
      OBVIOUS
    <3>3. QED BY <1>4, <3>1, <3>2, AppendFacts
  <2>3. QED BY <2>1, <2>2
<1>6. TypeOK'
  BY <1>2, <1>3, <1>5 DEF RunAwaiter, FutureInv, TypeOK, Places
<1>7. Grows
  BY <1>1, <1>3 DEF RunAwaiter, Grows, Ready
<1>8. \A d \in Contracts \cup {Fiber} : Fresh(d) /\ d /= N => Fresh(d)'
  BY <1>1, <1>3 DEF RunAwaiter, Fresh
<1>9. Fresh(Fiber)'
  BY <1>1, <1>3 DEF RunAwaiter, Fresh
<1>10. TokenInv'
  <2>1. \A u \in AllThreads : Busy(u)' => u /= t /\ Busy(u) /\ pc'[u].c = pc[u].c
    BY <1>2 DEF Alone, Busy
  <2>2. \A u \in AllThreads : Busy(u) => Fresh(pc[u].c) /\ pc[u].c /= Fiber
    BY <1>3 DEF FutureInv, TokenInv
  <2>3. (\A u, v \in AllThreads : Busy(u) /\ Busy(v) /\ pc[u].c = pc[v].c => u = v)'
    BY <2>1 DEF FutureInv, TokenInv
  <2>4. (\A u \in AllThreads : Busy(u) => pc[u].c \notin ToSet(queue))'
    BY <1>5, <2>1, <2>2 DEF FutureInv, TokenInv
  <2>5. ASSUME NEW u \in AllThreads, Busy(u)'
        PROVE  Fresh(pc[u].c)'
    <3>1. PICK d \in Contracts \cup {Fiber} : d = pc[u].c
      BY DEF FutureInv, TypeOK
    <3>2. Fresh(d) /\ d /= N
      BY <1>3, <2>1, <2>2, <2>5, <3>1 DEF FutureInv, TokenInv
    <3>3. Fresh(d)' /\ pc'[u].c = d
      BY <1>8, <2>1, <2>5, <3>1, <3>2
    <3>4. QED BY <3>3 DEF Fresh
  <2>6. ASSUME NEW d \in ToSet(queue')
        PROVE  Fresh(d)'
    <3>1. CASE d = Fiber
      BY <1>9, <3>1 DEF Fresh
    <3>2. CASE d \in ToSet(queue)
      <4>1. Fresh(d) /\ d /= N
        BY <1>3, <3>2 DEF FutureInv, TokenInv
      <4>2. d \in Contracts \cup {Fiber}
        BY <1>4, <3>2, ToSetMember
      <4>3. QED BY <1>8, <4>1, <4>2
    <3>3. QED BY <1>5, <3>1, <3>2
  <2>7. QED BY <1>5, <2>3, <2>4, <2>5, <2>6 DEF TokenInv
<1>11. ContractInv'
  BY <1>1, <1>3 DEF RunAwaiter, FutureInv, ContractInv, Ready
<1>12. BuilderInv'
  <2>1. \A u \in AllThreads : pc'[u].op = "suspended" => pc'[u] = pc[u]
    BY <1>2 DEF Alone
  <2>2. QED BY <1>6, <1>7, <2>1, BuilderFrame DEF RunAwaiter, FutureInv
<1>13. InnerInv'
  BY <1>2, <1>6, <1>7, InnerFrame DEF RunAwaiter, FutureInv, Alone
<1>14. PipeInv'
  <2>1. \A i \in 1..N : runs'[i - 1] = runs[i - 1]
    BY <1>1, <1>3, ContractFacts
  <2>2. QED BY <1>6, <1>7, <2>1, PipeFrame DEF RunAwaiter, FutureInv, Ready
<1>15. QED BY <1>6, <1>10, <1>11, <1>12, <1>13, <1>14 DEF FutureInv

(* SetResult on an unfulfilled contract that the callback b, run by t, or  *)
(* nobody's callback fulfils: all but the pipeline and the inner contracts *)
LEMMA Fulfilling ==
  ASSUME FutureInv, TypeOK', NEW t \in AllThreads, NEW c \in Contracts,
         NEW r \in {"ok", "err"}, SetResult(t, c, r),
         rv[c] \in {"Initial", "Consumer"},
         \A d \in Contracts : runs'[d] = runs[d]
                              \/ (Busy(t) /\ pc[t].c = d /\ d /= N /\ runs'[d] = 1),
         UNCHANGED <<prog, built, queue, fired, got>>
  PROVE  Grows /\ TokenInv' /\ ContractInv' /\ BuilderInv'
<1>1. /\ result'[c] = r
      /\ \A d \in Contracts : d /= c => result'[d] = result[d] /\ rv'[d] = rv[d]
      /\ Alone(t)
      /\ \/ rv[c] = "Initial" /\ rv'[c] = "Producer" /\ pc'[t].op = "home"
         \/ /\ rv[c] = "Consumer" /\ rv'[c] = "Rendezvous"
            /\ pc'[t].op = "invoke" /\ pc'[t].c = c
  BY SetResultFacts DEF FutureInv, Alone
<1>2. c /= Fiber /\ r /= None /\ N \in Contracts
  BY ContractFacts, FuturesAssumption
<1>3. ASSUME NEW d \in Contracts, runs'[d] /= runs[d]
      PROVE  /\ Busy(t) /\ pc[t].c = d /\ d /= N /\ runs'[d] = 1
             /\ rv[d] = "Rendezvous" /\ d /= c /\ runs[d] = 0
  <2>1. Busy(t) /\ pc[t].c = d /\ d /= N /\ runs'[d] = 1
    BY <1>3
  <2>2. Fresh(d)
    BY <2>1 DEF FutureInv, TokenInv
  <2>3. QED BY <2>1, <2>2 DEF Fresh
<1>4. Grows
  BY <1>1, <1>3 DEF Grows, Ready
<1>5. runs[c] = 0 /\ runs'[c] = 0
  BY <1>3 DEF FutureInv, ContractInv
<1>6. runs'[N] = runs[N]
  BY <1>2, <1>3
<1>7. \A d \in Contracts \cup {Fiber} :
        Fresh(d) /\ ~(Busy(t) /\ pc[t].c = d) => Fresh(d)'
  <2> SUFFICES ASSUME NEW d \in Contracts \cup {Fiber}, Fresh(d),
                      ~(Busy(t) /\ pc[t].c = d)
               PROVE  Fresh(d)'
    OBVIOUS
  <2>1. CASE d \in Contracts
    BY <1>1, <1>2, <1>3, <2>1, ContractFacts DEF Fresh
  <2>2. CASE d = Fiber
    BY <1>6, <2>2, ContractFacts DEF Fresh
  <2>3. QED BY <2>1, <2>2
<1>8. Busy(t)' => ~Fresh(pc'[t].c)
  BY <1>1 DEF Fresh, Busy
<1>9. Busy(t)' => Fresh(pc[t].c)'
  BY <1>1, <1>2, <1>5 DEF Fresh, Busy
<1>10. TokenInv'
  BY <1>1, <1>7, <1>8, <1>9, TokenMove DEF FutureInv
<1>11. ContractInv'
  <2> SUFFICES ASSUME NEW d \in Contracts
               PROVE  (/\ rv[d] /= "Panic"
                       /\ runs[d] \in {0, 1}
                       /\ runs[d] = 1 => rv[d] = "Rendezvous"
                       /\ Ready(d) => result[d] /= None)'
    BY DEF ContractInv
  <2>1. CASE d = c
    BY <1>1, <1>2, <1>5, <2>1 DEF Ready
  <2>2. CASE d /= c
    BY <1>1, <1>3, <2>2 DEF FutureInv, ContractInv, Ready
  <2>3. QED BY <2>1, <2>2
<1>12. BuilderInv'
  <2>1. \A d \in 0..N :
          rv[d] \in {"Initial", "Producer"} => rv'[d] \in {"Initial", "Producer"}
    BY <1>1, ContractFacts
  <2>2. \A u \in AllThreads : pc'[u].op = "suspended" => pc'[u] = pc[u]
    BY <1>1 DEF Alone
  <2>3. QED BY <1>4, <2>1, <2>2, BuilderFrame DEF FutureInv
<1>13. QED BY <1>4, <1>10, <1>11, <1>12

LEMMA SetSourceStep ==
  ASSUME FutureInv, SetSource
  PROVE  FutureInv'
<1>1. /\ "source" \in AllThreads /\ 0 \in Contracts /\ N \in Nat
      /\ prog.source \in {"ok", "err"} /\ rv[0] \in {"Initial", "Consumer"}
  BY ContractFacts, ProgramFacts DEF AllThreads, SetSource, FutureInv
<1>2. /\ result' \in [Contracts -> {"ok", "err", None}]
      /\ rv' \in [Contracts -> States \cup {"Panic"}]
      /\ pc' \in [AllThreads -> Places]
      /\ result'[0] = prog.source
      /\ \A d \in Contracts : d /= 0 => result'[d] = result[d] /\ rv'[d] = rv[d]
      /\ \A u \in AllThreads : u /= "source" => pc'[u] = pc[u]
      /\ pc'["source"].op \in {"home", "invoke"}
  BY <1>1, SetResultFacts DEF SetSource, FutureInv
<1>3. TypeOK'
  BY <1>2 DEF SetSource, FutureInv, TypeOK, Places
<1>4. Grows /\ TokenInv' /\ ContractInv' /\ BuilderInv'
  BY <1>1, <1>3, Fulfilling DEF SetSource
<1>5. InnerInv'
  <2>1. \A d \in (N + 1)..(2 * N) : rv'[d] = rv[d] /\ result'[d] = result[d]
    BY <1>1, <1>2, ContractFacts
  <2>2. \A u \in AllThreads : pc'[u].op = "subscribe" => pc'[u] = pc[u]
    BY <1>2
  <2>3. QED BY <1>3, <1>4, <2>1, <2>2, InnerFrame DEF SetSource, FutureInv
<1>6. PipeInv'
  <2>1. (Ready(0) => result[0] = prog.source)'
    BY <1>2 DEF SetSource
  <2>2. ASSUME NEW i \in 1..N
        PROVE  /\ (Ready(i) => /\ runs[i - 1] = 1
                               /\ result[i] = Outcome(i, result[i - 1])
                               /\ Flat(i) => runs[Inner(i)] = 1)'
               /\ (calls[i] = IF runs[i - 1] = 1 /\ Needs(i, result[i - 1])
                              THEN 1 ELSE 0)'
    <3>1. i \in Contracts /\ i /= 0
      BY ContractFacts
    <3>2. Ready(i)' => Ready(i)
      BY <1>2, <3>1 DEF Ready
    <3>3. QED BY <1>4, <3>2, PipeAt DEF SetSource, FutureInv
  <2>3. QED BY <2>1, <2>2 DEF PipeInv
<1>7. QED BY <1>3, <1>4, <1>5, <1>6 DEF FutureInv

(* The run of a callback of the pipeline touches only contract i *)
LEMMA PipeFulfil ==
  ASSUME FutureInv, TypeOK', Grows, NEW i \in 1..N, NEW b \in Contracts,
         \A d \in Contracts : d /= i => rv'[d] = rv[d] /\ result'[d] = result[d],
         \A d \in Contracts : d /= b => runs'[d] = runs[d],
         \A j \in 1..N : j /= i => b /= j - 1 /\ calls'[j] = calls[j],
         (Ready(i) => /\ runs[i - 1] = 1
                      /\ result[i] = Outcome(i, result[i - 1])
                      /\ Flat(i) => runs[Inner(i)] = 1)',
         (calls[i] = IF runs[i - 1] = 1 /\ Needs(i, result[i - 1]) THEN 1 ELSE 0)'
  PROVE  PipeInv'
<1>1. 0 \in Contracts /\ i /= 0
  BY ContractFacts
<1>2. (Ready(0) => result[0] = prog.source)'
  BY <1>1 DEF FutureInv, PipeInv, Grows, Ready
<1>3. ASSUME NEW j \in 1..N
      PROVE  /\ (Ready(j) => /\ runs[j - 1] = 1
                             /\ result[j] = Outcome(j, result[j - 1])
                             /\ Flat(j) => runs[Inner(j)] = 1)'
             /\ (calls[j] = IF runs[j - 1] = 1 /\ Needs(j, result[j - 1])
                            THEN 1 ELSE 0)'
  <2>1. CASE j = i
    BY <2>1
  <2>2. CASE j /= i
    <3>1. j \in Contracts /\ j - 1 \in Contracts
      BY ContractFacts
    <3>2. Ready(j)' => Ready(j)
      BY <2>2, <3>1 DEF Ready
    <3>3. runs'[j - 1] = runs[j - 1] /\ calls'[j] = calls[j]
      BY <2>2, <3>1
    <3>4. QED BY <3>2, <3>3, PipeAt DEF FutureInv
  <2>3. QED BY <2>1, <2>2
<1>4. QED BY <1>2, <1>3 DEF PipeInv

(* The callback of contract i - 1 runs and fulfils contract i without an   *)
(* inner future: RunPass and RunContinuation                               *)
LEMMA RunDirect ==
  ASSUME FutureInv, NEW t \in AllThreads, NEW i \in 1..N, NEW r \in {"ok", "err"},
         Running(t, i - 1), CountRun(i - 1), SetResult(t, i, r),
         r = Outcome(i, result[i - 1]),
         ~(Needs(i, result[i - 1]) /\ prog.kind[i] = "flat"),
         calls' = [calls EXCEPT ![i] = IF Needs(i, result[i - 1]) THEN 1 ELSE 0],
         UNCHANGED <<prog, built, inners, queue, stopped, fired, got, gone>>
  PROVE  FutureInv'
<1>1. /\ N \in Nat /\ i \in Contracts /\ i - 1 \in Contracts /\ i - 1 /= N /\ i - 1 /= i
      /\ Inner(i) \in Contracts
  BY ContractFacts
<1>2. Busy(t) /\ pc[t].c = i - 1
  BY DEF Running, At, Busy
<1>3. Fresh(i - 1)
  BY <1>2 DEF FutureInv, TokenInv
<1>4. rv[i - 1] = "Rendezvous" /\ runs[i - 1] = 0
  BY <1>1, <1>3 DEF Fresh
<1>5. /\ runs'[i - 1] = 1 /\ runs' \in [Contracts -> Nat]
      /\ \A d \in Contracts : d /= i - 1 => runs'[d] = runs[d]
  BY <1>1, <1>4 DEF CountRun, FutureInv, TypeOK
<1>6. rv[i] \in {"Initial", "Consumer"}
  <2>1. ~Ready(i)
    BY <1>4 DEF FutureInv, PipeInv
  <2>2. rv[i] \in States
    BY <1>1 DEF FutureInv, TypeOK, ContractInv
  <2>3. QED BY <2>1, <2>2 DEF Ready, States
<1>7. /\ result' \in [Contracts -> {"ok", "err", None}]
      /\ rv' \in [Contracts -> States \cup {"Panic"}]
      /\ pc' \in [AllThreads -> Places]
      /\ result'[i] = r
      /\ \A d \in Contracts : d /= i => result'[d] = result[d] /\ rv'[d] = rv[d]
      /\ \A u \in AllThreads : u /= t => pc'[u] = pc[u]
      /\ pc'[t].op \in {"home", "invoke"}
  BY <1>1, <1>6, SetResultFacts DEF FutureInv
<1>8. TypeOK'
  <2>1. calls' \in [1..N -> Nat]
    BY DEF FutureInv, TypeOK
  <2>2. QED BY <1>5, <1>7, <2>1 DEF FutureInv, TypeOK, Places
<1>9. Grows /\ TokenInv' /\ ContractInv' /\ BuilderInv'
  <2>1. \A d \in Contracts : runs'[d] = runs[d]
                             \/ (Busy(t) /\ pc[t].c = d /\ d /= N /\ runs'[d] = 1)
    BY <1>1, <1>2, <1>5
  <2>2. QED BY <1>1, <1>6, <1>8, <2>1, Fulfilling
<1>10. InnerInv'
  <2>1. \A d \in (N + 1)..(2 * N) : rv'[d] = rv[d] /\ result'[d] = result[d]
    BY <1>1, <1>7, ContractFacts
  <2>2. \A u \in AllThreads : pc'[u].op = "subscribe" => pc'[u] = pc[u]
    BY <1>7
  <2>3. QED BY <1>8, <1>9, <2>1, <2>2, InnerFrame DEF FutureInv
<1>11. PipeInv'
  <2>1. Ready(i - 1)
    BY <1>4 DEF Ready
  <2>2. /\ Outcome(i, result[i - 1])' = Outcome(i, result[i - 1])
        /\ Needs(i, result[i - 1])' <=> Needs(i, result[i - 1])
    BY <1>9, <2>1, FlatGrows DEF FutureInv
  <2>3. ~Flat(i)'
    BY <2>2 DEF Flat
  <2>4. calls'[i] = (IF Needs(i, result[i - 1]) THEN 1 ELSE 0)
        /\ \A j \in 1..N : j /= i => calls'[j] = calls[j]
    BY DEF FutureInv, TypeOK
  <2>5. (/\ runs[i - 1] = 1
         /\ result[i] = Outcome(i, result[i - 1])
         /\ Flat(i) => runs[Inner(i)] = 1)'
    BY <1>5, <1>7, <2>2, <2>3
  <2>6. (calls[i] = IF runs[i - 1] = 1 /\ Needs(i, result[i - 1]) THEN 1 ELSE 0)'
    BY <1>5, <2>2, <2>4
  <2>7. \A j \in 1..N : j /= i => i - 1 /= j - 1 /\ calls'[j] = calls[j]
    BY <2>4
  <2>8. PICK b \in Contracts : b = i - 1
    BY <1>1
  <2>9. QED BY <1>5, <1>7, <1>8, <1>9, <2>5, <2>6, <2>7, <2>8, PipeFulfil
<1>12. QED BY <1>8, <1>9, <1>10, <1>11 DEF FutureInv

(* A running callback has its result at hand, and its continuation has not *)
(* been called.                                                            *)
LEMMA RunningFacts ==
  ASSUME FutureInv, NEW t \in AllThreads, NEW i \in 1..N, Running(t, i - 1)
  PROVE  /\ Busy(t) /\ pc[t].c = i - 1
         /\ rv[i - 1] = "Rendezvous" /\ runs[i - 1] = 0 /\ calls[i] = 0
         /\ result[i - 1] \in {"ok", "err"}
<1>1. i - 1 \in Contracts
  BY ContractFacts
<1>2. Busy(t) /\ pc[t].c = i - 1
  BY DEF Running, At, Busy
<1>3. Fresh(i - 1)
  BY <1>2 DEF FutureInv, TokenInv
<1>4. rv[i - 1] = "Rendezvous" /\ runs[i - 1] = 0
  BY <1>1, <1>3 DEF Fresh
<1>5. calls[i] = 0
  BY <1>4 DEF FutureInv, PipeInv
<1>6. result[i - 1] \in {"ok", "err"}
  BY <1>1, <1>4 DEF FutureInv, TypeOK, ContractInv, Ready
<1>7. QED BY <1>2, <1>4, <1>5, <1>6

LEMMA RunPassStep ==
  ASSUME FutureInv, NEW t \in AllThreads, NEW i \in 1..N, RunPass(t, i)
  PROVE  FutureInv'
<1>1. /\ Running(t, i - 1) /\ CountRun(i - 1) /\ ~Needs(i, result[i - 1])
      /\ SetResult(t, i, result[i - 1])
  BY DEF RunPass
<1>2. PICK r \in {"ok", "err"} : r = result[i - 1]
  BY <1>1, RunningFacts
<1>3. r = Outcome(i, result[i - 1])
  BY <1>1, <1>2 DEF Outcome
<1>4. calls' = [calls EXCEPT ![i] = IF Needs(i, result[i - 1]) THEN 1 ELSE 0]
  <2>1. calls[i] = 0 /\ calls \in [1..N -> Nat] /\ calls' = calls
    BY <1>1, RunningFacts DEF RunPass, FutureInv, TypeOK
  <2>2. QED BY <1>1, <2>1
<1>5. UNCHANGED <<prog, built, inners, queue, stopped, fired, got, gone>>
  BY DEF RunPass
<1>6. SetResult(t, i, r) /\ ~(Needs(i, result[i - 1]) /\ prog.kind[i] = "flat")
  BY <1>1, <1>2
<1>7. QED BY <1>1, <1>3, <1>4, <1>5, <1>6, RunDirect

LEMMA RunContinuationStep ==
  ASSUME FutureInv, NEW t \in AllThreads, NEW i \in 1..N, RunContinuation(t, i)
  PROVE  FutureInv'
<1>1. /\ Running(t, i - 1) /\ CountRun(i - 1) /\ Needs(i, result[i - 1])
      /\ SetResult(t, i, Invoked(prog.fun[i])) /\ prog.kind[i] /= "flat"
  BY DEF RunContinuation
<1>2. PICK r \in {"ok", "err"} : r = Invoked(prog.fun[i])
  BY DEF Invoked
<1>3. r = Outcome(i, result[i - 1])
  BY <1>1, <1>2 DEF Outcome
<1>4. calls' = [calls EXCEPT ![i] = IF Needs(i, result[i - 1]) THEN 1 ELSE 0]
  <2>1. calls[i] = 0 /\ calls \in [1..N -> Nat]
    BY <1>1, RunningFacts DEF FutureInv, TypeOK
  <2>2. QED BY <1>1, <2>1 DEF RunContinuation
<1>5. UNCHANGED <<prog, built, inners, queue, stopped, fired, got, gone>>
  BY DEF RunContinuation
<1>6. SetResult(t, i, r) /\ ~(Needs(i, result[i - 1]) /\ prog.kind[i] = "flat")
  BY <1>1, <1>2
<1>7. QED BY <1>1, <1>3, <1>4, <1>5, <1>6, RunDirect

LEMMA RunForwardStep ==
  ASSUME FutureInv, NEW t \in AllThreads, NEW i \in 1..N, RunForward(t, i)
  PROVE  FutureInv'
<1>1. PICK b \in Contracts : b = Inner(i)
  BY ContractFacts
<1>2. /\ N \in Nat /\ i \in Contracts /\ i - 1 \in Contracts /\ b /= N /\ b /= i
      /\ b \in (N + 1)..(2 * N) /\ b - N = i
      /\ \A j \in 1..N : b /= j - 1
  BY <1>1, ContractFacts
<1>3. /\ Running(t, b) /\ CountRun(b) /\ SetResult(t, i, result[b])
      /\ calls' = calls
  BY <1>1 DEF RunForward
<1>4. UNCHANGED <<prog, built, inners, queue, stopped, fired, got, calls, gone>>
  BY DEF RunForward
<1>5. Busy(t) /\ pc[t].c = b
  BY <1>3 DEF Running, At, Busy
<1>6. Fresh(b)
  BY <1>5 DEF FutureInv, TokenInv
<1>7. rv[b] = "Rendezvous" /\ runs[b] = 0
  BY <1>6 DEF Fresh
<1>8. Flat(i) /\ result[b] = prog.inner
  BY <1>2, <1>7 DEF FutureInv, InnerInv, Ready
<1>9. PICK r \in {"ok", "err"} : r = result[b]
  BY <1>8, ProgramFacts DEF FutureInv
<1>10. /\ runs'[b] = 1 /\ runs' \in [Contracts -> Nat]
       /\ \A d \in Contracts : d /= b => runs'[d] = runs[d]
  BY <1>3, <1>7 DEF CountRun, FutureInv, TypeOK
<1>11. rv[i] \in {"Initial", "Consumer"}
  <2>1. ~Ready(i)
    BY <1>1, <1>7, <1>8 DEF FutureInv, PipeInv
  <2>2. rv[i] \in States
    BY <1>2 DEF FutureInv, TypeOK, ContractInv
  <2>3. QED BY <2>1, <2>2 DEF Ready, States
<1>12. SetResult(t, i, r)
  BY <1>3, <1>9
<1>13. /\ result' \in [Contracts -> {"ok", "err", None}]
       /\ rv' \in [Contracts -> States \cup {"Panic"}]
       /\ pc' \in [AllThreads -> Places]
       /\ result'[i] = r
       /\ \A d \in Contracts : d /= i => result'[d] = result[d] /\ rv'[d] = rv[d]
       /\ \A u \in AllThreads : u /= t => pc'[u] = pc[u]
       /\ pc'[t].op \in {"home", "invoke"}
  BY <1>2, <1>11, <1>12, SetResultFacts DEF FutureInv
<1>14. TypeOK'
  BY <1>4, <1>10, <1>13 DEF FutureInv, TypeOK, Places
<1>15. Grows /\ TokenInv' /\ ContractInv' /\ BuilderInv'
  <2>1. \A d \in Contracts : runs'[d] = runs[d]
                             \/ (Busy(t) /\ pc[t].c = d /\ d /= N /\ runs'[d] = 1)
    BY <1>2, <1>5, <1>10
  <2>2. QED BY <1>2, <1>4, <1>11, <1>12, <1>14, <2>1, Fulfilling
<1>16. InnerInv'
  <2>1. \A d \in (N + 1)..(2 * N) : rv'[d] = rv[d] /\ result'[d] = result[d]
    BY <1>2, <1>13, ContractFacts
  <2>2. \A u \in AllThreads : pc'[u].op = "subscribe" => pc'[u] = pc[u]
    BY <1>13
  <2>3. QED BY <1>4, <1>14, <1>15, <2>1, <2>2, InnerFrame DEF FutureInv
<1>17. PipeInv'
  <2>1. runs[i - 1] = 1 /\ Needs(i, result[i - 1]) /\ prog.kind[i] = "flat"
    BY <1>8 DEF Flat
  <2>2. Ready(i - 1)
    BY <1>2, <2>1 DEF FutureInv, ContractInv, Ready
  <2>3. Outcome(i, result[i - 1])' = Outcome(i, result[i - 1])
    BY <1>15, <2>2, FlatGrows DEF FutureInv
  <2>4. Outcome(i, result[i - 1]) = r
    BY <1>8, <1>9, <2>1 DEF Outcome
  <2>5. runs'[i - 1] = runs[i - 1]
    BY <1>2, <1>10
  <2>6. (/\ runs[i - 1] = 1
         /\ result[i] = Outcome(i, result[i - 1])
         /\ Flat(i) => runs[Inner(i)] = 1)'
    BY <1>1, <1>10, <1>13, <2>1, <2>3, <2>4, <2>5
  <2>7. (calls[i] = IF runs[i - 1] = 1 /\ Needs(i, result[i - 1]) THEN 1 ELSE 0)'
    BY <1>3, <1>15, <2>5, PipeAt DEF FutureInv
  <2>8. \A j \in 1..N : j /= i => b /= j - 1 /\ calls'[j] = calls[j]
    BY <1>2, <1>3
  <2>9. QED BY <1>10, <1>13, <1>14, <1>15, <2>6, <2>7, <2>8, PipeFulfil
<1>18. QED BY <1>14, <1>15, <1>16, <1>17 DEF FutureInv

LEMMA SetInnerStep ==
  ASSUME FutureInv, SetInner
  PROVE  FutureInv'
<1>1. PICK c \in inners : inners' = inners \ {c} /\ SetResult("inner", c, prog.inner)
  BY DEF SetInner
<1>2. UNCHANGED <<prog, built, queue, stopped, fired, got, calls, runs, gone>>
  BY DEF SetInner
<1>3. /\ "inner" \in AllThreads /\ c \in Contracts /\ c \in (N + 1)..(2 * N)
      /\ rv[c] \in {"Initial", "Consumer"} /\ Flat(c - N) /\ N \in Nat
      /\ prog.inner \in {"ok", "err"}
  <2>1. c \in Contracts /\ c > N /\ rv[c] \in {"Initial", "Consumer"} /\ Flat(c - N)
    BY DEF FutureInv, TypeOK, InnerInv
  <2>2. QED BY <2>1, ContractFacts, ProgramFacts DEF AllThreads, FutureInv
<1>4. /\ result' \in [Contracts -> {"ok", "err", None}]
      /\ rv' \in [Contracts -> States \cup {"Panic"}]
      /\ pc' \in [AllThreads -> Places]
      /\ result'[c] = prog.inner
      /\ \A d \in Contracts : d /= c => result'[d] = result[d] /\ rv'[d] = rv[d]
      /\ \A u \in AllThreads : u /= "inner" => pc'[u] = pc[u]
      /\ pc'["inner"].op \in {"home", "invoke"}
      /\ rv[c] = "Initial" => rv'[c] = "Producer"
  BY <1>1, <1>3, SetResultFacts DEF FutureInv
<1>5. TypeOK'
  BY <1>1, <1>2, <1>4 DEF FutureInv, TypeOK, Places
<1>6. Grows /\ TokenInv' /\ ContractInv' /\ BuilderInv'
  BY <1>1, <1>2, <1>3, <1>5, Fulfilling
<1>7. \A d \in (N + 1)..(2 * N) : Flat(d - N) => Flat(d - N)'
  BY <1>6, FlatGrows, ContractFacts DEF FutureInv
<1>8. InnerInv'
  <2>1. ASSUME NEW d \in inners'
        PROVE  (d > N /\ rv[d] \in {"Initial", "Consumer"} /\ Flat(d - N))'
    <3>1. /\ d \in Contracts /\ d /= c /\ d > N
          /\ rv[d] \in {"Initial", "Consumer"} /\ Flat(d - N)
      BY <1>1, <2>1 DEF FutureInv, TypeOK, InnerInv
    <3>2. d \in (N + 1)..(2 * N)
      BY <3>1, ContractFacts
    <3>3. QED BY <1>4, <1>7, <3>1, <3>2
  <2>2. \A u \in AllThreads : pc'[u].op = "subscribe" => pc'[u] = pc[u]
    BY <1>4
  <2>3. ASSUME NEW u \in AllThreads, pc'[u].op = "subscribe"
        PROVE  (/\ pc[u].c \in (N + 1)..(2 * N)
                /\ rv[pc[u].c] \in {"Initial", "Producer"}
                /\ Flat(pc[u].c - N))'
    <3>1. PICK d \in (N + 1)..(2 * N) :
            d = pc[u].c /\ rv[d] \in {"Initial", "Producer"} /\ Flat(d - N)
      BY <2>2, <2>3 DEF FutureInv, InnerInv
    <3>2. d \in Contracts
      BY ContractFacts
    <3>3. rv'[d] \in {"Initial", "Producer"}
      BY <1>3, <1>4, <3>1, <3>2
    <3>4. Flat(d - N)' /\ pc'[u].c = d
      BY <1>7, <2>2, <2>3, <3>1
    <3>5. QED BY <3>3, <3>4
  <2>4. (\A t, u \in AllThreads :
           /\ pc[t].op = "subscribe" /\ pc[u].op = "subscribe"
           /\ pc[t].c = pc[u].c
           => t = u)'
    BY <2>2 DEF FutureInv, InnerInv
  <2>5. ASSUME NEW d \in (N + 1)..(2 * N)
        PROVE  (/\ rv[d] /= "Initial" => Flat(d - N)
                /\ Ready(d) => result[d] = prog.inner)'
    <3>1. d \in Contracts
      BY ContractFacts
    <3>2. CASE d = c
      BY <1>2, <1>3, <1>4, <1>7, <3>2
    <3>3. CASE d /= c
      BY <1>2, <1>4, <1>7, <3>1, <3>3 DEF FutureInv, InnerInv, Ready
    <3>4. QED BY <3>2, <3>3
  <2>6. QED BY <2>1, <2>3, <2>4, <2>5 DEF InnerInv
<1>9. PipeInv'
  <2>1. \A i \in 0..N : Ready(i)' => Ready(i)
    BY <1>3, <1>4, ContractFacts DEF Ready
  <2>2. QED BY <1>2, <1>5, <1>6, <2>1, PipeFrame DEF FutureInv
<1>10. QED BY <1>5, <1>6, <1>8, <1>9 DEF FutureInv

(* The callback of contract i - 1 runs, calls its continuation and does    *)
(* not fulfil contract i: RunFlat and RunThrow                             *)
LEMMA RunUnfulfilled ==
  ASSUME FutureInv, TypeOK', NEW t \in AllThreads, NEW i \in 1..N,
         Running(t, i - 1), CountRun(i - 1), Needs(i, result[i - 1]),
         Alone(t), pc'[t].op \in {"home", "subscribe"},
         calls' = [calls EXCEPT ![i] = @ + 1],
         UNCHANGED <<prog, rv, result, built, queue, fired, got>>
  PROVE  /\ Grows /\ TokenInv' /\ ContractInv' /\ BuilderInv' /\ PipeInv'
         /\ runs[i - 1] = 0 /\ runs'[i - 1] = 1
<1>1. /\ N \in Nat /\ i \in Contracts /\ i - 1 \in Contracts /\ i - 1 /= N /\ N \in Contracts
      /\ Fiber \notin Contracts
  BY ContractFacts
<1>2. /\ Busy(t) /\ pc[t].c = i - 1
      /\ rv[i - 1] = "Rendezvous" /\ runs[i - 1] = 0 /\ calls[i] = 0
  BY RunningFacts
<1>3. /\ runs'[i - 1] = 1
      /\ \A d \in Contracts : d /= i - 1 => runs'[d] = runs[d]
  BY <1>1, <1>2 DEF CountRun, FutureInv, TypeOK
<1>4. Grows
  BY <1>1, <1>2, <1>3 DEF Grows, Ready
<1>5. TokenInv'
  <2>1. \A d \in Contracts \cup {Fiber} :
          Fresh(d) /\ ~(Busy(t) /\ pc[t].c = d) => Fresh(d)'
    BY <1>1, <1>2, <1>3 DEF Fresh
  <2>2. ~Busy(t)'
    BY DEF Busy
  <2>3. QED BY <2>1, <2>2, TokenMove DEF FutureInv
<1>6. ContractInv'
  BY <1>1, <1>2, <1>3 DEF FutureInv, ContractInv, Ready
<1>7. BuilderInv'
  <2>1. \A u \in AllThreads : pc'[u].op = "suspended" => pc'[u] = pc[u]
    BY DEF Alone
  <2>2. QED BY <1>4, <2>1, BuilderFrame DEF FutureInv
<1>8. PipeInv'
  <2>1. ~Ready(i)'
    BY <1>2 DEF FutureInv, PipeInv, Ready
  <2>2. Needs(i, result[i - 1])' <=> Needs(i, result[i - 1])
    BY DEF Needs
  <2>3. calls'[i] = 1 /\ \A j \in 1..N : j /= i => calls'[j] = calls[j]
    BY <1>2 DEF FutureInv, TypeOK
  <2>4. (Ready(i) => /\ runs[i - 1] = 1
                     /\ result[i] = Outcome(i, result[i - 1])
                     /\ Flat(i) => runs[Inner(i)] = 1)'
    BY <2>1
  <2>5. (calls[i] = IF runs[i - 1] = 1 /\ Needs(i, result[i - 1]) THEN 1 ELSE 0)'
    BY <1>3, <2>2, <2>3
  <2>6. \A j \in 1..N : j /= i => i - 1 /= j - 1 /\ calls'[j] = calls[j]
    BY <2>3
  <2>7. PICK b \in Contracts : b = i - 1
    BY <1>1
  <2>8. QED BY <1>3, <1>4, <2>4, <2>5, <2>6, <2>7, PipeFulfil
<1>9. QED BY <1>2, <1>3, <1>4, <1>5, <1>6, <1>7, <1>8

(* The history counters stay numbers. *)
LEMMA CountTypes ==
  ASSUME TypeOK, NEW i \in 1..N, CountRun(i - 1), calls' = [calls EXCEPT ![i] = @ + 1]
  PROVE  runs' \in [Contracts -> Nat] /\ calls' \in [1..N -> Nat]
<1>1. i - 1 \in Contracts
  BY ContractFacts
<1>2. runs[i - 1] + 1 \in Nat /\ calls[i] + 1 \in Nat
  <2>1. runs[i - 1] \in Nat /\ calls[i] \in Nat
    BY <1>1 DEF TypeOK
  <2>2. QED BY <2>1
<1>3. QED BY <1>1, <1>2 DEF CountRun, TypeOK

LEMMA RunThrowStep ==
  ASSUME FutureInv, NEW t \in AllThreads, NEW i \in 1..N, RunThrow(t, i)
  PROVE  FutureInv'
<1>1. pc' \in [AllThreads -> Places] /\ pc'[t].op = "home" /\ Alone(t)
  BY HomeFacts DEF RunThrow, FutureInv
<1>2. runs' \in [Contracts -> Nat] /\ calls' \in [1..N -> Nat]
  BY CountTypes DEF RunThrow, FutureInv
<1>3. TypeOK'
  <2>1. gone' \subseteq 1..N
    BY DEF RunThrow, FutureInv, TypeOK
  <2>2. QED BY <1>1, <1>2, <2>1 DEF RunThrow, FutureInv, TypeOK, Places
<1>4. Grows /\ TokenInv' /\ ContractInv' /\ BuilderInv' /\ PipeInv'
  BY <1>1, <1>3, RunUnfulfilled DEF RunThrow
<1>5. InnerInv'
  BY <1>1, <1>3, <1>4, InnerFrame DEF RunThrow, FutureInv, Alone
<1>6. QED BY <1>3, <1>4, <1>5 DEF FutureInv

LEMMA RunFlatStep ==
  ASSUME FutureInv, NEW t \in AllThreads, NEW i \in 1..N, RunFlat(t, i)
  PROVE  FutureInv'
<1>1. PICK b \in Contracts : b = Inner(i)
  BY ContractFacts
<1>2. b \in (N + 1)..(2 * N) /\ b > N /\ b - N = i /\ N \in Nat
  BY <1>1, ContractFacts
<1>3. pc' = [pc EXCEPT ![t] = At("subscribe", b)] /\ inners' = inners \cup {b}
  BY <1>1 DEF RunFlat, Goto
<1>4. At("subscribe", b) \in Places
  BY DEF At, Places
<1>5. /\ pc' \in [AllThreads -> Places]
      /\ pc'[t].op = "subscribe" /\ pc'[t].c = b /\ Alone(t)
  BY <1>3, <1>4 DEF At, Alone, FutureInv, TypeOK, Places
<1>6. UNCHANGED <<prog, rv, result, built, queue, stopped, fired, got, gone>>
  BY DEF RunFlat
<1>7. runs' \in [Contracts -> Nat] /\ calls' \in [1..N -> Nat]
  BY CountTypes DEF RunFlat, FutureInv
<1>8. TypeOK'
  BY <1>3, <1>5, <1>6, <1>7 DEF FutureInv, TypeOK, Places
<1>9. /\ Grows /\ TokenInv' /\ ContractInv' /\ BuilderInv' /\ PipeInv'
      /\ runs[i - 1] = 0 /\ runs'[i - 1] = 1
  BY <1>5, <1>8, RunUnfulfilled DEF RunFlat
<1>10. ~Flat(i) /\ Flat(i)'
  <2>1. Needs(i, result[i - 1])'
    BY <1>6 DEF RunFlat, Needs
  <2>2. QED BY <1>6, <1>9, <2>1 DEF RunFlat, Flat
<1>11. \A d \in (N + 1)..(2 * N) : Flat(d - N) => Flat(d - N)'
  BY <1>9, FlatGrows, ContractFacts DEF FutureInv
<1>12. rv[b] = "Initial"
  BY <1>2, <1>10 DEF FutureInv, InnerInv
<1>13. InnerInv'
  <2>1. ASSUME NEW d \in inners'
        PROVE  (d > N /\ rv[d] \in {"Initial", "Consumer"} /\ Flat(d - N))'
    <3>1. CASE d = b
      BY <1>2, <1>6, <1>10, <1>12, <3>1
    <3>2. CASE d \in inners
      <4>1. d \in Contracts /\ d > N /\ rv[d] \in {"Initial", "Consumer"} /\ Flat(d - N)
        BY <3>2 DEF FutureInv, TypeOK, InnerInv
      <4>2. QED BY <1>6, <1>11, <4>1, ContractFacts
    <3>3. QED BY <1>3, <3>1, <3>2
  <2>2. ASSUME NEW u \in AllThreads, pc'[u].op = "subscribe", u /= t
        PROVE  /\ pc'[u] = pc[u] /\ pc[u].c /= b
               /\ pc[u].c \in (N + 1)..(2 * N)
               /\ rv[pc[u].c] \in {"Initial", "Producer"}
               /\ Flat(pc[u].c - N)
    <3>1. pc'[u] = pc[u]
      BY <1>5, <2>2 DEF Alone
    <3>2. /\ pc[u].c \in (N + 1)..(2 * N)
          /\ rv[pc[u].c] \in {"Initial", "Producer"}
          /\ Flat(pc[u].c - N)
      BY <2>2, <3>1 DEF FutureInv, InnerInv
    <3>3. QED BY <1>2, <1>10, <3>1, <3>2
  <2>3. ASSUME NEW u \in AllThreads, pc'[u].op = "subscribe"
        PROVE  (/\ pc[u].c \in (N + 1)..(2 * N)
                /\ rv[pc[u].c] \in {"Initial", "Producer"}
                /\ Flat(pc[u].c - N))'
    <3>1. CASE u = t
      BY <1>2, <1>5, <1>6, <1>10, <1>12, <3>1
    <3>2. CASE u /= t
      <4>1. PICK d \in (N + 1)..(2 * N) :
              d = pc'[u].c /\ rv[d] \in {"Initial", "Producer"} /\ Flat(d - N)
        BY <2>2, <2>3, <3>2
      <4>2. QED BY <1>6, <1>11, <4>1
    <3>3. QED BY <3>1, <3>2
  <2>4. (\A v, u \in AllThreads :
           /\ pc[v].op = "subscribe" /\ pc[u].op = "subscribe"
           /\ pc[v].c = pc[u].c
           => v = u)'
    BY <1>5, <2>2 DEF FutureInv, InnerInv
  <2>5. (\A d \in (N + 1)..(2 * N) :
           /\ rv[d] /= "Initial" => Flat(d - N)
           /\ Ready(d) => result[d] = prog.inner)'
    BY <1>6, <1>11 DEF FutureInv, InnerInv, Ready
  <2>6. QED BY <2>1, <2>3, <2>4, <2>5 DEF InnerInv
<1>14. QED BY <1>8, <1>9, <1>13 DEF FutureInv

LEMMA SubscribeStep ==
  ASSUME FutureInv, NEW t \in AllThreads, Subscribe(t)
  PROVE  FutureInv'
<1>1. PICK c \in (N + 1)..(2 * N) :
        c = pc[t].c /\ rv[c] \in {"Initial", "Producer"} /\ Flat(c - N)
  BY DEF Subscribe, FutureInv, InnerInv
<1>2. c \in Contracts /\ N \in Nat
  BY ContractFacts
<1>3. SetCallback(t, c) /\ ~Busy(t) /\ pc[t].op = "subscribe"
  BY <1>1 DEF Subscribe, Busy
<1>4. UNCHANGED <<prog, result, built, inners, queue, stopped, fired, got, calls, runs, gone>>
  BY DEF Subscribe
<1>5. /\ rv' \in [Contracts -> States \cup {"Panic"}]
      /\ pc' \in [AllThreads -> Places]
      /\ \A d \in Contracts : d /= c => rv'[d] = rv[d]
      /\ \A u \in AllThreads : u /= t => pc'[u] = pc[u]
      /\ pc'[t].op \in {"home", "invoke"}
      /\ rv[c] = "Initial" => rv'[c] = "Consumer"
      /\ Ready(c)' => Ready(c)
  BY <1>1, <1>2, <1>3, SetCallbackFacts DEF FutureInv, Ready
<1>6. TypeOK'
  BY <1>4, <1>5 DEF FutureInv, TypeOK, Places
<1>7. Grows /\ TokenInv' /\ ContractInv' /\ PipeInv'
  BY <1>1, <1>2, <1>3, <1>4, <1>6, Consuming
<1>8. BuilderInv'
  <2>1. \A d \in 0..N :
          rv[d] \in {"Initial", "Producer"} => rv'[d] \in {"Initial", "Producer"}
    BY <1>2, <1>5, ContractFacts
  <2>2. \A u \in AllThreads : pc'[u].op = "suspended" => pc'[u] = pc[u]
    BY <1>5
  <2>3. QED BY <1>4, <1>6, <1>7, <2>1, <2>2, BuilderFrame DEF FutureInv
<1>9. \A d \in (N + 1)..(2 * N) : Flat(d - N) => Flat(d - N)'
  BY <1>7, FlatGrows, ContractFacts DEF FutureInv
<1>10. InnerInv'
  <2>1. ASSUME NEW d \in inners'
        PROVE  (d > N /\ rv[d] \in {"Initial", "Consumer"} /\ Flat(d - N))'
    <3>1. /\ d \in Contracts /\ d > N
          /\ rv[d] \in {"Initial", "Consumer"} /\ Flat(d - N)
      BY <1>4 DEF FutureInv, TypeOK, InnerInv
    <3>2. rv'[d] \in {"Initial", "Consumer"}
      BY <1>1, <1>5, <3>1
    <3>3. QED BY <1>9, <3>1, <3>2, ContractFacts
  <2>2. \A u \in AllThreads : pc'[u].op = "subscribe" => u /= t /\ pc'[u] = pc[u]
    BY <1>5
  <2>3. ASSUME NEW u \in AllThreads, pc'[u].op = "subscribe"
        PROVE  (/\ pc[u].c \in (N + 1)..(2 * N)
                /\ rv[pc[u].c] \in {"Initial", "Producer"}
                /\ Flat(pc[u].c - N))'
    <3>1. PICK d \in (N + 1)..(2 * N) :
            d = pc[u].c /\ rv[d] \in {"Initial", "Producer"} /\ Flat(d - N)
      BY <2>2, <2>3 DEF FutureInv, InnerInv
    <3>2. d /= c /\ d \in Contracts
      BY <1>1, <1>3, <2>2, <2>3, <3>1, ContractFacts DEF FutureInv, InnerInv
    <3>3. Flat(d - N)' /\ pc'[u].c = d /\ rv'[d] \in {"Initial", "Producer"}
      BY <1>5, <1>9, <2>2, <2>3, <3>1, <3>2
    <3>4. QED BY <3>3
  <2>4. (\A v, u \in AllThreads :
           /\ pc[v].op = "subscribe" /\ pc[u].op = "subscribe"
           /\ pc[v].c = pc[u].c
           => v = u)'
    BY <2>2 DEF FutureInv, InnerInv
  <2>5. ASSUME NEW d \in (N + 1)..(2 * N)
        PROVE  (/\ rv[d] /= "Initial" => Flat(d - N)
                /\ Ready(d) => result[d] = prog.inner)'
    <3>1. d \in Contracts
      BY ContractFacts
    <3>2. CASE d = c
      BY <1>1, <1>4, <1>5, <1>9, <3>2 DEF FutureInv, InnerInv
    <3>3. CASE d /= c
      BY <1>4, <1>5, <1>9, <3>1, <3>3 DEF FutureInv, InnerInv, Ready
    <3>4. QED BY <3>2, <3>3
  <2>6. QED BY <2>1, <2>3, <2>4, <2>5 DEF InnerInv
<1>11. QED BY <1>6, <1>7, <1>8, <1>10 DEF FutureInv

LEMMA NextInv ==
  ASSUME FutureInv, [Next]_vars
  PROVE  FutureInv'
<1>1. CASE SetSource \/ SetInner
  BY <1>1, SetSourceStep, SetInnerStep
<1>2. CASE BuilderStep
  BY <1>2, CombineStep, GetSubscribeStep, GetWakeStep, PollStep, AwaitReadyStep,
     AwaitSuspendStep DEF BuilderStep
<1>3. ASSUME NEW t \in AllThreads, CallbackStep(t)
      PROVE  FutureInv'
  <2>1. ASSUME NEW i \in 1..N,
               \/ RunPass(t, i) \/ RunContinuation(t, i)
               \/ RunFlat(t, i) \/ RunThrow(t, i) \/ RunForward(t, i)
        PROVE  FutureInv'
    BY <2>1, RunPassStep, RunContinuationStep, RunFlatStep, RunThrowStep,
       RunForwardStep
  <2>2. QED BY <1>3, <2>1, InvokeInlineStep, InvokePoolStep, InvokeDiscardedStep,
                SubscribeStep, RunGetterStep, RunAwaiterStep, RunFiberStep
            DEF CallbackStep
<1>4. CASE \E w \in Workers : WorkerTake(w)
  BY <1>4, WorkerTakeStep
<1>5. CASE StopPool
  BY <1>5, StopPoolStep
<1>6. CASE UNCHANGED vars
  <2>1. TypeOK'
    BY <1>6 DEF vars, FutureInv, TypeOK
  <2>2. TokenInv'
    BY <1>6 DEF vars, FutureInv, TokenInv, Busy, Fresh
  <2>3. ContractInv'
    BY <1>6 DEF vars, FutureInv, ContractInv, Ready
  <2>4. Grows
    BY <1>6, StillGrows DEF vars
  <2>5. BuilderInv'
    BY <1>6, <2>1, <2>4, BuilderFrame DEF vars, FutureInv
  <2>6. InnerInv'
    BY <1>6, <2>1, <2>4, InnerFrame DEF vars, FutureInv
  <2>7. PipeInv'
    BY <1>6, <2>1, <2>4, PipeFrame DEF vars, FutureInv, Ready
  <2>8. QED BY <2>1, <2>2, <2>3, <2>5, <2>6, <2>7 DEF FutureInv
<1>7. QED BY <1>1, <1>2, <1>3, <1>4, <1>5, <1>6 DEF Next

----------------------------------------------------------------------------
(* The theorems *)

(* The inductive invariant holds in every behaviour. *)
THEOREM Invariance == Spec => []FutureInv
<1>1. Init => FutureInv
  BY InitInv
<1>2. FutureInv /\ [Next]_vars => FutureInv'
  BY NextInv
<1>3. QED BY <1>1, <1>2, PTL DEF Spec

(* Type correctness of contracts, callbacks and the pool. *)
THEOREM TypeCorrect == Spec => []TypeOK
<1>1. FutureInv => TypeOK
  BY DEF FutureInv
<1>2. QED BY <1>1, Invariance, PTL

(* A set whose elements are all equal has at most one. *)
LEMMA AtMostOne ==
  ASSUME NEW S, \A x, y \in S : x = y
  PROVE  (S = {} /\ Cardinality(S) = 0) \/ (S /= {} /\ Cardinality(S) = 1)
<1>1. CASE S = {}
  BY <1>1, FS_EmptySet
<1>2. CASE S /= {}
  <2>1. PICK x : x \in S
    BY <1>2
  <2>2. S = {x}
    BY <2>1
  <2>3. QED BY <1>2, <2>2, FS_Singleton
<1>3. QED BY <1>1, <1>2

(* The number of tokens for a callback is what Pending counts. *)
LEMMA PendingFacts ==
  ASSUME FutureInv, NEW c \in Contracts \cup {Fiber}
  PROVE  /\ Pending(c) \in {0, 1}
         /\ Pending(c) = 1 => Fresh(c)
<1> DEFINE T == {th \in AllThreads : pc[th] \in {At("invoke", c), At("run", c)}}
           Q == {k \in 1..Len(queue) : queue[k] = c}
<1>1. Pending(c) = Cardinality(T) + Cardinality(Q)
  BY DEF Pending
<1>2. \A th \in T : th \in AllThreads /\ Busy(th) /\ pc[th].c = c
  BY DEF At, Busy
<1>3. \A x, y \in T : x = y
  BY <1>2 DEF FutureInv, TokenInv
<1>4. /\ queue \in Seq(Contracts \cup {Fiber})
      /\ DOMAIN queue = 1..Len(queue) /\ IsInjective(queue)
  BY LenProperties DEF FutureInv, TypeOK, TokenInv
<1>5. \A x, y \in Q : x = y
  BY <1>4 DEF IsInjective
<1>6. Q /= {} => c \in ToSet(queue)
  BY <1>4 DEF ToSet
<1>7. T = {} \/ Q = {}
  BY <1>2, <1>6 DEF FutureInv, TokenInv
<1>8. T /= {} => Fresh(c)
  BY <1>2 DEF FutureInv, TokenInv
<1>9. Q /= {} => Fresh(c)
  BY <1>6 DEF FutureInv, TokenInv
<1>10. (T = {} /\ Cardinality(T) = 0) \/ (T /= {} /\ Cardinality(T) = 1)
  BY <1>3, AtMostOne
<1>11. (Q = {} /\ Cardinality(Q) = 0) \/ (Q /= {} /\ Cardinality(Q) = 1)
  BY <1>5, AtMostOne
<1> HIDE DEF T, Q
<1>12. QED BY <1>1, <1>7, <1>8, <1>9, <1>10, <1>11

(* A callback runs at most once, after both the result and the callback    *)
(* are in place, no Rendezvous panics, and an awaiting fiber is scheduled  *)
(* once, by the run of its awaiter: for pipelines of any length.           *)
THEOREM RunOnceHolds == Spec => []RunOnce
<1>1. ASSUME FutureInv
      PROVE  RunOnce
  <2>1. N \in Contracts /\ Fiber \notin Contracts
    BY ContractFacts
  <2>2. ASSUME NEW c \in Contracts
        PROVE  /\ rv[c] /= "Panic"
               /\ runs[c] + Pending(c) <= 1
               /\ runs[c] + Pending(c) = 1 => rv[c] = "Rendezvous" /\ result[c] /= None
    <3>1. Pending(c) \in {0, 1} /\ (Pending(c) = 1 => Fresh(c))
      BY <1>1, PendingFacts
    <3>2. Pending(c) = 1 => rv[c] = "Rendezvous" /\ runs[c] = 0
      BY <3>1 DEF Fresh
    <3>3. /\ rv[c] /= "Panic" /\ runs[c] \in {0, 1}
          /\ runs[c] = 1 => rv[c] = "Rendezvous"
          /\ rv[c] = "Rendezvous" => result[c] /= None
      BY <1>1 DEF FutureInv, ContractInv, Ready
    <3>4. QED BY <3>1, <3>2, <3>3
  <2>3. Pending(Fiber) \in {0, 1} /\ (Pending(Fiber) = 1 => Fresh(Fiber))
    BY <1>1, PendingFacts
  <2>4. Fresh(Fiber) => runs[N] = 1 /\ got = None
    BY DEF Fresh
  <2>5. QED BY <2>2, <2>3, <2>4 DEF RunOnce
<1>2. QED BY <1>1, Invariance, PTL

(* Values and errors travel through a pipeline of any length as Then and   *)
(* Recover promise, whoever runs the callbacks and in whatever order       *)
(* producers and consumers arrive.                                         *)
THEOREM PropagationHolds == Spec => []Propagation
<1>1. ASSUME FutureInv
      PROVE  Propagation
  <2>1. Ready(0) => result[0] = prog.source
    BY <1>1 DEF FutureInv, PipeInv
  <2>2. ASSUME NEW i \in 1..N, Ready(i)
        PROVE  /\ Ready(i - 1)
               /\ result[i] = Outcome(i, result[i - 1])
               /\ calls[i] = IF Needs(i, result[i - 1]) THEN 1 ELSE 0
    <3>1. i - 1 \in Contracts
      BY ContractFacts
    <3>2. runs[i - 1] = 1 /\ result[i] = Outcome(i, result[i - 1])
      BY <1>1, <2>2 DEF FutureInv, PipeInv
    <3>3. Ready(i - 1)
      BY <1>1, <3>1, <3>2 DEF FutureInv, ContractInv, Ready
    <3>4. QED BY <1>1, <3>2, <3>3 DEF FutureInv, PipeInv
  <2>3. got /= None => Ready(N) /\ got = result[N]
    BY <1>1 DEF FutureInv, BuilderInv
  <2>4. QED BY <2>1, <2>2, <2>3 DEF Propagation
<1>2. QED BY <1>1, Invariance, PTL
=============================================================================
