# TLA+ specifications of magic-core

magic-core is a C++20 concurrency library: executors (thread pool, strand,
manual), stackful fibers with their synchronisation primitives, stackless
coroutines, futures, and the lock-free and blocking building blocks below them.
The repository has no prose documentation; the comments, assertions and tests
of the code are its documentation. Paths below are relative to
`src/src/magic/`.

## Inventory

| component | state | operations | what is hard |
|---|---|---|---|
| `concurrency/intrusive/blocking_queue.h` | items, closed flag, mutex, condvar | Put, Take, Close | one notify per Put, disposer called under the mutex |
| `concurrency/atomic_counter.h` | atomic counter, mutex, condvar | Add, Done, WaitZero | the counter is changed outside the mutex |
| `executors/thread_pool.cpp` | worker threads, queue, counter | Execute, WaitIdle, Stop | Execute racing Stop, work submitted by running tasks |
| `concurrency/lockfree/lockfree_intrusive_{stack,queue}.h` | head pointer | Push/Put, ConsumeAll/TakeAll | order after reversal |
| `executors/strand.cpp` | lock-free queue, size_t counter, refcount | Execute, Run, Discard | electing one scheduler per batch, counter below zero, lifetime |
| `executors/manual.cpp`, `inline.cpp` | list of tasks | Execute, RunAll, RunAtMost | sequential |
| `fibers/core` | fiber state, awaiter, stack pool | Go, Suspend, Resume, Schedule, Yield | an awaiter resumed before its fiber has switched out |
| `fibers/sync/mutex.h`, `coroutine/stackless/sync/mutex.h` | atomic state word, waiter list | Lock, TryLock, Unlock | lock-free hand-over to a waiter |
| `fibers/sync/oneshotevent.h`, `wait_group.h` (and stackless) | atomic state word / counter | Wait, Fire, Add, Done | a waiter racing Fire |
| `fibers/sync/detail/futex.h`, `condvar.cpp` | spin lock, waiter list | ParkIfEqual, Wake, Wait, Notify | lost wake-ups, lifetime of the awaiter |
| `futures` with `concurrency/rendezvous.h` | shared state, rendezvous word | Subscribe, SetResult, Then, Recover, Get | producer racing consumer, discarded callbacks |
| `concurrency/lockfree/{stack,queue}.h`, `stamped_ptr.h` | stamped head pointer, split refcounts | Push, TryPop, ConsumeAll, Put, Take | ABA, reclamation, 16-bit stamp |
| `common/shared_ptr.h` | control block, stamped pointer | Load, Store, copy, destroy | split reference counting |
| `coroutine/stackless/{dispatch,yield,fire,task}.h` | coroutine frame, executor | DispatchTo, Yield, Run, Discard | a frame destroyed inside Stop runs user destructors there |
| `common/refer/ref.h` | intrusive count | copy, move, assign, release | order of the counts, assignment to itself |
| `coroutine/{core,generator,processor}` | running coroutine, thread-local pointer | Resume, Suspend, Send, Receive | nesting, exceptions |
| `concurrency/{oneshotevent,barrier,future_lite,blocking_queue}` | mutex, condvar, flags | Wait, Fire, Arrive, Park, Wake | wake-up order |
| `common/result.h`, `result/` | raw storage, Error | Ok, Fail, moves, copies, assignment, Unwrap | the lifetime of the value hangs on the error alone |
| `net/http.cpp`, `net/http/request*.h`, `header.cpp`, `string_reader.h` | CURL handle, response text | Build, Run, Get, PostJson, Parse | one cleanup per handle, fields at the edge of the syntax |
| `filesystem`, `common/{random,time,...}` | OS handles | I/O | outside the reach of TLC |

How they interact: everything asynchronous is a `TaskNode` handed to an
`IExecutor`, which owes it exactly one of `Run` and `Discard`. Fibers, strands,
future callbacks and coroutine dispatch are such tasks. Fibers suspend through
an awaiter object on their own stack, which a synchronisation primitive links
into its waiter list and later resumes by scheduling the fiber again. The list
of hazards, each with its source line and the properties that cover it, is in
`PROJECT.json`.

## Modules and how they correspond to the code

Convention: one action is one access to shared memory (an atomic operation, or
a region under a lock) with the private computation around it. Locals of a
function are functions of the thread, a program counter `pc` (or `call`, `run`,
`at`) names the place in the function. Memory is sequentially consistent; the
weaker orders that the code asks for in places are not modelled. Variables
marked "history" are not in the code; no action reads them except the bounds.
Operators marked as faulty are not part of the specifications: each one is a
plausible mistake in the definition that follows it, and shows that the
property it is paired with in `PROJECT.json` can fail.

**Thread pool** (`Threads`, `MPMCBlockingQueue`, `AtomicCounter`, `ThreadPool`,
abstract `Executor`). The queue and the counter are component modules whose
actions take the thread as a parameter; `ThreadPool` composes them and adds
`Execute`, the worker routine, `WaitIdle` and `Stop`. Mutex and condition
variable are an owner (`qlock`, `clock`) and a wait set (`qwait`, `cwait`);
`NotifyOne` wakes an arbitrary waiter, and a waiter may wake spuriously. Tasks
may submit tasks (`Spawn`). `Close` discards items one by one while it holds
the mutex, as the disposer does.

**Strand** (`Strand`, abstract `SerialExecutor`). `Put`, `fetch_add`, `AddRef`,
the `Execute` of the underlying executor, `TakeAll`, each task, `fetch_sub` and
`ReleaseRef` are separate steps. `counter_` is kept modulo `CounterMod`, since
a batch may complete a task whose submitter has not counted it yet. The
underlying executor is any executor: it queues the strand, runs it on one of
its workers, or, when it is stopped, discards it.

**Fibers** (`Fibers`, and on top of it `FiberMutex`, `FiberWaitGroup`,
`FiberCondVar`). `Fibers` has the run queue of the executor, the state of each
fiber, and for each worker what it does: nothing, run a fiber, or run the
awaiter of a fiber that has just switched out. The primitives define what an
awaiter does. An awaiter lives on the stack of its fiber and is named by it, so
the same address comes back whenever the fiber waits again. In `FiberCondVar`
the mutex is one atomic lock (what `FiberMutex` establishes) and the user is the
semaphore of `tests/fibers/condvar_test.cpp`. The `lock_.unlock()` of
`FutexAwaiter` is two steps, as in `std::unique_lock`: the release of the spin
lock and the write of the flag in the awaiter; the fiber may be woken and leave
`ParkIfEqual` between them, and its destructor then unlocks again. The history
variable `overtaken` records that this has happened. The queue of the futex is
touched one access at a time also then, though in the code it is a data race,
and the late write reaches the flag of the fiber's next awaiter or nothing,
though in the code it may hit whatever is on the stack there by then.

The stack of a fiber comes from the pool of the `StackAllocator` when the fiber
is created and goes back when it is destroyed; a stack is named after the fiber
it was first allocated for.

**Stackless coroutines** (`Stackless`, and on top of it `StacklessSync`).
`Stackless` has, per thread, the stack of the coroutines that have resumed each
other on it, the queue of the pool and the stages of `Stop`; `StacklessSync`
adds the mutex, the event and the wait group, whose waiters are resumed in place
by the coroutine that unlocks or fires. A frame that the pool discards is
unwound on the thread that discards it, and its destructors unlock.

**Futures** (`Futures`). A pipeline of `N` combinators (`Then` with a plain or
with an asynchronous continuation, `Recover`) that is built by one thread while
others fulfil the promises, over an inline executor or a pool at each contract,
ending in `WaitResult`, in a poll, or in the `Await` of a fiber. Values are abstracted to "ok" and "err"; a continuation
succeeds, fails or throws.

**Lock-free stack and queue** (`LockFreeStack`, abstract `ConcurrentStack`;
`LockFreeQueue`, abstract `FifoQueue`). `LockFreeStack` has heap nodes with
addresses that are used again, stamped pointers whose stamp is cut when packed
and not while it is in a local variable, and the split reference count.
`LockFreeQueue` uses two stacks with atomic operations, which is what
`ImplementsStack` shows of them.

**Handoff** (`Ref`, `SharedPtr`, `CyclicBarrier`, `UnboundedBlockingQueue`,
composed by `Handoff`). Threads copy, move, assign and drop Refs, meet at the
barrier, pass SharedPtrs through the queue until it is closed, and meet again.
`AtomicSharedPtr` adds Load and Store, one action per atomic access.

**Sequential parts** (`Coroutines`; `StringReader`, `Result`, `HttpClient`; run
side by side by `MCLibrary`). `Coroutines` has the two contexts of each
coroutine and the thread-local pointers that tell Suspend, Send and Receive
whom they are about. An exception that leaves a Resume is caught by the routine
that called it, or ends that routine too; Main catches all. A routine that goes
by a pointer to a generator or processor that has thrown ends the behaviour
(`LosesWay`). `Result` has cells in which a value is alive or not, and
counts the owners of each resource; `HttpClient` composes it with the life of
the CURL handle and with `HttpHeader::Parse` over the operators of
`StringReader`. Text is a sequence of tokens: a name, a piece of a value, a
colon, a space, CR, LF.

Which lines each definition stands for is in `map` in `PROJECT.json`.

## Runs

| run | instance | shows |
|---|---|---|
| `pool` | 2 workers, 2 clients, 2 tasks (the first may submit the second), one WaitIdle per client, Stop, 1 spurious wake-up | the counter, the queue and the joins agree in every interleaving; no wake-up is lost, WaitIdle and Stop return; refines `Executor`, with its liveness |
| `strand` | 2 producers, 2 workers, 3 tasks (the first may submit the third), executor may stop, handle dropped any time | one batch at a time, nothing forgotten, lifetime, every task runs while the executor does; refines `SerialExecutor` |
| `fibers` | mutex: 3 fibers, 2 workers, 5 calls of Lock or TryLock, 1 Yield, executor may stop; condition variable: 3 fibers, 2 workers, 1 permit | a fiber on one worker and on a stack of its own, exclusion, no waiter lost or woken twice, hand-over without a gap, every Lock returns; no lost notification and every Acquire returns, unless an awaiter was overtaken |
| `condvar_overtaken` | 4 fibers, 3 workers, 1 permit | violation: fibers stay parked for ever |
| `futures` | all pipelines of 2 combinators over 4 assignments of executors, 2 workers, pool may stop | each callback once, an awaiting fiber resumed once, results where Then and Recover put them, the end of the pipeline gets a result |
| `lockfree` | stack: 3 threads, 2 addresses, 2 pushes, 3 pops, 1 ConsumeAll, 4 acquired references, 2-bit stamp; queue: 1 consumer, 5 puts, 7 takes | no use after free, no leak; refines `ConcurrentStack` and `FifoQueue` |
| `stackless` | 3 contenders of which 1 yields, 2 waiters, 2 workers, Stop | exclusion, no waiter lost or resumed while it runs, lifetime of the group, frames destroyed by Stop release the lock, every coroutine ends |
| `stackless_stop` | 2 contenders that yield inside the critical section | violation: Stop never returns |
| `handoff` | threads: 4 of them, 2 objects, 2 control blocks, 3 puts; wait group: 2 doers, 2 waiters, 3 workers | exactly the referenced objects exist, nobody passes the barrier early, everybody ends; waiters racing Fire, lifetime of the group, every Wait returns |
| `atomic_shared` | 2 threads, 2 addresses, 2 loads, 2 stores | violation: the object is deleted while it is referred to |
| `library` | coroutines: 1 coroutine, 2 generators, 2 processors, 3 values sent; HTTP: 2 requests, 2 Results, 2 handles, 2 responses, headers of 2 fields | the thread-local pointers follow the nesting whoever throws or catches, values pass one at a time; each handle and value is destroyed once, the dictionary is the header that was sent |
| `processor_context` | as `library` | violation: a processor that has thrown stays the current one |

`fibers`, `handoff` and `library` have two parts each: the variable `part` says
in the first state which of two specifications the behaviour is one of, and
fairness is that of this part. A property of the other part holds trivially, its
variables staying as they start.

Bounds. Every race in this code is between two or three parties at one word or
one lock; two workers and two other threads, or three fibers, give every pair
of roles on two processors and a third party that disturbs them. Calls are
bounded so that each one can come before, during and after the others. For the
mutex, 5 calls let a fiber leave the list of waiters and come back to it while
another still holds its address; for the stack, an address freed by a pop is
allocated again while another thread is inside TryPop or ConsumeAll. What is
proved for all instances (below) does not depend on these bounds; the runs of
the pool and the strand are sized for the liveness properties. `CounterMod = 8` leaves the
counter room to wrap below zero and return; the proof for the strand needs only
that there are fewer tasks than `CounterMod`. `StampMod = 4` with 4 acquired
references reaches the largest stamp and the one beyond it, which the 64-bit
local variable still carries; that is the limit up to which the count balances.
Two generators and two processors give every nesting of a class in itself, and
with a coroutine every nesting in the others; two Results, requests and handles every assignment between a full, an
empty and a failed one; two fields every pair of a faulty field and its
neighbour; generators are interchangeable, and so are processors, in `library`.
Three fibers on two workers let one be parked, one fall asleep and one notify,
and reach the overtaken awaiter; its consequence, a fiber parked for ever, needs
a third worker and a fourth fiber. `MaxSpurious`, `MaxYields` and `MaxWaitIdle`
bound what could happen without end and only repeats.

Deadlock is checked where the system may only stop when all is done; the
modules then have an action (`Quiescent`, `Exhausted`, ...) that stutters in
exactly those states. It is off in the runs of the strand and the futures,
where a stopped executor legitimately leaves work behind, and in
`stackless_stop` and `atomic_shared`, where the calls are used up.

Fairness. Weak fairness of each thread: the operating system runs every thread
that can run, and a lock or a wake-up is not delayed for ever. No strong
fairness is assumed of locks or notifications. Nobody is obliged to call an
operation, except: a task body that has started submits what it submits, a
fiber that owns a lock unlocks it, and, for the wait group, the condition
variable and the futures, the parent, the starting of the fibers and the
promises do their part, without which nothing is owed. In `stackless` Main starts every coroutine and a
Stop that has begun goes on; in `handoff` every thread goes through its program.

Assumptions that a run makes beyond the code:

* `AddFirst = TRUE`: all calls of Add precede the first Done.
* one consumer for the queue, as in its tests. With two, one of them can take a
  newer value from a reserve that the other is still filling, so the queue is
  not the Michael-Scott queue of its comment (`queue.h:9`).
* fewer references through one node than stamps.
* one contender that yields with the mutex locked in `stackless`;
  `stackless_stop` has two.
* routines of coroutines suspend only the object whose routine they are.

## What the violations say

* `stackless_stop`: `thread_pool.h:39` promises that Stop discards pending tasks.
  The Discard of a dispatched coroutine destroys a frame that may hold the
  stackless mutex; its unlock resumes the next owner inside Stop, and when that
  one yields to the pool it locks the mutex of the queue that Stop holds.
* `atomic_shared`: `shared_ptr.h:16` says that the count of a control block is
  above zero. A SharedPtr from Load gives its reference back to the global count,
  where it was never entered, and Store lowers that count by the stamp.
* `condvar_overtaken`: `condvar_test.cpp:126-128` expects that every fiber has had
  access when the executor is idle. `futex.h:27` unlocks through a `unique_lock`
  in the awaiter. After the release of the spin lock, and before the flag in the
  awaiter is cleared, the fiber is woken and leaves `ParkIfEqual`; the destructor
  of the awaiter unlocks the spin lock, which another fiber holds by now that has
  just found the epoch unchanged. A notifier enters, raises the epoch, finds
  nobody in the list, and leaves; then the other fiber links itself and sleeps.
  Up to the first awaiter that is overtaken in this way nothing of the kind
  happens: that is what `NoLostWakeup`, `SpinExclusion` and `AcquireReturns` say.
* `processor_context`: `processor.h:69` verifies "Not a processor context" by the
  thread-local pointer, which `SetValue` does not restore when `Resume` throws
  (`Coroutine::Resume` does). The pointer then names the dead processor in Main
  and in the routine of another processor that has caught the exception; the
  generators have the same line. `PointersFollow` says that there is nothing
  worse: the pointer is right or names one that has thrown, so that no value
  goes to another routine that is alive.

## Limits of the code that no run has

What the models assume away or show only by a stated precondition:

* Strand: after a Discard `counter_` keeps its value and the reference is not
  released; tasks pushed later are neither run nor discarded, and the strand
  leaks. The properties of the strand are stated for an executor that runs, or up
  to that point.
* WaitGroup: when Add and Done alternate, as in
  `examples/thread_pool_benchmark/main.cpp`, the counter reaches zero early and
  the one-shot event lets Wait return.
* FutexAwaiter: what happens after an awaiter was overtaken is in the model only
  in part: the list of waiters is changed by one fiber at a time, and the late
  write changes nothing but the flag of an awaiter.
* Mutex: `LockGranted` is checked for 5 calls, so that a waiter that starves
  behind an endless stream of others would not show.
* OneShotEvent: `Fire` reads the next pointer of an awaiter before it schedules
  the fiber that destroys it; the list is a local sequence in the model.
* Lock-free stack: a node that sees more than 2^16 attempts of TryPop is leaked.
  And acquiring a reference changes `head_`, so two calls of TryPop can make each
  other fail for ever; the stamps grow along such a behaviour, which is no cycle
  of a finite model.
* Futures: the exception of an asynchronous continuation or a handler, and a
  callback discarded by a stopped pool, leave everything downstream waiting, a
  fiber in Await included.
* Generator and Processor: what a routine does with the pointer of one that has
  thrown is left out, also where it is well defined, as taking the value that
  was sent to the other processor. Nor is the pointer changed by the Suspend of a
  coroutine around them.
* Result: a constructor of the value that throws in `Ok(...)` or after
  `DestroyValueIfExists` in an assignment, and the assignment of a Result to
  itself, use storage without a value.
* HTTP: a field without a value or colon runs into the next line, a CR stays in
  the value, the last of two fields with one name wins, a second status line
  ("100 Continue") becomes part of a field, and the content given to a builder is
  a pointer that may dangle when the request runs.
* FutureLite: a Set between the check and the Park of Get is lost. Nothing uses it.

## Proofs

Eight modules hold theorems. Each result is proved for every value of the
constants from the named `ASSUME` of its component, by an inductive invariant
that implies it. The invariants were checked with TLC before they were proved
where TLC can evaluate them; `HeaderInv` and `CoroutineInv` speak of functions
that it cannot enumerate. Beside the sets the constants must be, the
assumptions say that threads, fibers and coroutines are not `None` and are not
the strings that stand for the special values of a word (`"Unlocked"`,
`"Signaled"`, ...), which in the code are values no address can have.

`ThreadPoolProofs` proves, for any finite set of tasks, any finite set of
workers, any clients, and any number of calls and spurious wake-ups, from
`PoolAssumption`: type correctness, `IdleMeansNoWork`, `StoppedIsDrained`,
`WaitIdleCovers`, `NoStartAfterClose`, and the refinement `ImplementsExecutor`.
Type correctness, `IdleMeansNoWork` and `NoStartAfterClose`, and `LinkedOnce`
below, are proved and not part of a run. None of them is inductive: they follow
from `IInv`, whose core is that the counter is the number of tasks that are
counted and not yet done (`CountInv`), and that each of those is in exactly one
place, the queue, the hands of a thread in Execute, or a worker (`PlaceInv`,
`LocatedInv`), with a history that fits the place (`HistoryInv`). `PcInv` and
`CloseInv` tie the control of the owner to the lock and the closed flag;
`SpawnInv` is what WaitIdle needs about tasks that submit tasks.

`StrandProofs` proves, for any finite sets of tasks and workers and
`Cardinality(Tasks) < CounterMod`, from `StrandAssumption`: type correctness,
`MutualExclusion`, `LinkedOnce`, `NoEmptyBatch`, `NoUseAfterFree`, `NoLeak` and
the refinement `ImplementsSerialExecutor`. The argument is a token: scheduling
the strand, having it queued and running a batch up to its `fetch_sub` are the
stages of one token (`OneToken`). Let the balance be the number of tasks counted
less the number covered by an executed `fetch_sub`; it may be negative,
`counter_` is its value modulo `CounterMod`, and there is a token exactly if it
is positive (`CounterInv`). `BatchInv` ties the local `completed` to the
history, `PlaceInv` and `ArgInv` say where tasks are, and `RefInv` that the
reference count is the handle, the token and the running batches. For the
refinement the token says that there is one batch, so that the queue of the
serial executor is the rest of that batch followed by the stack reversed: `Put`
appends to it, `TakeAll` and `fetch_sub` leave it as it is, each task takes its
head, and a `Discard` meets no batch.

`FiberSyncProofs` starts with `CoreInv`, which says where a fiber is (one worker,
the run queue, or neither) and that its stack is its own, and one lemma per
operation of `Fibers`: it preserves `CoreInv` if it is called as the core calls
it. The proofs about the primitives discharge those conditions.

Mutex, for any fibers and workers, any `MaxLocks` and `MaxYields`, and with or
without `Stop`: type correctness, `OneWorkerPerFiber`, `MutualExclusion` and
`NoLostLocker`. The right to the mutex is again a token. It is held by a fiber
between Lock and Unlock or by the worker that carries it to the next owner: in
the Unlocker, on the way out of it, or resumed inside Lock. There is one token
exactly while the mutex is locked (`TokenInv`), and the fiber it is carried to
is parked: suspended, in no list and executed by nobody. The rest of `MutexInv`
is about the lists and about the value of `state_` that a CAS loop has loaded,
which may be stale: what the CAS compares is only whether the word is still the
same, and an address that has come back is harmless.

Wait group: type correctness, `OneWorkerPerFiber`, `NoLostWaiter`, and
`WaitCovers` for programs that call Add for every doer before they start the
first (`AddFirst`), which is also how the run is set up: without it the counter
may reach zero early, and `WaitGroup` makes no promise. A parked fiber is linked
once, from `state_` or from the local list of one Fire (`LinkInv`), and never
from a `state_` that is Signaled (`SignalInv`); `counter_` is the number of
added doers that have not called Done (`CountInv`), so that one doer fires,
after the last Done (`FireInv`).

Condition variable, for any finite set of fibers, any workers and any number of
permits: `OneWorkerPerFiber`, `NoLostWakeup` and `SpinExclusion`, each up to the
first awaiter that is overtaken in `unlock()`; `SpinExclusion` is proved and not
part of a run. The invariant is `overtaken \/ CondVarInv`: the destructor of an
awaiter is the only step that can leave `CondVarInv`, and it does so exactly when
the flag of its lock is still set. The spin lock of the
futex has one holder, a fiber or the awaiter with which it has suspended
(`SpinInv`); a sleeping fiber is linked once, from `waiters_` or from the list
of one notification (`ParkInv`). `NoLostWakeup` compares the free permits with
the fibers that are awake and look for one and the notifications under way: a
notification ends by waking somebody or by finding nobody asleep, and whoever
has read the epoch before it will not park.

`StacklessSyncProofs` proves, for any coroutines and threads and any finite set
of contenders, with and without `Stop`: type correctness, `MutualExclusion`,
`NoLostWaiter`, `WaitCovers` and `NoStrandedLocker`. `PlaceInv` says where a
coroutine is: on one stack, in the queue of the pool, or nowhere because it
waits, has not started or has ended. `LockInv` says who holds the lock and who
is linked into the mutex, `EventInv` who is linked into the event, `CountInv`
ties `counter_` to the contenders that have not called Done, `SeenInv` is about
the loaded words and `StageInv` says what Stop leaves behind.

`FuturesProofs` proves, for pipelines of any length, any programs and any pool,
with and without `Stop`: type correctness, `RunOnce` and `Propagation`. A
callback that has been handed out is a token, held by one thread or in the queue
once, and only while its contract is at Rendezvous and it has not run
(`TokenInv`). A Rendezvous is not entered twice from the side of the producer
because contract `i` is set only by the run of callback `i - 1` or of the inner
callback that this run has created (`PipeInv`), and not from the side of the
consumer because the builder goes forward and an inner future has one
subscriber (`BuilderInv`, `InnerInv`). That nothing on a contract is ever taken
back (`Grows`) lets the statement about a ready contract refer to the results
before it.

`LockFreeProofs` proves that the queue refines `FifoQueue` for one consumer and
any number of puts and takes: the values in the order of their puts are the
batch that ConsumeAll has not passed on, reversed, then `reserve_`, then `main_`
reversed, and a refill moves values between the three without changing that
list. For the stack, with any finite sets of threads and addresses and any
number of calls, it proves type correctness, `NoUseAfterFree`, `NoLeak` and the
refinement `ImplementsStack`, all as long as the stamp of `head_` stays below
its limit (`StampFits`); `StampsFit` says that it does when references are
acquired less often than `StampMod - 1` times, 2^16 - 1 in the code. The run goes
up to the limit and one beyond it. The balance of a node
is the number of references that threads hold on it less what its `global` count
says. Each word that points to a node (`head_`, a `next`, the local pointer of
ConsumeAll) carries the balance of that node as its stamp (`ListInv`); a node
that is linked or owned is not deleted because its global count is at most zero
(`OwnerInv`), and one that is neither lives exactly while there are references
(`RestInv`). The stack is the list found by following `next` from `head_`; that
this walk finds the list of the invariant is an induction, done with the least
index at which it would not.

`LibraryProofs` has four parts.

* Hand-off, for any finite sets of threads and variables: type correctness,
  `PointersExact` and `BarrierSeparates`. A count is the number of variables,
  and for a SharedPtr places in the queue, with that address (`RefCountInv`,
  `SharedCountInv`). `CrossingInv` says at which stages a thread can be in each
  generation of the barrier and that `arrivedCount` is the number of threads
  that have arrived in this generation, so that the last one really is the last;
  `ScopeInv` and `ClosedInv` say that pointers are gone before their owner
  arrives and the queue is empty once it is closed. The types are proved and not
  part of a run.
* Results and handles, for any finite set of them: `OwnedExactly`. A resource is
  used as often as there are cells that contain it, and a Result has a cell that
  is alive exactly if it has a value.
* Coroutines, for any sets of coroutines, generators and processors:
  `PointersFollow` and `Delivery`, with routines that throw and catch. The
  invariant is that there is a stack of distinct frames, each inside the Resume
  of the one above, whose top executes or has just switched back; the
  thread-local pointer of a class is the topmost frame of that class, and what a
  frame will restore is that of the part of the stack up to it, or else, for
  generators and processors, an object of the class that has thrown (`Stale`).
  Hence a pointer that is not to such an object is to the routine that executes,
  and every Send, Receive or Suspend is about that routine. The other case of
  the invariant (`LostInv`) is a behaviour that has ended in `LosesWay`.
* The header, for any number of fields: `ParsedAsSent`, from the assumptions that
  names contain no colon, space, CR or LF, that values have no LF and do not
  begin with a space, and that a line ends in LF, CR LF or LF CR. `HeaderInv`
  has the text from each field on: while the response comes in, `header` is the
  status line and the text from the first field on; when Parse has read `j`
  fields, what is left after spaces is the text from field `j + 1` on, and the
  dictionary has the last value of each name among those `j`. The lemmas before
  it say what each function of the reader does to a text that is a prefix
  without the character it looks for and a rest.

`SequenceFacts` has the lemmas on sequences (range, injectivity, head and tail,
append, reverse, concatenation) that the others use.

Only model-checked: the liveness properties (`WaitIdleReturns`, `StopReturns`,
`TasksRun`, `LockGranted`, `WaitReturns`, `AcquireReturns`, `Completes` of the
futures and of the stackless coroutines, `HandoffEnds`) and the refinement
`ImplementsLiveExecutor`, which contains one: the prover has no rule for
fairness. Every invariant, action property and refinement of safety that a
passing run checks is also proved.

## State of the project

Modelled: the thread pool, the strand, fibers with mutex, wait group, condition
variable and stacks, stackless coroutines with their primitives, futures with
the await of fibers, lock-free stack and queue, references and shared pointers,
barrier and blocking queue, coroutines, generators and processors, results and
the HTTP client. All their safety properties are proved, so that the runs are
there for liveness, for the four violations, and to find out about a change of
the code before its proof is repaired. Open:

1. the queue with several consumers, for which a weaker abstract queue than
   `FifoQueue` has to be stated;
2. the futex and the processors after their violations, which needs the awaiters
   and the dead objects to be memory that is freed;
3. the memory orders of the lock-free structures.

## Not modelled

* `ManualExecutor`: a list of tasks that one thread runs, without interleaving.
* `FutureLite`: unused, see above.
* Files, HTTP status, errors and formatting: calls of the operating system and
  tables of names.
* `StringReader::ReadInt`, `ReadDouble` and `SkipDigits`: nothing in the library
  calls them.
* Clocks, random numbers, string building and metaprogramming: no control to
  check.
* The examples: `sender_receiver` is an experiment apart from the library.
* Memory orders weaker than sequential consistency.
