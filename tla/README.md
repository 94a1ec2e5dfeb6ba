# Verification of CppConcurrencyDataStructures

TLA+ models of the concurrent containers and the thread pool of this
repository, TLC configurations that check them on small instances, and TLAPS
proofs of their safety for every value of the constants.

* `tlc -config X.cfg MCModule` checks a model; the table *Runs* pairs them.
* `tlapm XProofs.tla` checks the proofs of a module.
* `PROJECT.json` maps every definition to the lines it models.

## 1. Inventory

Nothing in the repository is persisted or sent over a network: what is hard
is the interleaving of threads on shared memory, wake-ups that get lost,
destruction while others still run, and indices, addresses and chunks that are
used again. Three components share one idea (a bounded or unbounded FIFO
queue), two more are original and port of the same pipe; a reference counted
pointer and a timer stand alone.

| Component | State | Operations | What can go wrong | What makes it correct |
|---|---|---|---|---|
| `LockFreeQueueCpp11` (`DataStructures/LockFreeQueue.h`) | counters `_tail`, `_head`; per node two stamps and raw storage | `push`, `pop`, `size`, destructor | a thread late by a lap, objects handled before construction or after destruction, a stopped thread | exclusive nodes, object lifetimes, FIFO order, nobody waits for anybody |
| `ThreadSafeQueue` (`ThreadSafeQueue.h`) | linked list with a dummy node, `head_mutex`, `tail_mutex`, `cond` | `push` (2), `try_pop` (2), `wait_and_pop` (2) | two locks on neighbouring nodes, nested locking, notification without the waiters' mutex | list shape, one owner per node, FIFO order, every call ends or sleeps |
| `BlockQueue` (`BlockQueue.h`; the same code in `other/4_test_lock_free_queue.cpp`) | `std::queue`, mutex, condition variable, `abort_` | `Enqueue`, `Dequeue` with time limit, `Abort`, `Empty` | time-out against notification, abort against packets | no lost wake-up, return codes, FIFO order |
| `ThreadPool`, `threads_joiner` (`ThreadPool.h`) | workers, `done`, `work_queue`, futures | constructor, `submit`, `work_thread`, destructors of the pool and of its members | destruction with tasks in the queue or workers in it, a constructor that throws half-way | no task lost or run twice, all futures settle, destruction ends with no worker left |
| `ypipe_t` over `yqueue_t` (`other/ypipe.hpp`, `yqueue.hpp`, `atomic_ptr.hpp`) | private pointers `w`, `f`, `r`, shared `c`; chunks, `spare_chunk` | `write`, `unwrite`, `flush`, `check_read`, `read`, `probe`; `push`, `unpush`, `pop` | falling asleep against flushing, taking back across a chunk border, reused addresses | batches in order, sleepers are called, no chunk leaked or shared |
| `LockFreePipe` over `zmqQueue` (`LockFreePipe.h`, `DataChunkQueue.h`) | the same | the same | where the port differs from the original | the same |
| `LockFreeArrayQueue` (`other/LockFreeArrayQueue.h`) | two indices, a mark per slot, mode | `Init`, `Push`, `Pop` in a lock-free and a locked mode, observers | an index is claimed before its slot is ready; two loads judged together; mask as remainder | exclusive slots, FIFO order, spinning ends |
| `ThreadSafeShared_ptr` (`ThreadSafeShared_ptr.h`) | per allocation a count and, with it, an object; handles | construct, copy, move, swap, assign, destroy | the last handles dropped at once, an assignment in three steps, moved-from and empty handles | the count is the number of owners; freed once, after the last |
| `Timer` (`timer.cpp`) | ordered set of timers, last id | `addTimer`, `delTimer`, `checkTimer`, `timeToSleep`, epoll loop | callbacks that add or delete timers, time that passes between any two steps | order of expiry, each timer fires once, none is slept past |
| Clients (`test.cpp`, `test_threadpool.cpp`, `4_test_lock_free_queue.cpp`) | counters, futures | producers, consumers | termination | all threads joined |

How they interact: `ThreadPool` polls a `ThreadSafeQueue` of tasks; `ypipe_t`
owns a `yqueue_t`, of which the writer moves back and end and the reader the
front; the clients join their threads. `LockFreeStack.h` is commented out as a
whole, `ThreadSafeHashmap.cpp` holds only includes, and `ErrorAssert.h`,
`atom_opt.h` and `test_args.cpp` keep no state: there is nothing to model.

## 2. Modules

```
 FifoQueue  <==implemented by==  LockFreeQueue, ThreadSafeQueue, BlockQueue, LockFreeArrayQueue
     ^------used by------------  ThreadPool  <--extended by--  ParallelAccumulate
 BatchPipe  <==implemented by==  YPipe  --extends-->  YQueue
                                   ^--extended by--   LockFreePipe
 SharedOwnership  <==implemented by==  SharedPtr;   Timer;   MCPrograms runs these two
 LockFreeQueueProofs, ThreadSafeQueueProofs, BlockQueueProofs, LockFreeArrayQueueProofs, YPipeProofs:
     the theorems about <Module>; ThreadPoolProofs: about ThreadPool and ParallelAccumulate;
     ProgramsProofs: about SharedPtr and Timer; DataLemmas: what they use of numbers, sets, sequences
 MC<Module>: the TLC instance of <Module>
```

**FifoQueue** is what the queues promise: `Enq` and `Deq` at one moment, and no
change when a call fails. **BatchPipe** is what the pipe promises: items in
order, a batch at a time, incomplete items that can be taken back. **SharedOwnership** is
what a shared pointer promises: an object lives while it has owners and is freed
once after the last. These three are written from what the classes are used for;
everything else is translated from the code, at the granularity below.

**LockFreeQueue.** One action per atomic access and per access to a node's
object: `PushCall` (load `_tail`), `PushCheck` (the node's stamp), `PushCas`,
`PushConstruct`, `PushPublish`; `PopCall`, `PopCheck`, `PopCas`, `PopCopy`,
`PopDestroy`, `PopRelease`; `SizeCall`, `SizeReturn`. `compare_exchange_weak`
may fail for no reason (`PushCasFails`, `PopCasFails`). `Capacity` is the power
of two that the constructor has computed, so `& _capacityMask` is `%`; asked for
0 the constructor's rounding wraps to 0, which the assumption
`Capacity \in Nat \ {0}` leaves out. The 64-bit indices are naturals: they
do not wrap in a lifetime. The stamp -1 is `static_cast<size_t>(-1)`. The
relaxed loads and the acquire/release stores give, on x86, the interleavings
modelled. `Offers` says which thread pushes which data.

**ThreadSafeQueue.** `head`, `tail`, `next`, `data` with addresses from an
allocator that may return a freed address; the owner of each mutex; the node or
data that a call owns (`own`, `arg`). Inside a critical section every write to
a node is an action, because the other mutex does not exclude it. `get_tail`
(lock, read, unlock) is the single step `PopTest`. `Block` releases
`head_mutex` and sleeps in one step, as `cond.wait` does; it is a step after the
evaluation of the predicate, with `head_mutex` held, so a notification can fall
between. `SpuriousWake` is always possible, within a bound. `empty() const`
locks a non-mutable mutex and cannot be instantiated; the destructor runs alone.

**BlockQueue.** Each method is one critical section and one action. A `Dequeue`
that waits may be notified, time out (`Expire`) or wake for no reason, and then
competes for the mutex again (`Resume`).

**ThreadPool.** The queue is `INSTANCE FifoQueue`, whose `Enq` and `Deq` are the
effects of `push` and `try_pop`; ThreadSafeQueue refines it. The owner
goes through `construct`, `open`, `dropQueue`, `join`, `gone`: the destructor sets
`done`, then the members are destroyed in the reverse order of their
declaration, `work_queue` before `joiner`. A worker between its test of `done`
and the effect of `try_pop` is at `tryPop`. On a destroyed queue `try_pop`
(`PopDestroyed`) crashes, or still sees the freed dummy at both ends and returns
false. Tasks end and memory does not run out. A machine that
reports 0 cores gives a pool without workers, where `TasksRun` fails at once; the run
has three, the theorems hold for any number.

**ParallelAccumulate** composes the pool with its clients. `parallel_accumulate`
is `Enter` (the early return for an empty range), the constructor of the pool,
`SubmitBlock` for all blocks but the last, `LastBlock`, `Get` for each future
and `Leave`, which begins to destroy the pool. The call is over with the last step of
that, in `LeavePool`: from `leave` it goes to `returned`, and from `unwind`, after a
constructor that threw, to `thrown`; before, a worker in the destroyed queue may bring
the process down. The tasks are the numbers of the blocks, and
`visited` counts how often a block has been at an element. `block_size` is a
parameter, 25 in the code. The other client, `AnyClient`, submits and leaves at any
moment.

**YQueue, YPipe.** Each operation touches at most one datum that the other thread
may be using (`c`, or `spare_chunk` when a chunk border is crossed), so an
operation is one action, except that `read` is `CheckRead`, `CopyItem`, `PopItem`
and the failing `flush` is `Flush`, `FlushSet` and, by the caller, `Wake`.
Pointers are pairs of chunk and position. `span` is a history variable: the
addresses from front to back, which the code only knows as linked chunks. The
clients keep the contract of the comments in `ypipe.hpp:101-103`: after a `flush`
that returned false the writer wakes the reader before it does anything else.
How it does so is the `client`: with `latch` the call is remembered (`Wake`,
`Awaken`), or the reader polls. No such signal is in the repository: `Wake` and `Awaken`
are external, the caller for whom the contract of `flush` is written. With `condvar` it is the `notify_one` of the tests
(`Notify`), lost unless the reader has got as far as `Wait`, and the producer
flushes, notifies once more and ends (`Finish`). `Poll` is the client that
yields and tries again, and the wait that ends for no reason.

**LockFreePipe** replaces what differs in the port: `ZmqPush` for `push`, `LoadC` and
`ClearC` for `check_read`, and the swaps of `c`, which are `compare_exchange_weak`: that
of `flush` may fail although `c` is `w` (`FlushFails`), and `ClearC` may leave `c` as it
is, where `WeakFails` says so. It has the same clients; `CondClient` is `test_LockPipe_cond`.

**LockFreeArrayQueue.** One action per access in the `E_CAS` mode: `PushCall` and
`PushLoadRead` (the two loads of the test for full), `PushCas`, `PushRetry`,
`PushWait` (the end of the spinning), `PushStore`, `PushMark`, and the same for
pop. In the other modes a call runs inside a lock of `MultipleLock.h`, which is
not in the repository: `PushLock`, `PopLock`. `Init` chooses the mode. The marks
are plain `long long`s shared between threads, a data race in C++; the model has
their accesses in program order, as an unoptimised x86 build does (the makefile
passes `-g` and no `-O`). `TransIndex` is the bitwise `&` of the code for any size: `And`
is defined from the lowest bit up, by a recursive function over the mask.

**SharedPtr.** A block is one allocation of a count, with an object or without;
handles point to blocks, to nothing (`Null`, after a move) or are not constructed
(`Raw`). One action per access to a count: the destructor counts down (`Destroy`) and
deletes in a second step (`Delete`); an assignment counts down, deletes if it must,
and takes over the other count in a third step (`AssignTake`), with other threads in
between. `MayRead` and `MayChange` are the contract of `test_theardSafeShared_ptr`:
counts are shared, handles are copied from by many or changed by one. The use of a
count that is not there (`Misuse`, and `AssignTake` on a freed count) is
undefined: the behaviour ends.

**Timer.** One thread. `due` is `expireTime - getTick()`, so a millisecond (`Tick`)
brings every timer nearer, and may pass between any two steps, before `epoll_wait`
too. `checkTimer` is `CheckTimer` up to the callback and `Erase` after it; in
between, as before the loop, clients may `AddTimer` and `DelTimer`. A signal may end
`epoll_wait` early (`Interrupt`).

**MCPrograms** instantiates SharedPtr and Timer together, because neither uses
anything of the library: the initial states choose which of the two programs runs,
and the other stays in its initial state.

## 3. Runs

| Run | Config / module | Instance | Checks |
|---|---|---|---|
| `ring` | `LockFreeQueue.cfg`, MCLockFreeQueue | 3 threads, 2 nodes, pushes while `_tail` < 3; only t1 is sure to keep running | `SlotExclusive`, `ObjectLifetime`, `DestructorExact`, `SizeNeverWraps`, `FailsForAReason`, `ImplementsFifo`, `NonBlocking` |
| `list` | `ThreadSafeQueue.cfg`, MCThreadSafeQueue | 3 threads, 2 calls each, 3 addresses, 1 spurious wake-up | `ListShape`, `OneOwner`, `EndsApart`, `ImplementsFifo`, `CallsEnd` |
| `list_lost_wakeup` | `ThreadSafeQueueLostWakeup.cfg` | 1 producer, 1 consumer, 2 calls each | violation of `AllJoined` |
| `block_queue` | `BlockQueue.cfg`, MCBlockQueue | 3 threads, 3 packets | `NoLostWakeup`, `AbortReachesAll`, `CodesMeanWhatTheySay`, `ImplementsFifo`, `DequeueReturns` |
| `pool` | `ThreadPool.cfg`, MCThreadPool | 3 workers, 3 tasks; `parallel_accumulate` on 0 to 12 elements in blocks of 3, or any client | `PendingMeansSomewhere`, `NothingLeftBehind`, `RangeCovered`, `FuturesSettle`, `TasksRun`, `TearDownEnds`, `AccumulateReturns` |
| `pool_destruction` | `ThreadPoolDestruction.cfg` | the same | violation of `QueueOutlivesWorkers` |
| `ypipe` | `YPipe.cfg`, MCYPipe | chunks of 2, 3 chunks, 2 values, 5 writes, both clients | `TypeOK`, `ChunksOwned`, `AddressesInOrder`, `SleeperIsCalled`, `ImplementsPipe`, `Delivered` |
| `pipe_port_chunks`, `pipe_port_sleep` | `LockFreePipe*.cfg`, MCLockFreePipe | chunks of 2, 4 chunks, 2 writes; `pipe_port_sleep` without spurious failures | violations of `ReadsOnlyItems`, `PortSleeperIsCalled` |
| `array_queue` | `LockFreeArrayQueue.cfg`, MCLockFreeArrayQueue | 3 threads (2 push), 2 slots, 3 pushes | `SlotExclusive`, `SpinsForAPeer`, `FailsForAReason`, `ImplementsFifo`, `CallsEnd` |
| `array_default_size` | `LockFreeArrayQueueDefaultSize.cfg` | 3 slots, for 65535 | violation of `CallsEnd` |
| `programs` | `Programs.cfg`, MCPrograms | 4 handles of 2 threads, 2 allocations; or 3 timers, delays of 0, 1 and 3 | `CountsExact`, `ImplementsOwnership`, `LastOwnerFrees`; `FiresInOrder`, `TimersFire` |

The other type invariants and the inductive invariants are proved (section 5) and not
checked again; the types of SharedPtr and Timer are conjuncts of `CountsExact` and
`FiresInOrder`.

**Bounds.** Every bound is a constant with a name: `MaxTail`, `MaxWrite`,
`MaxWrites`, `MaxCalls`, `MaxSpurious`, the sets of nodes, chunks, tasks. They are
small but past the point where things repeat: the rings have two slots and take
a third index, so that a late thread meets the stamps of the next lap; three
threads let two disturb the third; there are fewer addresses and chunks than
pushes, so that memory is used again while others hold old pointers; items span
up to three chunks, and `unpush` and `pop` cross borders; two consumers can
sleep at once; four handles on two counts let two threads drop, copy and assign
around a third. `MaxCount` bounds the copies of handles without object, whose count is
not taken back; `MaxTimers` the timers added; `MaxLate` how far the loop may fall
behind while it is awake. In the pipe one chunk is named to be the first allocated
(`MCSpec`). What the proofs cover (below) does not depend on them.

**Fairness.** Threads are scheduled again and again by the operating system:
weak fairness of the steps of a call that has begun, for each thread. Nothing makes a
client start a call, except in `ClientSpec`, where the test programs do.
`NonBlocking` assumes it of one thread only, and strong fairness of its
compare-and-swap, which without contention fails only spuriously. In the pool
the workers loop and the owner finishes a construction or destruction it has
begun; the thread of `parallel_accumulate` goes on when it can. `AccumulateReturns` has two
exceptions, both in the code: a worker that cannot be started, and the crash that
`pool_destruction` is about. In the pipe the reader
reads while it is awake and nothing makes it poll; the producer of the tests comes to
its end. A destructor or assignment that has begun is finished. The clock of the timer
ticks and its loop goes on. The counters of the runs are bounded, so
`CallsEnd` and `NonBlocking` say that a call ends once the others stop moving the
counters: lock-free, not wait-free.

`CHECK_DEADLOCK FALSE` is set where a system may really stop: all calls made, a pool
destroyed, a reader asleep with nothing to read.

## 4. What the violations show

* `list_lost_wakeup`: `push` notifies without `head_mutex`, so the notification may
  fall between a consumer's predicate and its sleep; with the last item, the
  consumer of `test_ThreadSafeQueue` then sleeps for ever.
* `pool_destruction`: `work_queue` is destroyed before the workers are joined; even
  when all futures are ready, a worker may be about to enter the queue.
* `pipe_port_chunks`: the test in `zmqQueue::push` is the reverse of the one in
  `yqueue_t::push`; every push starts a new chunk and the reader walks into memory
  that nobody has written.
* `pipe_port_sleep`: `LockFreePipe::check_read` loads `c` and clears it in two
  steps; an item flushed in between is announced to nobody. The run has no spurious
  failures; with them (`WeakFails`) a swap that leaves `c` as it is does the same.
* `array_default_size`: the default size is 65535, annotated `2^16`; with that mask
  the indices 0 and 1 share a slot and the second push never returns.

Without a finding, but worth knowing: in `LockFreeQueue` a call whose index has
been overtaken may fail in a queue that is neither full nor empty, and `size()`
may exceed the capacity; in `LockFreeArrayQueue` a pop may fail in a queue that
never was empty (`FailsForAReason` says exactly when).

* `accumulate_block` (`test_threadpool.cpp:10-15`) drops the result of
  `std::accumulate` and returns a variable that nobody has written: the elements are
  all visited once, and the sum that `parallel_accumulate` returns is arbitrary.
* The clients of the pipes that wait on a condition variable without a predicate
  (`4_test_lock_free_queue.cpp:512`, `test.cpp:203`): a reader that found nothing and
  begins to wait after the producer's last notification waits for ever beside the
  items, and its thread is never joined. `Delivered` has exactly this exception, so that it
  does not catch it; it shows that nothing else keeps the items from being read.
* `ThreadSafeShared_ptr`: `operator=` compares the handles as booleans, so that an
  assignment between two handles with objects does nothing. The count of a handle
  made without an object starts at 0 and is not counted down by destructors:
  it leaks, or, after copies and assignments, is deleted while handles still point to it,
  whose use is then undefined. `CountsExact` says that counts with an object are
  right in spite of that.
* `Timer`: a callback that deletes its own timer leaves `checkTimer` with an iterator
  to a node that is gone. The phase is then `undefined` and the behaviour ends:
  `FiresInOrder` and `TimersFire` say nothing of what follows.

## 5. Proofs

| Module | Theorems |
|---|---|
| LockFreeQueueProofs | `TypeCorrect`, `InvHolds`, `MutualExclusion`, `LifetimesRespected`, `NothingLeaks`, `SizeIsNatural`, `FailuresExplained`, `Refinement` |
| ThreadSafeQueueProofs | `TypeCorrect`, `InvHolds`, `ListWellFormed`, `NodesOwned`, `TwoLocksSuffice`, `Refinement` |
| BlockQueueProofs | `TypeCorrect`, `NoWakeupLost`, `AbortHeard`, `CodesRight`, `Refinement` |
| ThreadPoolProofs | `TypeCorrect`, `NoTaskLost`, `NothingLeft`; `ClientsKeepTheContract`, `AccInvariance`, `EachElementOnce` |
| LockFreeArrayQueueProofs | `TypeCorrect`, `FailuresJustified`, `Invariance`, `MutualExclusion`, `NobodySpinsAlone`, `Refinement` |
| YPipeProofs | `Invariance`, `TypeCorrect`, `ChunksAccountedFor`, `PlacesAreAddresses`, `SleepersAreCalled`, `Refinement` |
| ProgramsProofs | `TimerInvariance`, `FiringOrder`; `PtrInvariance`, `Counting`, `PtrRefinement` |

Every safety invariant, every action property and every refinement that a passing run checks
is the statement of one of these theorems.

They hold for any number of threads, nodes, values and calls, and rest only on the named
assumptions of the modules: a positive capacity, constants that differ
(`NoValue`, `Null`, `NoThread`, `NoTask`), finite sets of nodes, workers, tasks, callers and
handles, chunks of at least one item, blocks of at least one element. Four theorems about the
array ring have a hypothesis besides, `SizeIsPowerOfTwo`; see there.

*The ring.* None of the safety properties is inductive: that a node is exclusive depends
on what its stamp says about `_head` and `_tail`. `Inv` ties the three together:
the counters span at most one lap; a node's stamps are of its lap or the one
before; a stamp that a thread has checked is still there if its compare-and-swap
finds the counter unmoved (indices never repeat, so there is no ABA); a thread
that writes or reads a node holds the index of its stamp, and one index is held
by one writer or reader. The refinement maps a push to the moment `_tail`
moves; the item is the pusher's argument until it is in the node.

*The list.* `Inv` says that the sequence `chain` follows `next` from `head` to
`tail`, that all nodes but the dummy have data, that every live node is in the list or owned by
exactly one call, and that program counters and mutex owners agree. That the two
locks suffice (`EndsApart`) follows: a pop that passed its test has `head # tail`,
and only pops, which hold `head_mutex`, can change that.

*The block queue.* `NoLostWakeup` counts packets against threads that are awake. A
thread that leaves without a packet would break it, and does so only after an abort:
`AbortReachesAll`, which says that nobody waits then, makes the two inductive
together (`Inv`). The codes and the refinement follow from each action.

*The pool.* `Inv` adds to the types and to `PendingMeansSomewhere` that the
queue is empty once destroyed, that no worker is left once the joiner is
through, and that a worker that runs has a task; `NothingLeftBehind` combines them.

*parallel_accumulate.* `ClientsKeepTheContract` says that its behaviours are behaviours of
`ThreadPool`, so that the theorems about the pool hold for it; that needs the invariant, because a
block must have a task to be submitted. `AccInv`: the blocks submitted are disjoint and cover the
range up to `block_start = block_size * i` (`Divided`, and `WholeBlock` for the rounding of
`num_blocks`); at `get` the futures before `i` are ready; until the caller leaves, an element has been visited once if the
future of its block is ready or the caller is past the last block, else not. A task runs only
while its future is pending (from `Inv`), so it adds to a block that had not been visited.

*The array ring.* `TypeCorrect` and `FailuresJustified` need no hypothesis. The others are about
sizes that are powers of two, as the comment at the default size, `2^16`, takes for granted;
`SizeIsPowerOfTwo` says so in terms of the mask, as `And[Size - 1][Size] = 0`. That the mask is then the remainder
(`TransIndex(i) = i % Size`) is proved from the recursion of `And` by induction over the size
(`StrongInduction` of DataLemmas, stated for sets because a lemma cannot take a predicate here).
For other sizes two indices of one lap share a slot and the properties are false
(`array_default_size`). `Inv`: the mark of a slot runs through `i + 1`, `-(i + 1)`,
`i + Size + 1`, ...; an index claimed and not yet marked is held by one call in progress
(`Marks`, `Claims`), and a call past its spinning finds its own turn in the mark (`Turns`). Two calls
in one slot would be a lap apart (`LapApart`), and the marks of two laps differ. The refinement
maps a push to the moment `writeIndex` moves: the item is the argument of the call that holds the
index, until the slot has it.

*The pipe.* Of the chunked queue, `QueueInv`: each address follows the one before
(`Ordered`), in its chunk or over a link that leads both ways, and within a chunk positions grow. So a
chunk that is left at either end is left for good, which is what `ChunksOwned` needs when a chunk
is freed, kept as the spare one or taken from there. `AddressesInOrder` is a
consequence: the same address cannot come twice between front and back. Of the pipe, `InUse`: from
the front on come `r`, `w` and `f` (`Pointers`, stated with `AddressesInOrder` in
`PlacesAreAddresses`); `c` is `w` or null; if it is null the reader has
found nothing since, and the front is `w`. Hence a reader that has been told there is nothing is
called, with a signal that is not lost (`SleeperIsCalled`), and a failing compare-and-swap of `flush` tells
the truth. `AddressAssumption` has `Null` and `Junk` differ from every chunk, address and value.

*Timer.* `FiresInOrder` depends on `current`, the timer called back last, whose age the model stops
counting at `LongAgo`; `TimerInv` bounds how late the loop can be in each phase (`LateBy`), so that what waits is
never older than that.

*Shared pointers.* `Counted` is about one block; it survives a step of another thread because nobody
else uses a handle in change (`Private`): the source of an assignment remains an owner, and so
its object alive, from the count down to the take-over. `UsedBlocks` has new blocks come without
handles. The sets of owners gain or lose one handle per step, and their cardinality follows. `PtrRefinement` maps
an object to the handles that are not being destroyed or assigned over.

**Only model-checked:** liveness, for which fairness is out of the prover's reach (`NonBlocking`,
both `CallsEnd`, `DequeueReturns`, `FuturesSettle`, `TasksRun`, `TearDownEnds`, `AccumulateReturns`,
`Delivered`, `LastOwnerFrees`, `TimersFire`), and the violations, which are about particular instances.

## 6. Plan

Order: the components with the most concurrency first. Done: every component that has
code with state is modelled, and the safety of each is proved. Next:

1. `LockFreePipe`: which theorems of `YPipe` hold for the port, and which fail.
2. The rounding of the ring's capacity as a function checked against its definition.
3. That `MCPrograms` loses nothing: each program's behaviours are those of its own module.

## 7. Not modelled

`LockFreeStack.h`, `ThreadSafeHashmap.cpp`, `ErrorAssert.h`, `atom_opt.h` and
`test_args.cpp` have no state or no code. Left out of what is modelled: the destructor of
`ThreadSafeQueue`, which runs alone and frees the list node by node, recursively; `empty()`, which does not compile; values of sums,
counters and timings in the tests; the other benchmarks of
`4_test_lock_free_queue.cpp`, which drive queues whose headers are not in the
repository or a `std::list` under one mutex.
Beyond the models: weak memory other than x86's, allocation failure (`alloc_assert` ends the
process), exceptions of the element types, and the missing headers
`SimpleLockFreeQueue.h`, `ArrayLockFreeQueue.h`, `MultipleLock.h`.
