------------------------------ MODULE ThreadPool ------------------------------
(***************************************************************************)
(* ThreadPool (DataStructures/ThreadPool.h): workers poll a shared queue   *)
(* of tasks until the pool is destroyed; submit returns a future.          *)
(*                                                                         *)
(* work_queue is a ThreadSafeQueue, used here through what that promises   *)
(* (FifoQueue, which ThreadSafeQueue implements).  A worker between its    *)
(* test of done and the moment try_pop takes effect is at "tryPop": the    *)
(* owner of the pool may do anything meanwhile, destroying the queue       *)
(* included.  The members are destroyed in reverse order of declaration:   *)
(* work_queue, then done, then joiner, which joins, then threads.          *)
(***************************************************************************)
EXTENDS Naturals, Sequences, FiniteSets

CONSTANTS Workers,      (* the threads that the constructor starts, one for  *)
                        (* each unit of std::thread::hardware_concurrency()  *)
          Tasks,        (* the tasks that are submitted                      *)
          NoTask        (* an empty std::function                            *)

(* hardware_concurrency() may be 0 where the number of cores is not known:  *)
(* such a pool has no worker, and none of its futures is ever ready.  The   *)
(* liveness properties are about pools that have one.                       *)
ASSUME WorkersAssumption == IsFiniteSet(Workers)
ASSUME TasksAssumption == IsFiniteSet(Tasks) /\ NoTask \notin Tasks

VARIABLES work_queue,   (* the tasks in the queue, oldest first              *)
          done,         (* the flag that ends the workers                    *)
          owner,        (* how far the thread that owns the pool has got     *)
          worker,       (* worker[w]: where worker w is in work_thread       *)
          task,         (* task[w]: the local variable task of worker w      *)
          future,       (* future[k]: the state of the future of task k      *)
          crashed       (* the process has died of a use after destruction   *)

vars == <<work_queue, done, owner, worker, task, future, crashed>>

Queue == INSTANCE FifoQueue
           WITH Threads <- Workers, Values <- Tasks, NoValue <- NoTask,
                Bound <- Cardinality(Tasks), items <- work_queue, taken <- task

Init == /\ Queue!FifoInit
        /\ done = FALSE
        /\ owner = "construct"
        /\ worker = [w \in Workers |-> "none"]
        /\ future = [k \in Tasks |-> "none"]
        /\ crashed = FALSE

-----------------------------------------------------------------------------
(* ThreadPool(): starts the workers one by one                              *)

StartWorker(w) ==
  /\ owner = "construct"
  /\ worker[w] = "none"
  /\ worker' = [worker EXCEPT ![w] = "check"]
  /\ UNCHANGED <<work_queue, done, owner, task, future, crashed>>

(* Mutant: the exception leaves done as it is.                              *)
StartFailsQuietly ==
  /\ owner = "construct"
  /\ \E w \in Workers : worker[w] = "none"
  /\ owner' = "dropQueue"
  /\ UNCHANGED <<work_queue, done, worker, task, future, crashed>>

(* std::thread throws: the handler sets done, and the members are destroyed.*)
StartFails ==
  /\ owner = "construct"
  /\ \E w \in Workers : worker[w] = "none"
  /\ done' = TRUE
  /\ owner' = "dropQueue"
  /\ UNCHANGED <<work_queue, worker, task, future, crashed>>

Constructed ==
  /\ owner = "construct"
  /\ \A w \in Workers : worker[w] # "none"
  /\ owner' = "open"
  /\ UNCHANGED <<work_queue, done, worker, task, future, crashed>>

-----------------------------------------------------------------------------
(* auto submit(FunctionType&&, Args&&...)                                   *)

Submit(k) ==
  /\ owner = "open"
  /\ future[k] = "none"
  /\ future' = [future EXCEPT ![k] = "pending"]
  /\ Queue!Enq(k)
  /\ UNCHANGED <<done, owner, worker, crashed>>

-----------------------------------------------------------------------------
(* work_thread()                                                            *)

CheckDone(w) ==
  /\ worker[w] = "check"
  /\ worker' = [worker EXCEPT ![w] = IF done THEN "exited" ELSE "tryPop"]
  /\ UNCHANGED <<work_queue, done, owner, task, future, crashed>>

QueueDestroyed == owner \in {"join", "gone"}

(* Mutant: the worker takes a copy and leaves the task in the queue.        *)
PopTaskCopies(w) ==
  /\ worker[w] = "tryPop"
  /\ ~QueueDestroyed
  /\ work_queue # <<>>
  /\ task' = [task EXCEPT ![w] = Head(work_queue)]
  /\ worker' = [worker EXCEPT ![w] = "run"]
  /\ UNCHANGED <<work_queue, done, owner, future, crashed>>

PopTask(w) ==
  /\ worker[w] = "tryPop"
  /\ ~QueueDestroyed
  /\ Queue!Deq(w)
  /\ worker' = [worker EXCEPT ![w] = "run"]
  /\ UNCHANGED <<done, owner, future, crashed>>

(* Mutant: a worker that finds nothing to do leaves.                        *)
QueueEmptyLeaves(w) ==
  /\ worker[w] = "tryPop"
  /\ ~QueueDestroyed
  /\ work_queue = <<>>
  /\ worker' = [worker EXCEPT ![w] = "exited"]
  /\ UNCHANGED <<work_queue, done, owner, task, future, crashed>>

QueueEmpty(w) ==
  /\ worker[w] = "tryPop"
  /\ ~QueueDestroyed
  /\ work_queue = <<>>
  /\ worker' = [worker EXCEPT ![w] = "check"]
  /\ UNCHANGED <<work_queue, done, owner, task, future, crashed>>

(* try_pop on a destroyed queue.  Its head is a null pointer by then, which *)
(* differs from tail, so that try_pop reads through it; or the freed dummy  *)
(* node is still seen at both ends, and try_pop returns false.              *)
PopDestroyed(w) ==
  /\ worker[w] = "tryPop"
  /\ QueueDestroyed
  /\ \/ /\ crashed' = TRUE
        /\ UNCHANGED worker
     \/ /\ worker' = [worker EXCEPT ![w] = "check"]
        /\ UNCHANGED crashed
  /\ UNCHANGED <<work_queue, done, owner, task, future>>

(* The packaged_task sets its future, also when the function throws.        *)
RunTask(w) ==
  /\ worker[w] = "run"
  /\ future' = [future EXCEPT ![task[w]] = "ready"]
  /\ worker' = [worker EXCEPT ![w] = "check"]
  /\ UNCHANGED <<work_queue, done, owner, task, crashed>>

-----------------------------------------------------------------------------
(* ~ThreadPool(), and the destructors of the members                        *)

Destroy ==
  /\ owner = "open"
  /\ done' = TRUE
  /\ owner' = "dropQueue"
  /\ UNCHANGED <<work_queue, worker, task, future, crashed>>

InQueue == {work_queue[i] : i \in 1 .. Len(work_queue)}

(* Mutant: the tasks left are forgotten instead of freed.                   *)
DropQueueSilently ==
  /\ owner = "dropQueue"
  /\ owner' = "join"
  /\ work_queue' = <<>>
  /\ UNCHANGED <<done, worker, task, future, crashed>>

(* ~ThreadSafeQueue frees the tasks left, which breaks their promises.      *)
DropQueue ==
  /\ owner = "dropQueue"
  /\ owner' = "join"
  /\ work_queue' = <<>>
  /\ future' = [k \in Tasks |-> IF k \in InQueue THEN "broken" ELSE future[k]]
  /\ UNCHANGED <<done, worker, task, crashed>>

(* Mutant: ~threads_joiner waits only for workers that are between tasks.   *)
JoinSkipsBusy ==
  /\ owner = "join"
  /\ \A w \in Workers : worker[w] \in {"none", "exited", "run"}
  /\ owner' = "gone"
  /\ UNCHANGED <<work_queue, done, worker, task, future, crashed>>

(* ~threads_joiner: every thread that was started is joined.                *)
Join ==
  /\ owner = "join"
  /\ \A w \in Workers : worker[w] \in {"none", "exited"}
  /\ owner' = "gone"
  /\ UNCHANGED <<work_queue, done, worker, task, future, crashed>>

-----------------------------------------------------------------------------
Work(w) == CheckDone(w) \/ PopTask(w) \/ QueueEmpty(w) \/ PopDestroyed(w) \/ RunTask(w)

Construct == Constructed \/ \E w \in Workers : StartWorker(w)
TearDown == DropQueue \/ Join

Next == /\ ~crashed
        /\ \/ Construct \/ StartFails
           \/ \E k \in Tasks : Submit(k)
           \/ \E w \in Workers : Work(w)
           \/ Destroy \/ TearDown

Spec == Init /\ [][Next]_vars

(* Every worker keeps running and the owner finishes what it has begun; it  *)
(* need not ever submit anything or destroy the pool.                       *)
FairSpec == /\ Spec
            /\ \A w \in Workers : WF_vars(~crashed /\ Work(w))
            /\ WF_vars(~crashed /\ Construct)
            /\ WF_vars(~crashed /\ TearDown)

-----------------------------------------------------------------------------
TypeOK ==
  /\ work_queue \in Seq(Tasks)
  /\ Len(work_queue) <= Cardinality(Tasks)
  /\ done \in BOOLEAN
  /\ owner \in {"construct", "open", "dropQueue", "join", "gone"}
  /\ worker \in [Workers -> {"none", "check", "tryPop", "run", "exited"}]
  /\ task \in [Workers -> Tasks \cup {NoTask}]
  /\ future \in [Tasks -> {"none", "pending", "ready", "broken"}]
  /\ crashed \in BOOLEAN

-----------------------------------------------------------------------------
(* Safety                                                                   *)

Runs(w, k) == worker[w] = "run" /\ task[w] = k

(* A future is pending exactly as long as its task is in the queue, once,   *)
(* or in the hands of a worker, and of one only: no task is run twice and   *)
(* none disappears and leaves its future pending.                           *)
PendingMeansSomewhere ==
  /\ \A i, j \in 1 .. Len(work_queue) : work_queue[i] = work_queue[j] => i = j
  /\ \A k \in Tasks :
       /\ \A v, w \in Workers : Runs(v, k) /\ Runs(w, k) => v = w
       /\ ~(k \in InQueue /\ \E w \in Workers : Runs(w, k))
       /\ future[k] = "pending" <=> (k \in InQueue \/ \E w \in Workers : Runs(w, k))

(* "Prevents the leak of threads": when the pool is gone, also after a      *)
(* constructor that threw half-way, no worker is left and no future waits.  *)
NothingLeftBehind ==
  owner = "gone" =>
    /\ \A w \in Workers : worker[w] \in {"none", "exited"}
    /\ \A k \in Tasks : future[k] # "pending"

(* test_ThreadPool1 gets the value of every future before its pool goes out *)
(* of scope: at the least then no worker should be in the queue when that   *)
(* is destroyed, or enter it afterwards.                                    *)
QueueOutlivesWorkers ==
  (QueueDestroyed /\ \A k \in Tasks : future[k] = "ready")
    => \A w \in Workers : worker[w] # "tryPop"

-----------------------------------------------------------------------------
(* The inductive invariant                                                  *)

(* What the destructors have done so far.                                   *)
TornDown ==
  /\ QueueDestroyed => work_queue = <<>>
  /\ owner = "gone" => \A w \in Workers : worker[w] \in {"none", "exited"}

(* A worker that runs has been given a task.                                *)
Carrying == \A w \in Workers : worker[w] = "run" => task[w] \in Tasks

(* The two safety properties follow from this one, and it from itself.      *)
Inv == TypeOK /\ PendingMeansSomewhere /\ TornDown /\ Carrying

-----------------------------------------------------------------------------
(* Liveness                                                                 *)

(* Every task submitted is run, unless the pool is destroyed first: then    *)
(* its future still does not wait for ever.                                 *)
FuturesSettle ==
  \A k \in Tasks : future[k] = "pending" ~> (future[k] \in {"ready", "broken"} \/ crashed)

TasksRun ==
  \A k \in Tasks : future[k] = "pending" ~> (future[k] = "ready" \/ done)

(* The destruction of the pool, or of what its constructor has made, ends.  *)
TearDownEnds == owner \in {"dropQueue", "join"} ~> (owner = "gone" \/ crashed)
=============================================================================
