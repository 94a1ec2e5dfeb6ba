--------------------------- MODULE ThreadPoolProofs ---------------------------
(***************************************************************************)
(* Safety of ThreadPool for any number of workers and tasks: a future is   *)
(* pending exactly as long as its task is in one place, and nothing is     *)
(* left behind by a pool that is gone.                                     *)
(***************************************************************************)
EXTENDS ParallelAccumulate, DataLemmas, SequenceTheorems, FiniteSetTheorems

USE DEF Queue!Enq, Queue!Deq

-----------------------------------------------------------------------------
(* What push and try_pop do to the set of the tasks in the queue.           *)

LEMMA QueueAfterEnq ==
  ASSUME TypeOK, PendingMeansSomewhere, NEW k \in Tasks, k \notin InQueue, Queue!Enq(k)
  PROVE  /\ work_queue' \in Seq(Tasks)
         /\ Len(work_queue') <= Cardinality(Tasks)
         /\ \A m, n \in 1 .. Len(work_queue') : work_queue'[m] = work_queue'[n] => m = n
         /\ InQueue' = InQueue \cup {k}
<1>1. /\ work_queue' \in Seq(Tasks)
      /\ Len(work_queue') = Len(work_queue) + 1
      /\ \A m \in 1 .. Len(work_queue) : work_queue'[m] = work_queue[m]
      /\ work_queue'[Len(work_queue) + 1] = k
  BY AppendProperties DEF TypeOK
<1>2. Len(work_queue) \in Nat /\ Cardinality(Tasks) \in Nat
  BY TasksAssumption, FS_CardinalityType DEF TypeOK
<1>3. Len(work_queue') <= Cardinality(Tasks)
  BY <1>1, <1>2
<1>4. \A m \in 1 .. Len(work_queue) : work_queue[m] # k
  BY DEF InQueue
<1>5. \A m, n \in 1 .. Len(work_queue') : work_queue'[m] = work_queue'[n] => m = n
  BY <1>1, <1>2, <1>4 DEF PendingMeansSomewhere
<1>6. InQueue' = InQueue \cup {k}
  BY <1>1, <1>2 DEF InQueue
<1> QED
  BY <1>1, <1>3, <1>5, <1>6

LEMMA QueueAfterDeq ==
  ASSUME TypeOK, PendingMeansSomewhere, NEW v \in Workers, Queue!Deq(v)
  PROVE  /\ work_queue' \in Seq(Tasks)
         /\ Len(work_queue') <= Cardinality(Tasks)
         /\ \A m, n \in 1 .. Len(work_queue') : work_queue'[m] = work_queue'[n] => m = n
         /\ Head(work_queue) \in InQueue /\ Head(work_queue) \in Tasks
         /\ InQueue' = InQueue \ {Head(work_queue)}
<1>1. /\ work_queue' \in Seq(Tasks)
      /\ Len(work_queue') = Len(work_queue) - 1
      /\ \A m \in 1 .. Len(work_queue') : work_queue'[m] = work_queue[m + 1]
      /\ Head(work_queue) = work_queue[1]
      /\ Head(work_queue) \in Tasks
  BY HeadTailProperties DEF TypeOK
<1>2. Len(work_queue) \in Nat \ {0} /\ Cardinality(Tasks) \in Nat
  BY TasksAssumption, FS_CardinalityType, EmptySeq, LenProperties DEF TypeOK
<1>3. Len(work_queue') <= Cardinality(Tasks)
  BY <1>1, <1>2 DEF TypeOK
<1>4. \A m, n \in 1 .. Len(work_queue') : work_queue'[m] = work_queue'[n] => m = n
  BY <1>1, <1>2 DEF PendingMeansSomewhere
<1>5. InQueue' = InQueue \ {Head(work_queue)}
  <2>1. ASSUME NEW x \in InQueue'
        PROVE  x \in InQueue \ {Head(work_queue)}
    <3>1. PICK m \in 1 .. Len(work_queue') : x = work_queue[m + 1]
      BY <1>1, <2>1 DEF InQueue
    <3> QED
      BY <3>1, <1>1, <1>2 DEF InQueue, PendingMeansSomewhere
  <2>2. ASSUME NEW x \in InQueue, x # Head(work_queue)
        PROVE  x \in InQueue'
    <3>1. PICK m \in 1 .. Len(work_queue) : x = work_queue[m]
      BY <2>2 DEF InQueue
    <3>2. m - 1 \in 1 .. Len(work_queue') /\ (m - 1) + 1 = m
      BY <3>1, <1>1, <1>2, <2>2
    <3> QED
      BY <3>1, <3>2, <1>1 DEF InQueue
  <2> QED
    BY <2>1, <2>2
<1>6. Head(work_queue) \in InQueue
  BY <1>1, <1>2 DEF InQueue
<1> QED
  BY <1>1, <1>3, <1>4, <1>5, <1>6

-----------------------------------------------------------------------------
LEMMA InvInit == Init => Inv
<1> SUFFICES ASSUME Init PROVE Inv
  OBVIOUS
<1> USE DEF Init, Queue!FifoInit
<1>1. Cardinality(Tasks) \in Nat
  BY TasksAssumption, FS_CardinalityType
<1>2. TypeOK
  <2>1. work_queue \in Seq(Tasks) /\ Len(work_queue) <= Cardinality(Tasks)
    BY <1>1, EmptySeq
  <2>2. worker \in [Workers -> {"none", "check", "tryPop", "run", "exited"}]
    OBVIOUS
  <2>3. task \in [Workers -> Tasks \cup {NoTask}]
    OBVIOUS
  <2>4. future \in [Tasks -> {"none", "pending", "ready", "broken"}]
    OBVIOUS
  <2> QED
    BY <2>1, <2>2, <2>3, <2>4 DEF TypeOK
<1>3. InQueue = {}
  BY DEF InQueue
<1>4. PendingMeansSomewhere
  BY <1>3 DEF PendingMeansSomewhere, Runs
<1>5. TornDown
  BY DEF TornDown, QueueDestroyed
<1> QED
  BY <1>2, <1>4, <1>5 DEF Inv, Carrying

(* The steps that only move the owner or an idle worker.                    *)
LEMMA IdleStepKeeps ==
  ASSUME PendingMeansSomewhere, Carrying, UNCHANGED <<work_queue, task, future>>,
         \A v \in Workers : worker[v] = "run" <=> worker'[v] = "run"
  PROVE  PendingMeansSomewhere' /\ Carrying'
<1>1. \A v \in Workers, k \in Tasks : Runs(v, k)' <=> Runs(v, k)
  BY DEF Runs
<1>2. InQueue' = InQueue
  BY DEF InQueue
<1> QED
  BY <1>1, <1>2 DEF PendingMeansSomewhere, Carrying

LEMMA InvNext == Inv /\ [Next]_vars => Inv'
<1> SUFFICES ASSUME Inv, [Next]_vars PROVE Inv'
  OBVIOUS
<1> USE DEF Inv
<1>1. ASSUME NEW v \in Workers, StartWorker(v) PROVE Inv'
  <2>1. TypeOK' /\ TornDown'
    BY <1>1 DEF StartWorker, TypeOK, TornDown, QueueDestroyed
  <2>2. \A u \in Workers : worker[u] = "run" <=> worker'[u] = "run"
    BY <1>1 DEF StartWorker, TypeOK
  <2> QED
    BY <1>1, <2>1, <2>2, IdleStepKeeps DEF StartWorker
<1>2. CASE StartFails \/ Constructed \/ Destroy
  <2>1. TypeOK' /\ TornDown'
    BY <1>2 DEF StartFails, Constructed, Destroy, TypeOK, TornDown, QueueDestroyed
  <2> QED
    BY <1>2, <2>1, IdleStepKeeps DEF StartFails, Constructed, Destroy
<1>3. ASSUME NEW k \in Tasks, Submit(k) PROVE Inv'
  <2> USE <1>3 DEF Submit
  <2>1. k \notin InQueue /\ \A v \in Workers : ~Runs(v, k)
    BY DEF PendingMeansSomewhere
  <2>2. /\ work_queue' \in Seq(Tasks)
        /\ Len(work_queue') <= Cardinality(Tasks)
        /\ \A m, n \in 1 .. Len(work_queue') : work_queue'[m] = work_queue'[n] => m = n
        /\ InQueue' = InQueue \cup {k}
    BY <2>1, QueueAfterEnq
  <2>3. TypeOK' /\ TornDown'
    BY <2>2 DEF TypeOK, TornDown, QueueDestroyed
  <2>4. \A v \in Workers, l \in Tasks : Runs(v, l)' <=> Runs(v, l)
    BY DEF Runs
  <2>5. PendingMeansSomewhere'
    BY <2>1, <2>2, <2>4 DEF PendingMeansSomewhere, TypeOK
  <2> QED
    BY <2>3, <2>5 DEF Carrying
<1>4. ASSUME NEW v \in Workers, CheckDone(v) \/ QueueEmpty(v) \/ PopDestroyed(v) PROVE Inv'
  <2>1. /\ UNCHANGED <<work_queue, done, owner, task, future>>
        /\ worker[v] \in {"check", "tryPop"}
        /\ crashed' \in BOOLEAN
        /\ \/ worker' = worker
           \/ worker' = [worker EXCEPT ![v] = "exited"]
           \/ worker' = [worker EXCEPT ![v] = "check"]
           \/ worker' = [worker EXCEPT ![v] = "tryPop"]
    BY <1>4 DEF CheckDone, QueueEmpty, PopDestroyed, TypeOK
  <2>2. TypeOK'
    BY <2>1 DEF TypeOK
  <2>3. TornDown'
    BY <2>1 DEF TypeOK, TornDown, QueueDestroyed
  <2>4. \A u \in Workers : worker[u] = "run" <=> worker'[u] = "run"
    BY <2>1 DEF TypeOK
  <2> QED
    BY <2>1, <2>2, <2>3, <2>4, IdleStepKeeps
<1>5. ASSUME NEW v \in Workers, PopTask(v) PROVE Inv'
  <2> DEFINE k == Head(work_queue)
  <2>1. Queue!Deq(v)
    BY <1>5 DEF PopTask
  <2>2. /\ work_queue' \in Seq(Tasks)
        /\ Len(work_queue') <= Cardinality(Tasks)
        /\ \A m, n \in 1 .. Len(work_queue') : work_queue'[m] = work_queue'[n] => m = n
        /\ k \in InQueue /\ k \in Tasks
        /\ InQueue' = InQueue \ {k}
    BY <2>1, QueueAfterDeq
  <2> HIDE DEF k
  <2>3. /\ worker[v] = "tryPop" /\ owner \notin {"join", "gone"}
        /\ task' = [task EXCEPT ![v] = k]
        /\ worker' = [worker EXCEPT ![v] = "run"]
        /\ UNCHANGED <<done, owner, future, crashed>>
    BY <1>5 DEF PopTask, QueueDestroyed, k
  <2>4. TypeOK' /\ TornDown'
    BY <2>2, <2>3 DEF TypeOK, TornDown, QueueDestroyed
  <2>5. \A u \in Workers, l \in Tasks : Runs(u, l)' <=> (Runs(u, l) \/ (u = v /\ l = k))
    BY <2>3 DEF Runs, TypeOK
  <2>6. \A u \in Workers : ~Runs(u, k)
    BY <2>2 DEF PendingMeansSomewhere
  <2>7. PendingMeansSomewhere'
    BY <2>2, <2>3, <2>5, <2>6 DEF PendingMeansSomewhere
  <2>8. Carrying'
    BY <2>2, <2>3 DEF Carrying, TypeOK
  <2> QED
    BY <2>4, <2>7, <2>8
<1>6. ASSUME NEW v \in Workers, RunTask(v) PROVE Inv'
  <2> DEFINE k == task[v]
  <2> USE <1>6 DEF RunTask
  <2>1. TypeOK' /\ TornDown'
    BY DEF TypeOK, TornDown, QueueDestroyed
  <2>2. InQueue' = InQueue
    BY DEF InQueue
  <2>3. \A u \in Workers, l \in Tasks : Runs(u, l)' <=> (Runs(u, l) /\ u # v)
    BY DEF Runs, TypeOK
  <2>4. \A l \in Tasks : future'[l] = IF Runs(v, l) THEN "ready" ELSE future[l]
    BY DEF Runs, TypeOK
  <2>5. \A m, n \in 1 .. Len(work_queue') : work_queue'[m] = work_queue'[n] => m = n
    BY DEF PendingMeansSomewhere
  <2>6. ASSUME NEW l \in Tasks
        PROVE  /\ \A t, u \in Workers : Runs(t, l)' /\ Runs(u, l)' => t = u
               /\ ~(l \in InQueue' /\ \E u \in Workers : Runs(u, l)')
               /\ future'[l] = "pending" <=> (l \in InQueue' \/ \E u \in Workers : Runs(u, l)')
    BY <2>2, <2>3, <2>4 DEF PendingMeansSomewhere
  <2>7. Carrying'
    BY DEF Carrying, TypeOK
  <2> QED
    BY <2>1, <2>5, <2>6, <2>7 DEF PendingMeansSomewhere
<1>7. CASE DropQueue
  <2> USE <1>7 DEF DropQueue
  <2>1. work_queue' = <<>> /\ Len(work_queue') = 0 /\ InQueue' = {}
    BY DEF InQueue
  <2>2. TypeOK'
    BY <2>1, TasksAssumption, FS_CardinalityType, EmptySeq DEF TypeOK
  <2>3. TornDown'
    BY DEF TornDown, QueueDestroyed
  <2>4. \A u \in Workers, l \in Tasks : Runs(u, l)' <=> Runs(u, l)
    BY DEF Runs
  <2>5. PendingMeansSomewhere'
    BY <2>1, <2>4 DEF PendingMeansSomewhere
  <2> QED
    BY <2>2, <2>3, <2>5 DEF Carrying
<1>8. CASE Join
  <2>1. TypeOK' /\ TornDown'
    BY <1>8 DEF Join, TypeOK, TornDown, QueueDestroyed
  <2> QED
    BY <1>8, <2>1, IdleStepKeeps DEF Join
<1>9. CASE UNCHANGED vars
  <2>1. TypeOK' /\ TornDown'
    BY <1>9 DEF vars, TypeOK, TornDown, QueueDestroyed
  <2> QED
    BY <1>9, <2>1, IdleStepKeeps DEF vars
<1> QED
  BY <1>1, <1>2, <1>3, <1>4, <1>5, <1>6, <1>7, <1>8, <1>9
  DEF Next, Construct, TearDown, Work

-----------------------------------------------------------------------------
LEMMA InvAlways == Spec => []Inv
  BY InvInit, InvNext, PTL DEF Spec

(* The queue, the flags, the workers and the futures stay in their types.   *)
THEOREM TypeCorrect == Spec => []TypeOK
<1>1. Inv => TypeOK
  BY DEF Inv
<1> QED
  BY <1>1, InvAlways, PTL

(* submit, work_thread and the destructors together neither lose a pending  *)
(* task nor run one twice, for any number of workers and tasks.             *)
THEOREM NoTaskLost == Spec => []PendingMeansSomewhere
<1>1. Inv => PendingMeansSomewhere
  BY DEF Inv
<1> QED
  BY <1>1, InvAlways, PTL

(* When ~threads_joiner is through, no worker runs and no future waits.     *)
THEOREM NothingLeft == Spec => []NothingLeftBehind
<1>1. ASSUME Inv, owner = "gone"
      PROVE  /\ \A v \in Workers : worker[v] \in {"none", "exited"}
             /\ \A k \in Tasks : future[k] # "pending"
  <2>1. \A v \in Workers : worker[v] \in {"none", "exited"}
    BY <1>1 DEF Inv, TornDown
  <2>2. \A k \in Tasks : k \notin InQueue /\ \A v \in Workers : ~Runs(v, k)
    BY <1>1, <2>1 DEF Inv, TornDown, QueueDestroyed, InQueue, Runs
  <2> QED
    BY <1>1, <2>1, <2>2 DEF Inv, PendingMeansSomewhere
<1>2. Inv => NothingLeftBehind
  BY <1>1 DEF NothingLeftBehind
<1> QED
  BY <1>2, InvAlways, PTL

-----------------------------------------------------------------------------
(* The clients: parallel_accumulate divides its range                       *)

(* Before the last block there is a whole one, and a task for it.           *)
LEMMA WholeBlock ==
  ASSUME AccTypeOK, i < num_blocks - 1
  PROVE  /\ i \in Tasks /\ num_blocks \in Nat
         /\ block_size * i \in Nat /\ block_size * (i + 1) = block_size * i + block_size
         /\ block_size * i + block_size < length
<1> USE AccumulateAssumption DEF AccTypeOK
<1>1. /\ length + block_size - 1 \in Nat /\ num_blocks \in Nat
      /\ block_size * num_blocks <= length + block_size - 1
  <2>1. length + block_size - 1 \in Nat
    OBVIOUS
  <2> DEFINE n == length + block_size - 1
  <2>2. /\ n = block_size * (n \div block_size) + (n % block_size)
        /\ n \div block_size \in Nat /\ n % block_size \in 0 .. block_size - 1
    BY <2>1, DivMod
  <2>3. block_size * (n \div block_size) \in Nat
    BY <2>2
  <2>4. block_size * (n \div block_size) <= n
    BY <2>1, <2>2, <2>3
  <2> QED
    BY <2>1, <2>2, <2>4 DEF num_blocks
<1>2. i + 1 \in Nat /\ i + 1 < num_blocks
  BY <1>1
<1>3. block_size * (i + 1) + block_size <= block_size * num_blocks
  BY <1>1, <1>2, MultiplesApart
<1>4. /\ block_size * i \in Nat /\ block_size * (i + 1) = block_size * i + block_size
      /\ block_size * (i + 1) = (i + 1) * block_size
      /\ block_size * num_blocks \in Nat
  BY <1>1
<1>5. block_size * i + block_size < length
  BY <1>1, <1>3, <1>4
<1>6. (i + 1) * block_size < MaxLength
  BY <1>4, <1>5
<1>7. i <= block_size * i
  <2>1. block_size * i = i + (block_size - 1) * i /\ (block_size - 1) * i \in Nat
    OBVIOUS
  <2> QED
    BY <2>1
<1>8. i \in 0 .. MaxLength
  BY <1>4, <1>5, <1>7
<1>9. i \in Tasks
  BY <1>6, <1>8
<1> QED
  BY <1>1, <1>4, <1>5, <1>9

(* What the clients do to the pool, any client of a pool may do.            *)
LEMMA AccStepIsStep == AccInv /\ [AccNext]_allVars => [Next]_vars
<1> SUFFICES ASSUME AccInv, AccNext PROVE [Next]_vars
  BY DEF allVars
<1>1. ASSUME SubmitBlock PROVE \E k \in Tasks : Submit(k)
  BY <1>1, WholeBlock DEF SubmitBlock, AccInv
<1> QED
  BY <1>1 DEF AccNext, Next, Accumulate, AnyClient, Enter, LastBlock, Get, Leave, ConstructPool,
              ConstructThrows, LeavePool, WorkOnBlock

LEMMA AccInvInit == AccInit => AccInv
<1> SUFFICES ASSUME AccInit PROVE AccInv
  OBVIOUS
<1> USE AccumulateAssumption DEF AccInit, Init
<1>1. AccTypeOK
  BY DEF AccTypeOK
<1>2. Divided
  BY DEF Divided
<1>3. Progress
  BY DEF Progress, Submitted
<1>4. \A x \in DOMAIN visited : visited[x] = 0 /\ ~Reached(x)
  BY DEF Reached
<1> QED
  BY <1>1, <1>2, <1>3, <1>4 DEF AccInv

(* The steps of the pool that finish no task, as parallel_accumulate sees   *)
(* them: the states of its futures tell the same.                           *)
LEMMA PoolStepKeeps ==
  ASSUME AccInv, UNCHANGED accVars,
         \A k \in Tasks : /\ future'[k] = "none" <=> future[k] = "none"
                          /\ future'[k] = "ready" <=> future[k] = "ready"
                          /\ future'[k] = "pending" => future[k] = "pending",
         client = "accumulate" =>
           \/ owner' = owner
           \/ at = "pool" /\ owner' \in {"construct", "open"}
           \/ at \in {"leave", "unwind"} /\ owner' = "join"
  PROVE  AccInv'
<1> USE DEF AccInv, accVars
<1>1. AccTypeOK'
  BY DEF AccTypeOK
<1>2. Divided'
  BY DEF Divided
<1>3. num_blocks' = num_blocks /\ VisitedOnce' = VisitedOnce
  BY DEF num_blocks, VisitedOnce
<1>4. \A n : Submitted(n)' <=> Submitted(n)
  BY DEF Submitted
<1>5. Progress'
  BY <1>3, <1>4 DEF Progress, AccTypeOK
<1>6. \A x : Reached(x)' <=> Reached(x)
  BY DEF Reached
<1> QED
  BY <1>1, <1>2, <1>5, <1>6

(* Another client has no blocks.                                            *)
LEMMA AnyClientKeeps ==
  ASSUME AccInv, client = "any", UNCHANGED accVars
  PROVE  AccInv'
<1> USE DEF AccInv, accVars
<1>1. AccTypeOK'
  BY DEF AccTypeOK
<1>2. at = "start" /\ block_start = 0 /\ \A k \in Tasks : block[k] = {}
  BY DEF Progress, Divided
<1>3. Divided'
  BY <1>2 DEF Divided, AccTypeOK
<1>4. Progress'
  BY <1>2 DEF Progress
<1>5. \A x : ~Reached(x) /\ ~Reached(x)'
  BY <1>2 DEF Reached
<1> QED
  BY <1>1, <1>2, <1>3, <1>4, <1>5

LEMMA EnterKeeps ==
  ASSUME AccInv, Enter
  PROVE  AccInv'
<1> USE DEF AccInv, Enter, vars
<1>1. AccTypeOK'
  BY DEF AccTypeOK
<1>2. Divided'
  BY DEF Divided
<1>3. i = 0 /\ block_start = 0 /\ owner = "construct" /\ Submitted(0)
  BY DEF Progress
<1>4. \A x : ~Reached(x) /\ ~Reached(x)'
  <2>1. \A k \in Tasks : block[k] = {}
    BY <1>3 DEF Divided
  <2> QED
    BY <2>1 DEF Reached
<1>5. VisitedOnce' <=> VisitedOnce
  BY DEF VisitedOnce
<1>6. CASE length = 0
  <2>1. VisitedOnce
    BY <1>4, <1>6 DEF VisitedOnce, AccTypeOK
  <2>2. \A k \in Tasks : future[k] = "none"
    BY <1>3 DEF Submitted
  <2>3. Progress'
    BY <1>5, <1>6, <2>1, <2>2 DEF Progress
  <2> QED
    BY <1>1, <1>2, <1>4, <1>6, <2>3
<1>7. CASE length # 0
  <2>1. num_blocks' = num_blocks /\ 0 < num_blocks
    <3> DEFINE n == length + block_size - 1
    <3>1. n \in Nat /\ block_size <= n
      BY <1>7, AccumulateAssumption DEF AccTypeOK
    <3>2. /\ n = block_size * (n \div block_size) + (n % block_size)
          /\ n \div block_size \in Nat /\ n % block_size \in 0 .. block_size - 1
      BY <3>1, DivMod, AccumulateAssumption
    <3>3. n \div block_size # 0
      BY <3>1, <3>2, AccumulateAssumption
    <3> QED
      BY <3>2, <3>3 DEF num_blocks
  <2>2. Submitted(0)' /\ block_size * 0 = 0
    BY <1>3, AccumulateAssumption DEF Submitted
  <2>3. Progress'
    BY <1>3, <1>7, <2>1, <2>2 DEF Progress
  <2> QED
    BY <1>1, <1>2, <1>4, <1>7, <2>3
<1> QED
  BY <1>6, <1>7

(* A block submitted adds to the range that is divided.                     *)
LEMMA SubmitBlockKeeps ==
  ASSUME AccInv, Inv, SubmitBlock
  PROVE  AccInv'
<1> DEFINE new == block_start .. block_start + block_size - 1
<1>1. /\ at = "pool" /\ at' = at /\ owner = "open" /\ owner' = owner /\ client' = client
      /\ length' = length /\ visited' = visited /\ i < num_blocks - 1
      /\ i' = i + 1 /\ block_start' = block_start + block_size
      /\ block' = [block EXCEPT ![i] = new]
      /\ future[i] = "none" /\ future' = [future EXCEPT ![i] = "pending"]
  <2>1. /\ at = "pool" /\ at' = at /\ client' = client
        /\ length' = length /\ visited' = visited /\ i < num_blocks - 1
        /\ i' = i + 1 /\ block_start' = block_start + block_size
    BY DEF SubmitBlock
  <2>2. block' = [block EXCEPT ![i] = new]
    BY AccumulateAssumption DEF SubmitBlock, AccInv, AccTypeOK
  <2>3. Submit(i)
    BY DEF SubmitBlock
  <2> QED
    BY <2>1, <2>2, <2>3 DEF Submit
<1> USE DEF AccInv
<1>2. block_start = block_size * i /\ Submitted(i) /\ client = "accumulate"
  BY <1>1 DEF Progress, AccTypeOK
<1>3. /\ i \in Tasks /\ num_blocks \in Nat
      /\ block_start + block_size < length /\ block_size * (i + 1) = block_start'
  BY <1>1, <1>2, WholeBlock
<1>4. \A k \in Tasks : /\ future'[k] = (IF k = i THEN "pending" ELSE future[k])
                       /\ block'[k] = (IF k = i THEN new ELSE block[k])
  BY <1>1 DEF Inv, TypeOK, AccTypeOK
<1>5. /\ block_start \in Nat /\ block_size \in Nat \ {0} /\ i \in Nat /\ length \in Nat
      /\ num_blocks' = num_blocks
  BY <1>1, AccumulateAssumption DEF AccTypeOK, num_blocks
<1>6. AccTypeOK'
  <2>1. new \subseteq Nat
    BY <1>5
  <2> HIDE DEF new
  <2>2. block' \in [Tasks -> SUBSET Nat]
    BY <1>1, <2>1 DEF AccTypeOK
  <2> QED
    BY <1>1, <1>5, <2>2 DEF AccTypeOK
<1>7. Divided'
  <2>1. block_start' <= length'
    BY <1>1, <1>3, <1>5 DEF AccTypeOK
  <2>2. ASSUME NEW x \in 0 .. block_start' - 1 PROVE \E k \in Tasks : x \in block'[k]
    <3>1. CASE x \in 0 .. block_start - 1
      <4>1. PICK k \in Tasks : x \in block[k]
        BY <3>1 DEF Divided
      <4>2. k # i
        BY <1>1, <4>1 DEF Divided
      <4> QED
        BY <1>4, <4>1, <4>2
    <3>2. CASE x \in new
      BY <1>3, <1>4, <3>2
    <3> QED
      BY <1>1, <1>5, <3>1, <3>2
  <2>3. \A k \in Tasks : block[k] \subseteq 0 .. block_start - 1
    BY DEF Divided
  <2>4. ASSUME NEW k \in Tasks PROVE block'[k] \subseteq 0 .. block_start' - 1
    BY <1>1, <1>4, <1>5, <2>3
  <2>5. ASSUME NEW k \in Tasks, future'[k] = "none" PROVE block'[k] = {}
    BY <1>4, <2>5 DEF Divided
  <2>6. ASSUME NEW k \in Tasks, NEW l \in Tasks \ {k} PROVE block'[k] \cap block'[l] = {}
    <3>1. \A m \in Tasks : new \cap block[m] = {} /\ block[m] \cap new = {}
      BY <1>5, <2>3
    <3> QED
      BY <1>4, <3>1 DEF Divided
  <2> QED
    BY <2>1, <2>2, <2>4, <2>5, <2>6 DEF Divided
<1>8. Progress'
  <2>1. \A k \in Tasks : k \in 0 .. i' - 1 <=> k = i \/ k \in 0 .. i - 1
    BY <1>1, <1>5
  <2>2. Submitted(i)'
    BY <1>2, <1>4, <2>1 DEF Submitted
  <2>3. i' < num_blocks'
    BY <1>1, <1>3, <1>5
  <2> QED
    BY <1>1, <1>2, <1>3, <1>5, <2>2, <2>3 DEF Progress
<1>9. \A x : Reached(x)' <=> Reached(x)
  BY <1>1, <1>4 DEF Reached
<1> QED
  BY <1>1, <1>6, <1>7, <1>8, <1>9

(* Wherever a task or the caller has been is in the range.                  *)
LEMMA ReachedInside ==
  ASSUME AccInv, NEW x \in DOMAIN visited, Reached(x)
  PROVE  x < length
<1> USE DEF AccInv
<1>1. x \in Nat /\ block_start \in Nat /\ length \in Nat /\ block_start <= length
  BY AccumulateAssumption DEF AccTypeOK, Divided
<1>2. ASSUME NEW k \in Tasks, x \in block[k] PROVE x < length
  <2>1. x \in 0 .. block_start - 1
    BY <1>2 DEF Divided
  <2> QED
    BY <1>1, <2>1
<1> QED
  BY <1>1, <1>2 DEF Reached

(* The caller walks through what is left, where nobody has been.            *)
LEMMA LastBlockKeeps ==
  ASSUME AccInv, LastBlock
  PROVE  AccInv'
<1>1. /\ UNCHANGED <<vars, client, length, block_start, block>>
      /\ at = "pool" /\ owner = "open" /\ i = num_blocks - 1 /\ at' = "get" /\ i' = 0
      /\ visited' = [x \in DOMAIN visited |->
                       visited[x] + (IF x \in block_start .. length - 1 THEN 1 ELSE 0)]
  BY DEF LastBlock, Walk
<1> USE DEF AccInv
<1>2. /\ block_start \in Nat /\ length \in Nat /\ i \in Nat
      /\ visited \in [0 .. MaxLength - 1 -> Nat]
      /\ num_blocks' = num_blocks
  BY <1>1 DEF AccTypeOK, num_blocks
<1>3. DOMAIN visited' = DOMAIN visited /\ AccTypeOK'
  <2>1. visited' \in [0 .. MaxLength - 1 -> Nat]
    BY <1>1, <1>2
  <2> QED
    BY <1>1, <1>2, <2>1 DEF AccTypeOK
<1>4. Divided'
  BY <1>1 DEF Divided, vars
<1>5. Progress'
  <2>1. Submitted(i) /\ client = "accumulate"
    BY <1>1, <1>2 DEF Progress, AccTypeOK
  <2>2. \A n : Submitted(n)' <=> Submitted(n)
    BY <1>1 DEF Submitted, vars
  <2>3. Submitted(num_blocks - 1)'
    BY <1>1, <1>2, <2>1 DEF Submitted, vars
  <2>4. 0 < num_blocks' /\ 0 .. i' - 1 = {}
    <3>1. num_blocks \in Int
      BY AccumulateAssumption DEF num_blocks, AccTypeOK
    <3> QED
      BY <1>1, <1>2, <3>1
  <2> QED
    BY <1>1, <2>1, <2>3, <2>4 DEF Progress, vars
<1>6. ASSUME NEW x \in DOMAIN visited PROVE visited'[x] = IF Reached(x)' THEN 1 ELSE 0
  <2> DEFINE last == x \in block_start .. length - 1
  <2>1. visited[x] = IF Reached(x) THEN 1 ELSE 0
    BY <1>1
  <2>2. visited'[x] = visited[x] + IF last THEN 1 ELSE 0
    BY <1>1
  <2>3. Reached(x)' <=> (Reached(x) \/ last)
    BY <1>1 DEF Reached, vars
  <2>4. ~(Reached(x) /\ last)
    <3>1. ASSUME NEW k \in Tasks, x \in block[k] PROVE ~last
      <4>1. x \in 0 .. block_start - 1
        BY <3>1 DEF Divided
      <4> QED
        BY <1>2, <4>1
    <3> QED
      BY <1>1, <3>1 DEF Reached
  <2> HIDE DEF last
  <2> QED
    BY <2>1, <2>2, <2>3, <2>4
<1> QED
  BY <1>3, <1>4, <1>5, <1>6

LEMMA GetKeeps ==
  ASSUME AccInv, Get
  PROVE  AccInv'
<1> USE DEF AccInv
<1>1. /\ UNCHANGED <<vars, client, length, at, block_start, block, visited>>
      /\ at = "get" /\ i < num_blocks - 1 /\ future[i] = "ready" /\ i' = i + 1
  BY DEF Get
<1>2. AccTypeOK'
  BY <1>1 DEF AccTypeOK
<1>3. Divided'
  BY <1>1 DEF Divided, vars
<1>4. i \in Nat /\ num_blocks \in Nat /\ num_blocks' = num_blocks
  BY <1>1, WholeBlock DEF AccTypeOK, num_blocks
<1>5. Progress'
  <2>1. \A k \in Tasks : k \in 0 .. i' - 1 => k = i \/ k \in 0 .. i - 1
    BY <1>1, <1>4
  <2>2. \A k \in Tasks : k \in 0 .. i' - 1 => future'[k] = "ready"
    BY <1>1, <2>1 DEF Progress, vars
  <2>3. Submitted(num_blocks - 1)'
    BY <1>1, <1>4 DEF Progress, Submitted, vars
  <2>4. i' < num_blocks' /\ owner' = "open"
    BY <1>1, <1>4 DEF Progress, vars
  <2> QED
    BY <1>1, <2>2, <2>3, <2>4 DEF Progress
<1>6. \A x : Reached(x)' <=> Reached(x)
  BY <1>1 DEF Reached, vars
<1> QED
  BY <1>1, <1>2, <1>3, <1>5, <1>6

(* Every task submitted is ready, and so the whole range has been visited.  *)
LEMMA LeaveKeeps ==
  ASSUME AccInv, Leave
  PROVE  AccInv'
<1>1. /\ UNCHANGED <<future, client, length, i, block_start, block, visited>>
      /\ at = "get" /\ i = num_blocks - 1 /\ at' = "leave" /\ owner' = "dropQueue"
  BY DEF Leave, Destroy
<1> USE DEF AccInv
<1>2. /\ block_start \in Nat /\ length \in Nat /\ block_start <= length
      /\ DOMAIN visited = 0 .. MaxLength - 1
  BY DEF AccTypeOK, Divided
<1>3. AccTypeOK'
  BY <1>1 DEF AccTypeOK
<1>4. Divided'
  BY <1>1 DEF Divided
<1>5. \A k \in Tasks : future[k] = "ready" \/ future[k] = "none"
  <2>1. Submitted(i) /\ \A k \in Tasks : k \in 0 .. i - 1 => future[k] = "ready"
    BY <1>1 DEF Progress
  <2> QED
    BY <2>1 DEF Submitted
<1>6. ASSUME NEW x \in DOMAIN visited PROVE visited[x] = IF x < length THEN 1 ELSE 0
  <2>1. visited[x] = IF Reached(x) THEN 1 ELSE 0
    BY <1>1
  <2>2. ASSUME x < length PROVE Reached(x)
    <3>1. CASE x \in 0 .. block_start - 1
      <4>1. PICK k \in Tasks : x \in block[k]
        BY <3>1 DEF Divided
      <4>2. future[k] = "ready"
        BY <1>5, <4>1 DEF Divided
      <4> QED
        BY <4>1, <4>2 DEF Reached
    <3>2. CASE x \in block_start .. length - 1
      BY <1>1, <3>2 DEF Reached
    <3>3. x \in Nat
      BY <1>2
    <3> QED
      BY <1>2, <2>2, <3>1, <3>2, <3>3
  <2>3. Reached(x) => x < length
    BY ReachedInside
  <2> QED
    BY <2>1, <2>2, <2>3
<1>7. VisitedOnce'
  BY <1>1, <1>6 DEF VisitedOnce
<1>8. client = "accumulate"
  BY <1>1 DEF Progress, AccTypeOK
<1>9. Progress'
  BY <1>1, <1>5, <1>7, <1>8 DEF Progress
<1> QED
  BY <1>1, <1>3, <1>4, <1>9

(* What a worker does to the futures and the owner.                         *)
LEMMA WorkEffect ==
  ASSUME Inv, NEW v \in Workers, Work(v)
  PROVE  /\ owner' = owner
         /\ worker[v] # "run" => future' = future
         /\ worker[v] = "run" => /\ task[v] \in Tasks /\ future[task[v]] = "pending"
                                 /\ future' = [future EXCEPT ![task[v]] = "ready"]
<1>1. CASE worker[v] = "run"
  <2>1. RunTask(v)
    BY <1>1 DEF Work, CheckDone, PopTask, QueueEmpty, PopDestroyed
  <2>2. task[v] \in Tasks
    BY <1>1 DEF Inv, Carrying
  <2>3. future[task[v]] = "pending"
    BY <1>1, <2>2 DEF Inv, PendingMeansSomewhere, Runs
  <2> QED
    BY <1>1, <2>1, <2>2, <2>3 DEF RunTask
<1>2. CASE worker[v] # "run"
  BY <1>2 DEF Work, CheckDone, PopTask, QueueEmpty, PopDestroyed, RunTask
<1> QED
  BY <1>1, <1>2

(* A task that runs has its block to itself, and has not been there before. *)
LEMMA WorkOnBlockKeeps ==
  ASSUME AccInv, Inv, client = "accumulate", NEW v \in Workers, WorkOnBlock(v)
  PROVE  AccInv'
<1> USE DEF AccInv
<1>1. /\ UNCHANGED <<client, length, at, i, block_start, block>>
      /\ Work(v) /\ Walk(IF worker[v] = "run" THEN block[task[v]] ELSE {})
  BY DEF WorkOnBlock
<1>2. owner' = owner
  BY <1>1, WorkEffect
<1>3. CASE worker[v] # "run"
  <2>1. future' = future
    BY <1>1, <1>3, WorkEffect
  <2>2. visited' = visited
    BY <1>1, <1>3 DEF Walk, AccTypeOK
  <2> QED
    BY <1>1, <1>2, <2>1, <2>2, PoolStepKeeps DEF accVars
<1>4. CASE worker[v] = "run"
  <2>1. PICK k \in Tasks : /\ k = task[v] /\ future[k] = "pending"
                           /\ future' = [future EXCEPT ![k] = "ready"]
    BY <1>1, <1>4, WorkEffect
  <2>2. \A l \in Tasks : future'[l] = IF l = k THEN "ready" ELSE future[l]
    BY <2>1 DEF Inv, TypeOK
  <2>3. visited' = [x \in DOMAIN visited |-> visited[x] + (IF x \in block[k] THEN 1 ELSE 0)]
    BY <1>1, <1>4, <2>1 DEF Walk
  <2>4. AccTypeOK'
    <3>1. visited' \in [0 .. MaxLength - 1 -> Nat]
      BY <2>3 DEF AccTypeOK
    <3> QED
      BY <1>1, <3>1 DEF AccTypeOK
  <2>5. Divided'
    BY <1>1, <2>1, <2>2 DEF Divided
  <2>6. at \notin {"leave", "returned"}
    BY <2>1 DEF Progress
  <2>7. Progress'
    <3>1. num_blocks' = num_blocks
      BY <1>1 DEF num_blocks
    <3>2. Submitted(0)' <=> Submitted(0)
      BY <2>1, <2>2 DEF Submitted
    <3>3. Submitted(i)' <=> Submitted(i)
      BY <1>1, <2>1, <2>2 DEF Submitted
    <3>4. Submitted(num_blocks - 1)' <=> Submitted(num_blocks - 1)
      BY <2>1, <2>2, <3>1 DEF Submitted
    <3> QED
      BY <1>1, <1>2, <2>2, <2>6, <3>1, <3>2, <3>3, <3>4 DEF Progress
  <2>8. ASSUME NEW x \in DOMAIN visited PROVE visited'[x] = IF Reached(x)' THEN 1 ELSE 0
    <3>1. visited[x] = IF Reached(x) THEN 1 ELSE 0
      BY <2>6
    <3>2. visited'[x] = visited[x] + IF x \in block[k] THEN 1 ELSE 0
      BY <2>3
    <3>3. Reached(x)' <=> (Reached(x) \/ x \in block[k])
      BY <1>1, <2>1, <2>2 DEF Reached
    <3>4. ~(Reached(x) /\ x \in block[k])
      <4>1. ASSUME x \in block[k], NEW l \in Tasks, l # k PROVE x \notin block[l]
        BY <4>1 DEF Divided
      <4>2. ASSUME x \in block[k] PROVE x \notin block_start .. length - 1
        <5>1. x \in 0 .. block_start - 1 /\ block_start \in Nat
          BY <4>2 DEF Divided, AccTypeOK
        <5> QED
          BY <5>1 DEF AccTypeOK
      <4> QED
        BY <2>1, <4>1, <4>2 DEF Reached
    <3> QED
      BY <3>1, <3>2, <3>3, <3>4
  <2> QED
    BY <1>1, <2>3, <2>4, <2>5, <2>6, <2>7, <2>8
<1> QED
  BY <1>3, <1>4

(* The destructors of the members; with the last of them the call is over.  *)
LEMMA LeavePoolKeeps ==
  ASSUME AccInv, Inv, client = "accumulate", LeavePool
  PROVE  AccInv'
<1> USE DEF AccInv
<1>1. /\ TearDown
      /\ UNCHANGED <<client, length, i, block_start, block, visited>>
  BY DEF LeavePool
<1>2. at \in {"leave", "unwind"}
  BY <1>1 DEF TearDown, DropQueue, Join, Progress, AccTypeOK
<1>3. CASE DropQueue
  <2>1. /\ owner' = "join"
        /\ future' = [k \in Tasks |-> IF k \in InQueue THEN "broken" ELSE future[k]]
    BY <1>3 DEF DropQueue
  <2>2. UNCHANGED accVars
    BY <1>1, <2>1 DEF LeavePool, accVars
  <2>3. \A k \in Tasks : k \in InQueue => future[k] = "pending"
    BY DEF Inv, PendingMeansSomewhere
  <2>4. \A k \in Tasks : /\ future'[k] = "none" <=> future[k] = "none"
                         /\ future'[k] = "ready" <=> future[k] = "ready"
                         /\ future'[k] = "pending" => future[k] = "pending"
    BY <2>1, <2>3
  <2> QED
    BY <1>2, <2>1, <2>2, <2>4, PoolStepKeeps
<1>4. CASE Join
  <2>1. owner' = "gone" /\ future' = future
    BY <1>4 DEF Join
  <2>2. /\ at = "leave" => at' = "returned"
        /\ at = "unwind" => at' = "thrown"
    BY <2>1 DEF LeavePool
  <2>3. AccTypeOK' /\ Divided'
    BY <1>1, <1>2, <2>1, <2>2 DEF AccTypeOK, Divided
  <2>4. VisitedOnce' <=> VisitedOnce
    BY <1>1 DEF VisitedOnce
  <2>5. Progress'
    BY <1>1, <1>2, <2>1, <2>2, <2>4 DEF Progress
  <2>6. \A x : Reached(x)' <=> Reached(x)
    BY <1>1, <1>2, <2>1, <2>2 DEF Reached
  <2> QED
    BY <1>1, <1>2, <2>2, <2>3, <2>5, <2>6
<1> QED
  BY <1>1, <1>3, <1>4 DEF TearDown

LEMMA AccInvNext == AccInv /\ Inv /\ [AccNext]_allVars => AccInv'
<1> SUFFICES ASSUME AccInv, Inv, [AccNext]_allVars PROVE AccInv'
  OBVIOUS
<1>1. CASE client = "any"
  <2>1. UNCHANGED accVars
    <3>1. at = "start" /\ \A k \in Tasks : block[k] = {}
      BY <1>1 DEF AccInv, Progress, Divided
    <3>2. ASSUME NEW v \in Workers, WorkOnBlock(v) PROVE UNCHANGED accVars
      <4>1. Walk({})
        BY <3>1, <3>2, WorkEffect DEF WorkOnBlock
      <4>2. visited' = visited
        BY <4>1 DEF Walk, AccInv, AccTypeOK
      <4> QED
        BY <3>2, <4>2 DEF WorkOnBlock, accVars
    <3>3. ASSUME ConstructThrows PROVE UNCHANGED accVars
      BY <1>1, <3>3 DEF ConstructThrows, accVars
    <3>4. ASSUME LeavePool PROVE UNCHANGED accVars
      <4>1. at' = at
        BY <3>1, <3>4 DEF LeavePool
      <4> QED
        BY <3>4, <4>1 DEF LeavePool, accVars
    <3> QED
      BY <1>1, <3>1, <3>2, <3>3, <3>4 DEF AccNext, allVars, Accumulate, AnyClient, Enter,
         SubmitBlock, LastBlock, Get, Leave, ConstructPool
  <2> QED
    BY <1>1, <2>1, AnyClientKeeps
<1>2. CASE client = "accumulate"
  <2>1. CASE UNCHANGED allVars
    BY <2>1, PoolStepKeeps DEF allVars, vars
  <2>2. CASE ConstructPool
    <3>1. at = "pool" /\ Construct /\ UNCHANGED accVars
      BY <1>2, <2>2 DEF ConstructPool
    <3>2. future' = future /\ owner' \in {"construct", "open"}
      BY <3>1 DEF Construct, Constructed, StartWorker
    <3> QED
      BY <3>1, <3>2, PoolStepKeeps
  <2>3. CASE ConstructThrows
    <3>1. /\ at = "pool" /\ at' = "unwind" /\ future' = future /\ owner' = "dropQueue"
          /\ UNCHANGED <<client, length, i, block_start, block, visited>>
      BY <1>2, <2>3 DEF ConstructThrows, StartFails
    <3>2. AccTypeOK' /\ Divided' /\ Progress'
      BY <1>2, <3>1 DEF AccInv, AccTypeOK, Divided, Progress
    <3>3. \A x : Reached(x)' <=> Reached(x)
      BY <3>1 DEF Reached
    <3> QED
      BY <3>1, <3>2, <3>3 DEF AccInv
  <2>4. CASE LeavePool
    BY <1>2, <2>4, LeavePoolKeeps
  <2>5. ~AnyClient
    BY <1>2 DEF AnyClient
  <2> QED
    BY <1>2, <2>1, <2>2, <2>3, <2>4, <2>5, EnterKeeps, SubmitBlockKeeps, LastBlockKeeps, GetKeeps,
       LeaveKeeps, WorkOnBlockKeeps DEF AccNext, Accumulate
<1> QED
  BY <1>1, <1>2 DEF AccInv, AccTypeOK

(* The blocks submitted divide the range up to block_start, and what the    *)
(* tasks and the caller have visited is known from the futures.             *)
THEOREM AccInvariance == AccSpec => [](AccInv /\ Inv)
<1>1. AccInit => AccInv /\ Inv
  BY AccInvInit, InvInit DEF AccInit
<1>2. AccInv /\ Inv /\ [AccNext]_allVars => (AccInv /\ Inv)'
  BY AccInvNext, AccStepIsStep, InvNext
<1> QED
  BY <1>1, <1>2, PTL DEF AccSpec

(* parallel_accumulate uses its pool as ThreadPool lets any client, so that *)
(* the theorems about the pool hold for it.                                 *)
THEOREM ClientsKeepTheContract == AccSpec => Spec
<1>1. AccInit => Init
  BY DEF AccInit
<1>2. AccInv /\ Inv /\ [AccNext]_allVars => [Next]_vars
  BY AccStepIsStep
<1> QED
  BY <1>1, <1>2, AccInvariance, PTL DEF AccSpec, Spec

(* The tasks and the caller visit each element of the range once, for every *)
(* length and size of the blocks, before parallel_accumulate leaves.        *)
THEOREM EachElementOnce == AccSpec => []RangeCovered
<1>1. ASSUME AccInv PROVE RangeCovered
  <2>1. ASSUME at \notin {"leave", "returned"}, NEW x \in DOMAIN visited
        PROVE  visited[x] <= IF x < length THEN 1 ELSE 0
    <3>1. visited[x] = IF Reached(x) THEN 1 ELSE 0
      BY <1>1, <2>1 DEF AccInv
    <3>2. Reached(x) => x < length
      BY <1>1, ReachedInside
    <3> QED
      BY <3>1, <3>2
  <2>2. at \in {"leave", "returned"} => VisitedOnce
    BY <1>1 DEF AccInv, Progress
  <2> QED
    BY <2>1, <2>2 DEF RangeCovered, VisitedOnce
<1> QED
  BY <1>1, AccInvariance, PTL
=============================================================================
