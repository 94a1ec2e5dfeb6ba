-------------------------- MODULE ParallelAccumulate --------------------------
(***************************************************************************)
(* The clients of ThreadPool (test_threadpool.cpp).  parallel_accumulate   *)
(* divides its range into blocks, submits all but the last to a pool of    *)
(* its own, walks through the last itself and then waits for the futures.  *)
(* test_ThreadPool1 and any other client submits tasks as it likes and may *)
(* leave the scope of its pool at any moment.                              *)
(*                                                                         *)
(* accumulate_block drops the result of std::accumulate and returns a      *)
(* variable that nobody has written; so values are left out, and the model *)
(* has the elements that the blocks walk through.                          *)
(***************************************************************************)
EXTENDS ThreadPool

CONSTANTS block_size,   (* 25 in the code                                    *)
          MaxLength     (* bound: the elements of the range                  *)

ASSUME AccumulateAssumption ==
  /\ block_size \in Nat \ {0} /\ MaxLength \in Nat
  /\ \A k \in 0 .. MaxLength : (k + 1) * block_size < MaxLength => k \in Tasks

VARIABLES client,       (* "accumulate" or "any"                             *)
          length,       (* of [first, last)                                  *)
          at,           (* where parallel_accumulate is                      *)
          i,            (* the loop variable                                 *)
          block_start,
          block,        (* block[k]: the positions that task k walks through *)
          visited       (* visited[x]: how often a block has been at x       *)

accVars == <<client, length, at, i, block_start, block, visited>>

AccInit == /\ Init
           /\ client \in {"accumulate", "any"}
           /\ length \in 0 .. MaxLength
           /\ client = "any" => length = 0
           /\ at = "start"
           /\ i = 0
           /\ block_start = 0
           /\ block = [k \in Tasks |-> {}]
           /\ visited = [x \in 0 .. MaxLength - 1 |-> 0]

(* Mutant: the number of blocks is rounded down.                            *)
num_blocksFull == length \div block_size

num_blocks == (length + block_size - 1) \div block_size

(* accumulate_block over the positions of a block.                          *)
Walk(positions) ==
  visited' = [x \in DOMAIN visited |-> visited[x] + (IF x \in positions THEN 1 ELSE 0)]

-----------------------------------------------------------------------------
Enter ==
  /\ client = "accumulate" /\ at = "start"
  /\ at' = IF length = 0 THEN "returned" ELSE "pool"
  /\ UNCHANGED <<vars, client, length, i, block_start, block, visited>>

(* ThreadPool pool;                                                         *)
ConstructPool ==
  /\ client = "any" \/ at = "pool"
  /\ Construct
  /\ UNCHANGED accVars

ConstructThrows ==
  /\ client = "any" \/ at = "pool"
  /\ StartFails
  /\ at' = IF client = "any" THEN at ELSE "unwind"
  /\ UNCHANGED <<client, length, i, block_start, block, visited>>

SubmitBlock ==
  LET block_end == block_start + block_size
  IN /\ at = "pool"
     /\ i < num_blocks - 1
     /\ Submit(i)
     /\ block' = [block EXCEPT ![i] = block_start .. block_end - 1]
     /\ block_start' = block_end
     /\ i' = i + 1
     /\ UNCHANGED <<client, length, at, visited>>

LastBlock ==
  /\ at = "pool" /\ owner = "open"
  /\ i = num_blocks - 1
  /\ Walk(block_start .. length - 1)
  /\ at' = "get"
  /\ i' = 0
  /\ UNCHANGED <<vars, client, length, block_start, block>>

(* Mutant: the future is not waited for.                                    *)
GetAtOnce ==
  /\ at = "get"
  /\ i < num_blocks - 1
  /\ i' = i + 1
  /\ UNCHANGED <<vars, client, length, at, block_start, block, visited>>

(* futures[i].get()                                                         *)
Get ==
  /\ at = "get"
  /\ i < num_blocks - 1
  /\ future[i] = "ready"
  /\ i' = i + 1
  /\ UNCHANGED <<vars, client, length, at, block_start, block, visited>>

(* return, which begins to destroy the pool.                                *)
Leave ==
  /\ at = "get"
  /\ i = num_blocks - 1
  /\ Destroy
  /\ at' = "leave"
  /\ UNCHANGED <<client, length, i, block_start, block, visited>>

(* Other clients.                                                           *)
AnyClient ==
  /\ client = "any"
  /\ Destroy \/ \E k \in Tasks : Submit(k)
  /\ UNCHANGED accVars

-----------------------------------------------------------------------------
WorkOnBlock(w) ==
  /\ Work(w)
  /\ Walk(IF worker[w] = "run" THEN block[task[w]] ELSE {})
  /\ UNCHANGED <<client, length, at, i, block_start, block>>

(* The call is over when the last member of the pool is gone: "leave" ends  *)
(* in "returned", and "unwind" in "thrown".                                 *)
LeavePool ==
  /\ TearDown
  /\ at' = CASE owner' = "gone" /\ at = "leave" -> "returned"
             [] owner' = "gone" /\ at = "unwind" -> "thrown"
             [] OTHER -> at
  /\ UNCHANGED <<client, length, i, block_start, block, visited>>

Accumulate == Enter \/ SubmitBlock \/ LastBlock \/ Get \/ Leave

AccNext == /\ ~crashed
           /\ \/ Accumulate \/ AnyClient
              \/ ConstructPool \/ ConstructThrows \/ LeavePool
              \/ \E w \in Workers : WorkOnBlock(w)

allVars == <<vars, accVars>>

(* The fairness of ThreadPool, and of the thread of parallel_accumulate.    *)
AccSpec == /\ AccInit /\ [][AccNext]_allVars
           /\ \A w \in Workers : WF_allVars(~crashed /\ WorkOnBlock(w))
           /\ WF_allVars(~crashed /\ ConstructPool)
           /\ WF_allVars(~crashed /\ LeavePool)
           /\ WF_allVars(~crashed /\ Accumulate)

-----------------------------------------------------------------------------
VisitedOnce == \A x \in DOMAIN visited : visited[x] = IF x < length THEN 1 ELSE 0

(* No element is visited twice, by whichever threads, and none outside of   *)
(* the range; once parallel_accumulate has all its futures and destroys its *)
(* pool, none has been left out.                                            *)
RangeCovered ==
  /\ \A x \in DOMAIN visited : visited[x] <= IF x < length THEN 1 ELSE 0
  /\ at \in {"leave", "returned"} => VisitedOnce

(* parallel_accumulate returns, for every length: its pool is gone then,    *)
(* with every worker it has started, and the blocks have been at every      *)
(* element of the range once.  There are two exceptions.  A worker could    *)
(* not be started, and the call throws once the others are joined; or,      *)
(* while the pool is destroyed, a worker polls the queue that is no more    *)
(* (PopDestroyed), and the process dies of it.                              *)
AccumulateReturns ==
  (client = "accumulate") ~>
     \/ at = "returned" /\ VisitedOnce /\ \A w \in Workers : worker[w] \in {"none", "exited"}
     \/ at = "thrown"
     \/ crashed /\ at \in {"leave", "unwind"}

-----------------------------------------------------------------------------
(* The inductive invariant                                                  *)

AccTypeOK ==
  /\ client \in {"accumulate", "any"}
  /\ length \in 0 .. MaxLength
  /\ at \in {"start", "pool", "get", "leave", "returned", "unwind", "thrown"}
  /\ i \in Nat /\ block_start \in Nat
  /\ block \in [Tasks -> SUBSET Nat]
  /\ visited \in [0 .. MaxLength - 1 -> Nat]

(* Why it works.  The blocks submitted divide the range up to block_start.  *)
Divided ==
  /\ block_start <= length
  /\ \A x \in 0 .. block_start - 1 : \E k \in Tasks : x \in block[k]
  /\ \A k \in Tasks : /\ block[k] \subseteq 0 .. block_start - 1
                      /\ future[k] = "none" => block[k] = {}
                      /\ \A l \in Tasks \ {k} : block[k] \cap block[l] = {}

Submitted(n) == \A k \in Tasks : future[k] # "none" <=> k \in 0 .. n - 1

Progress ==
  /\ client = "any" => at = "start" /\ block_start = 0
  /\ client = "accumulate" /\ at = "start" =>
       owner = "construct" /\ i = 0 /\ block_start = 0 /\ Submitted(0)
  /\ at = "pool" => /\ owner \in {"construct", "open"}
                    /\ i < num_blocks /\ block_start = block_size * i /\ Submitted(i)
  /\ at = "get" => /\ owner = "open"
                   /\ i < num_blocks /\ Submitted(num_blocks - 1)
                   /\ \A k \in Tasks : k \in 0 .. i - 1 => future[k] = "ready"
  /\ at \in {"leave", "returned"} =>
       VisitedOnce /\ \A k \in Tasks : future[k] # "pending"
  /\ at \in {"leave", "unwind"} => owner \in {"dropQueue", "join"}
  /\ at \in {"returned", "thrown"} => owner \in {"construct", "gone"}

(* Where the tasks that are ready, and the caller itself, have been.        *)
Reached(x) == \/ \E k \in Tasks : future[k] = "ready" /\ x \in block[k]
              \/ at = "get" /\ x \in block_start .. length - 1

AccInv ==
  /\ AccTypeOK /\ Divided /\ Progress
  /\ at \notin {"leave", "returned"} =>
       \A x \in DOMAIN visited : visited[x] = IF Reached(x) THEN 1 ELSE 0
=============================================================================
