--------------------------- MODULE ThreadSafeQueue ---------------------------
(***************************************************************************)
(* ThreadSafeQueue (DataStructures/ThreadSafeQueue.h): an unbounded queue  *)
(* kept as a singly linked list with a dummy node at its end.  head_mutex  *)
(* guards the end where nodes are taken, tail_mutex the end where they are *)
(* added, and a consumer that finds the list empty sleeps on cond, which   *)
(* is used with head_mutex.  push never takes head_mutex.                  *)
(*                                                                         *)
(* One action per access to shared memory, except that a critical section  *)
(* that performs a single access is one action: get_tail locks tail_mutex, *)
(* reads tail and unlocks, and pop_head runs with head_mutex held.         *)
(***************************************************************************)
EXTENDS Integers, Sequences, FiniteSets

CONSTANTS Pushers,      (* the threads that call push                       *)
          WaitPoppers,  (* the threads that call wait_and_pop               *)
          TryPoppers,   (* the threads that call try_pop                    *)
          Values,       (* the data pushed                                  *)
          Offers,       (* Offers[t]: the data that thread t pushes         *)
          NoValue,      (* an empty shared_ptr                              *)
          Nodes,        (* the addresses the allocator hands out            *)
          Null,         (* the null pointer                                 *)
          NoThread,     (* the owner of a free mutex                        *)
          MaxCalls,     (* bound: the calls each thread makes               *)
          MaxSpurious   (* bound: the spurious wake-ups of a behaviour      *)

Threads == Pushers \cup WaitPoppers \cup TryPoppers

ASSUME NullAssumption == Null \notin Nodes
ASSUME NodesAssumption == IsFiniteSet(Nodes)
ASSUME EmptyPointerAssumption == NoValue \notin Values
ASSUME OffersAssumption == Offers \in [Threads -> SUBSET Values]
ASSUME NoThreadAssumption == NoThread \notin Threads
ASSUME BoundsAssumption == MaxCalls \in Nat /\ MaxSpurious \in Nat

VARIABLES head,       (* the first node of the list                         *)
          tail,       (* its last node, the dummy                           *)
          next,       (* next[n]: the node owned by n->next, or Null        *)
          data,       (* data[n]: what n->data points to, or NoValue        *)
          live,       (* the allocated nodes                                *)
          headMutex,  (* the owner of head_mutex, or NoThread               *)
          tailMutex,  (* the owner of tail_mutex, or NoThread               *)
          pc,         (* pc[t]: what thread t does next                     *)
          op,         (* op[t]: the call in progress                        *)
          own,        (* own[t]: the node a push brings or a pop takes away *)
          arg,        (* arg[t]: new_data of the push in progress           *)
          res,        (* res[t]: what thread t popped last                  *)
          calls,      (* calls[t]: the calls thread t has begun             *)
          spurious,   (* the spurious wake-ups so far                       *)
          chain       (* history: the nodes head .. tail in list order      *)

list == <<head, tail, next, data, live, chain>>
mutexes == <<headMutex, tailMutex>>
bounds == <<calls, spurious>>
vars == <<list, mutexes, pc, op, own, arg, res, bounds>>

Init ==
  \E dummy \in Nodes :
    /\ head = dummy
    /\ tail = dummy
    /\ next = [n \in Nodes |-> Null]
    /\ data = [n \in Nodes |-> NoValue]
    /\ live = {dummy}
    /\ chain = <<dummy>>
    /\ headMutex = NoThread
    /\ tailMutex = NoThread
    /\ pc = [t \in Threads |-> "idle"]
    /\ op = [t \in Threads |-> "none"]
    /\ own = [t \in Threads |-> Null]
    /\ arg = [t \in Threads |-> NoValue]
    /\ res = [t \in Threads |-> NoValue]
    /\ calls = [t \in Threads |-> 0]
    /\ spurious = 0

Goto(t, label) == pc' = [pc EXCEPT ![t] = label]

Begin(t, call, label) ==
  /\ pc[t] = "idle"
  /\ calls[t] < MaxCalls
  /\ calls' = [calls EXCEPT ![t] = @ + 1]
  /\ op' = [op EXCEPT ![t] = call]
  /\ Goto(t, label)

-----------------------------------------------------------------------------
(* void push(T& value) and void push(T&& value)                             *)

(* make_shared and new node, before any lock is taken.                      *)
PushCall(t, v, n) ==
  /\ t \in Pushers
  /\ n \notin live
  /\ Begin(t, "push", "pushLock")
  /\ live' = live \cup {n}
  /\ own' = [own EXCEPT ![t] = n]
  /\ arg' = [arg EXCEPT ![t] = v]
  /\ next' = [next EXCEPT ![n] = Null]
  /\ data' = [data EXCEPT ![n] = NoValue]
  /\ UNCHANGED <<head, tail, chain, mutexes, res, spurious>>

(* Mutant: the critical section without its lock_guard.                     *)
PushLockMissing(t) ==
  /\ pc[t] = "pushLock"
  /\ tailMutex' = t
  /\ Goto(t, "pushData")
  /\ UNCHANGED <<list, headMutex, op, own, arg, res, bounds>>

PushLock(t) ==
  /\ pc[t] = "pushLock"
  /\ tailMutex = NoThread
  /\ tailMutex' = t
  /\ Goto(t, "pushData")
  /\ UNCHANGED <<list, headMutex, op, own, arg, res, bounds>>

(* Mutant: the value is put into the new node instead of the dummy.         *)
PushDataIntoNewNode(t) ==
  /\ pc[t] = "pushData"
  /\ data' = [data EXCEPT ![own[t]] = arg[t]]
  /\ Goto(t, "pushNext")
  /\ UNCHANGED <<head, tail, next, live, chain, mutexes, op, own, arg, res, bounds>>

PushData(t) ==
  /\ pc[t] = "pushData"
  /\ data' = [data EXCEPT ![tail] = arg[t]]
  /\ Goto(t, "pushNext")
  /\ UNCHANGED <<head, tail, next, live, chain, mutexes, op, own, arg, res, bounds>>

PushNext(t) ==
  /\ pc[t] = "pushNext"
  /\ next' = [next EXCEPT ![tail] = own[t]]
  /\ Goto(t, "pushTail")
  /\ UNCHANGED <<head, tail, data, live, chain, mutexes, op, own, arg, res, bounds>>

(* tail = new_tail, and the lock_guard goes out of scope.                   *)
PushTail(t) ==
  /\ pc[t] = "pushTail"
  /\ tail' = own[t]
  /\ chain' = Append(chain, own[t])
  /\ own' = [own EXCEPT ![t] = Null]
  /\ arg' = [arg EXCEPT ![t] = NoValue]
  /\ tailMutex' = NoThread
  /\ Goto(t, "pushNotify")
  /\ UNCHANGED <<head, next, data, live, headMutex, op, res, bounds>>

(* notify_one wakes one of the threads asleep, if there is any: it goes on  *)
(* to lock head_mutex again and evaluate the predicate of its wait.         *)
Asleep == {t \in Threads : pc[t] = "asleep"}

PushNotify(t) ==
  /\ pc[t] = "pushNotify"
  /\ \/ /\ Asleep = {}
        /\ Goto(t, "idle")
     \/ \E w \in Asleep : pc' = [pc EXCEPT ![w] = "popLock", ![t] = "idle"]
  /\ op' = [op EXCEPT ![t] = "none"]
  /\ UNCHANGED <<list, mutexes, own, arg, res, bounds>>

-----------------------------------------------------------------------------
(* wait_and_pop and try_pop, each returning a pointer ("Ptr") or assigning  *)
(* to a reference ("Ref")                                                   *)

Waits(t) == op[t] \in {"waitPtr", "waitRef"}
ByRef(t) == op[t] \in {"waitRef", "tryRef"}

PopCall(t, call) ==
  /\ \/ t \in WaitPoppers /\ call \in {"waitPtr", "waitRef"}
     \/ t \in TryPoppers /\ call \in {"tryPtr", "tryRef"}
  /\ Begin(t, call, "popLock")
  /\ UNCHANGED <<list, mutexes, own, arg, res, spurious>>

PopLock(t) ==
  /\ pc[t] = "popLock"
  /\ headMutex = NoThread
  /\ headMutex' = t
  /\ Goto(t, "popTest")
  /\ UNCHANGED <<list, tailMutex, op, own, arg, res, bounds>>

(* head.get() == get_tail(), with head_mutex held.                          *)
Empty == head = tail

(* Mutant: emptiness judged without get_tail, by looking for a next node.   *)
PopTestByNext(t) ==
  /\ pc[t] = "popTest"
  /\ next[head] # Null
  /\ Goto(t, "popHead")
  /\ UNCHANGED <<list, mutexes, op, own, arg, res, bounds>>

(* Mutant: a waiting thread takes being awake for a proof of data.          *)
PopTestTrustsWakeup(t) ==
  /\ pc[t] = "popTest"
  /\ tailMutex = NoThread
  /\ ~Empty \/ Waits(t)
  /\ Goto(t, "popHead")
  /\ UNCHANGED <<list, mutexes, op, own, arg, res, bounds>>

PopTest(t) ==
  /\ pc[t] = "popTest"
  /\ tailMutex = NoThread
  /\ ~Empty
  /\ Goto(t, "popHead")
  /\ UNCHANGED <<list, mutexes, op, own, arg, res, bounds>>

(* Mutant: the early return keeps head_mutex.                               *)
TryPopEmptyKeepsLock(t) ==
  /\ pc[t] = "popTest"
  /\ tailMutex = NoThread
  /\ Empty
  /\ ~Waits(t)
  /\ Goto(t, "idle")
  /\ op' = [op EXCEPT ![t] = "none"]
  /\ UNCHANGED <<list, mutexes, own, arg, res, bounds>>

TryPopEmpty(t) ==
  /\ pc[t] = "popTest"
  /\ tailMutex = NoThread
  /\ Empty
  /\ ~Waits(t)
  /\ headMutex' = NoThread
  /\ Goto(t, "idle")
  /\ op' = [op EXCEPT ![t] = "none"]
  /\ UNCHANGED <<list, tailMutex, own, arg, res, bounds>>

(* The predicate is false: the thread is about to sleep, and a push may     *)
(* come before it does.                                                     *)
WaitEmpty(t) ==
  /\ pc[t] = "popTest"
  /\ tailMutex = NoThread
  /\ Empty
  /\ Waits(t)
  /\ Goto(t, "block")
  /\ UNCHANGED <<list, mutexes, op, own, arg, res, bounds>>

(* cond.wait releases head_mutex and goes to sleep in one step.             *)
Block(t) ==
  /\ pc[t] = "block"
  /\ headMutex' = NoThread
  /\ Goto(t, "asleep")
  /\ UNCHANGED <<list, tailMutex, op, own, arg, res, bounds>>

SpuriousWake(t) ==
  /\ pc[t] = "asleep"
  /\ spurious < MaxSpurious
  /\ spurious' = spurious + 1
  /\ Goto(t, "popLock")
  /\ UNCHANGED <<list, mutexes, op, own, arg, res, calls>>

(* value = std::move( *head->data) when the result is a reference, then     *)
(* pop_head, then head_mutex is released.                                   *)
PopHead(t) ==
  /\ pc[t] = "popHead"
  /\ own' = [own EXCEPT ![t] = head]
  /\ head' = next[head]
  /\ next' = [next EXCEPT ![head] = Null]
  /\ res' = IF ByRef(t) THEN [res EXCEPT ![t] = data[head]] ELSE res
  /\ chain' = Tail(chain)
  /\ headMutex' = NoThread
  /\ Goto(t, "popFinish")
  /\ UNCHANGED <<tail, data, live, tailMutex, op, arg, bounds>>

(* The caller reads the data of the old head, unless it has it already, and *)
(* the unique_ptr frees the node.                                           *)
PopFinish(t) ==
  /\ pc[t] = "popFinish"
  /\ res' = IF ByRef(t) THEN res ELSE [res EXCEPT ![t] = data[own[t]]]
  /\ live' = live \ {own[t]}
  /\ own' = [own EXCEPT ![t] = Null]
  /\ op' = [op EXCEPT ![t] = "none"]
  /\ Goto(t, "idle")
  /\ UNCHANGED <<head, tail, next, data, chain, mutexes, arg, bounds>>

-----------------------------------------------------------------------------
PopOps == {"waitPtr", "waitRef", "tryPtr", "tryRef"}

Call(t) == \/ \E v \in Offers[t], n \in Nodes : PushCall(t, v, n)
           \/ \E call \in PopOps : PopCall(t, call)

Continue(t) ==
  \/ PushLock(t) \/ PushData(t) \/ PushNext(t) \/ PushTail(t) \/ PushNotify(t)
  \/ PopLock(t) \/ PopTest(t) \/ TryPopEmpty(t) \/ WaitEmpty(t) \/ Block(t)
  \/ PopHead(t) \/ PopFinish(t)

Next == \E t \in Threads : Call(t) \/ Continue(t) \/ SpuriousWake(t)

Spec == Init /\ [][Next]_vars

(* Every thread keeps running.  Weak fairness is enough: each thread makes  *)
(* finitely many calls, so a mutex is in the end left to those who wait.    *)
FairSpec == Spec /\ \A t \in Threads : WF_vars(Continue(t))

(* The clients of the test programs make all their calls.                   *)
ClientSpec == FairSpec /\ \A t \in Threads : WF_vars(Call(t))

-----------------------------------------------------------------------------
Pushing == {"pushLock", "pushData", "pushNext", "pushTail"}
HoldsTail == {"pushData", "pushNext", "pushTail"}
HoldsHead == {"popTest", "block", "popHead"}
Labels == {"idle", "pushNotify", "popLock", "asleep", "popFinish"}
            \cup Pushing \cup HoldsHead

TypeOK ==
  /\ head \in Nodes
  /\ tail \in Nodes
  /\ next \in [Nodes -> Nodes \cup {Null}]
  /\ data \in [Nodes -> Values \cup {NoValue}]
  /\ live \subseteq Nodes
  /\ headMutex \in Threads \cup {NoThread}
  /\ tailMutex \in Threads \cup {NoThread}
  /\ pc \in [Threads -> Labels]
  /\ op \in [Threads -> PopOps \cup {"push", "none"}]
  /\ own \in [Threads -> Nodes \cup {Null}]
  /\ arg \in [Threads -> Values \cup {NoValue}]
  /\ res \in [Threads -> Values \cup {NoValue}]
  /\ calls \in [Threads -> 0 .. MaxCalls]
  /\ spurious \in 0 .. MaxSpurious
  /\ chain \in Seq(Nodes)

-----------------------------------------------------------------------------
(* Safety                                                                   *)

InChain == {chain[i] : i \in 1 .. Len(chain)}

(* The pointers link exactly the nodes that were pushed and not popped, in  *)
(* the order of the pushes, with a dummy at the end; every node before the  *)
(* dummy has its data, so no pop dereferences an empty pointer.  The dummy  *)
(* is being filled only while a push holds tail_mutex.                      *)
ListShape ==
  /\ chain # <<>>
  /\ head = chain[1]
  /\ tail = chain[Len(chain)]
  /\ \A i \in 1 .. Len(chain) - 1 :
       next[chain[i]] = chain[i + 1] /\ data[chain[i]] # NoValue
  /\ next[tail] # Null => \E t \in Threads : pc[t] = "pushTail" /\ own[t] = next[tail]
  /\ data[tail] # NoValue => \E t \in Threads : pc[t] \in {"pushNext", "pushTail"}

(* Every allocated node is either in the list, once, or in the hands of one *)
(* thread: none is leaked, none is freed twice and none is used after it    *)
(* was freed.                                                               *)
OneOwner ==
  /\ \A i, j \in 1 .. Len(chain) : chain[i] = chain[j] => i = j
  /\ \A t, u \in Threads : own[t] # Null /\ own[t] = own[u] => t = u
  /\ \A t \in Threads : own[t] \notin InChain
  /\ live = InChain \cup ({own[t] : t \in Threads} \ {Null})

(* Although push and pop hold different mutexes, the node that a pop takes  *)
(* and reads is never the node that a push is writing.                      *)
EndsApart ==
  \A t, u \in Threads :
    /\ pc[t] = "popHead" => head # tail
    /\ pc[t] = "popFinish" /\ pc[u] \in HoldsTail => own[t] # tail

(* The queue is a FIFO queue: a push takes effect when it moves tail, a pop *)
(* when it moves head.  At most as many items as there are nodes besides    *)
(* the dummy can be stored.                                                 *)
Items == [i \in 1 .. Len(chain) - 1 |-> data[chain[i]]]
Taken == [t \in Threads |->
            IF pc[t] = "popFinish" /\ ~ByRef(t) THEN data[own[t]] ELSE res[t]]

Abstract == INSTANCE FifoQueue
              WITH Bound <- Cardinality(Nodes), items <- Items, taken <- Taken

ImplementsFifo == Abstract!FifoSpec

-----------------------------------------------------------------------------
(* The inductive invariant                                                  *)

(* A mutex is held by the thread that is in its critical section.           *)
MutexOwners ==
  \A t \in Threads :
    /\ pc[t] \in HoldsTail <=> tailMutex = t
    /\ pc[t] \in HoldsHead <=> headMutex = t

(* What the locals of a call hold at each step, and how far the push that   *)
(* holds tail_mutex has got with the dummy.                                 *)
CallState ==
  \A t \in Threads :
    /\ own[t] # Null <=> pc[t] \in Pushing \cup {"popFinish"}
    /\ pc[t] \in Pushing =>
         arg[t] \in Values /\ next[own[t]] = Null /\ data[own[t]] = NoValue
    /\ pc[t] \in {"pushData", "pushNext"} => next[tail] = Null
    /\ pc[t] = "pushTail" => next[tail] = own[t]
    /\ pc[t] \in {"pushNext", "pushTail"} => data[tail] = arg[t]
    /\ pc[t] = "popHead" => head # tail
    /\ pc[t] = "popFinish" => data[own[t]] # NoValue

(* The three safety properties follow from this one, and it from itself.    *)
Inv == ListShape /\ OneOwner /\ MutexOwners /\ CallState

-----------------------------------------------------------------------------
(* Liveness                                                                 *)

(* A call ends, or sleeps on cond: the two mutexes, the second of which a   *)
(* pop takes while it holds the first, never block each other.              *)
CallsEnd ==
  \A t \in Threads :
    pc[t] \notin {"idle", "asleep"} ~> pc[t] \in {"idle", "asleep"}

(* test_ThreadSafeQueue: as many pushes as pops are made, and all threads   *)
(* are joined.                                                              *)
AllJoined == <>(\A t \in Threads : pc[t] = "idle" /\ calls[t] = MaxCalls)
=============================================================================
