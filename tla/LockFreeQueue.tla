---------------------------- MODULE LockFreeQueue ----------------------------
(***************************************************************************)
(* LockFreeQueueCpp11 (DataStructures/LockFreeQueue.h): a bounded queue    *)
(* for any number of pushing and popping threads.  Two counters, _tail and *)
(* _head, hand out ever growing indices by compare-and-swap; index i lives *)
(* in node i % Capacity.  A node carries two stamps: nodeTail is the index *)
(* a push may claim it for, nodeHead the index whose item is in it.        *)
(*                                                                         *)
(* One action per atomic access of the code, so that any interleaving of   *)
(* the threads is a behaviour.  Capacity is what the constructor computes  *)
(* (a power of two), hence index & _capacityMask is index % Capacity.      *)
(***************************************************************************)
EXTENDS Integers, Sequences

CONSTANTS Threads,   (* the threads that share the queue                     *)
          Values,    (* the data pushed                                      *)
          Offers,    (* Offers[t]: the data that thread t pushes             *)
          NoValue,   (* storage that holds no constructed object             *)
          Capacity,  (* _capacity                                            *)
          MaxTail,   (* bound: no push starts once _tail has reached MaxTail *)
          Live       (* the threads that the scheduler keeps running         *)

ASSUME CapacityAssumption == Capacity \in Nat \ {0}
ASSUME MaxTailAssumption == MaxTail \in Nat
ASSUME NoValueAssumption == NoValue \notin Values
ASSUME OffersAssumption == Offers \in [Threads -> SUBSET Values]
ASSUME LiveAssumption == Live \subseteq Threads

VARIABLES tail,      (* _tail, the next index to be pushed                   *)
          head,      (* _head, the next index to be popped                   *)
          nodeTail,  (* nodeTail[s]: the stamp _queue[s].tail                *)
          nodeHead,  (* nodeHead[s]: the stamp _queue[s].head                *)
          data,      (* data[s]: the object in _queue[s].data, or NoValue    *)
          pc,        (* pc[t]: the next atomic access of thread t            *)
          idx,       (* idx[t]: the local variable tail or head of the call  *)
          arg,       (* arg[t]: the argument of the push in progress         *)
          res        (* res[t]: the caller's result variable                 *)

vars == <<tail, head, nodeTail, nodeHead, data, pc, idx, arg, res>>

Slots == 0 .. Capacity - 1
Slot(i) == i % Capacity

Init == /\ tail = 0
        /\ head = 0
        /\ nodeTail = [s \in Slots |-> s]
        /\ nodeHead = [s \in Slots |-> -1]
        /\ data = [s \in Slots |-> NoValue]
        /\ pc = [t \in Threads |-> "idle"]
        /\ idx = [t \in Threads |-> 0]
        /\ arg = [t \in Threads |-> NoValue]
        /\ res = [t \in Threads |-> NoValue]

Goto(t, label) == pc' = [pc EXCEPT ![t] = label]

(* The call returns and its locals go out of scope.                         *)
Return(t) == /\ Goto(t, "idle")
             /\ idx' = [idx EXCEPT ![t] = 0]
             /\ arg' = [arg EXCEPT ![t] = NoValue]

-----------------------------------------------------------------------------
(* bool push(const T& data)                                                 *)

PushCall(t, v) ==
  /\ pc[t] = "idle"
  /\ tail < MaxTail
  /\ Goto(t, "pushCheck")
  /\ idx' = [idx EXCEPT ![t] = tail]
  /\ arg' = [arg EXCEPT ![t] = v]
  /\ UNCHANGED <<tail, head, nodeTail, nodeHead, data, res>>

(* Mutant: fullness judged by the two counters, although the object of an   *)
(* index that _head has passed may still be in its node.                    *)
PushAdmittedByCounters(t) == idx[t] - head < Capacity

PushAdmitted(t) == nodeTail[Slot(idx[t])] = idx[t]

(* Mutant: a push that meets a full node waits for it instead of failing.   *)
PushCheckSpins(t) ==
  /\ pc[t] = "pushCheck"
  /\ PushAdmitted(t)
  /\ Goto(t, "pushCas")
  /\ UNCHANGED <<tail, head, nodeTail, nodeHead, data, idx, arg, res>>

PushCheck(t) ==
  /\ pc[t] = "pushCheck"
  /\ \/ /\ PushAdmitted(t)
        /\ Goto(t, "pushCas")
        /\ UNCHANGED <<idx, arg>>
     \/ /\ ~PushAdmitted(t)
        /\ Return(t)
  /\ UNCHANGED <<tail, head, nodeTail, nodeHead, data, res>>

PushCas(t) ==
  /\ pc[t] = "pushCas"
  /\ tail = idx[t]
  /\ tail' = tail + 1
  /\ Goto(t, "pushConstruct")
  /\ UNCHANGED <<head, nodeTail, nodeHead, data, idx, arg, res>>

(* compare_exchange_weak fails when _tail has moved on, and may fail for no *)
(* reason; either way it reloads the expected value.                        *)
PushCasFails(t) ==
  /\ pc[t] = "pushCas"
  /\ idx' = [idx EXCEPT ![t] = tail]
  /\ Goto(t, "pushCheck")
  /\ UNCHANGED <<tail, head, nodeTail, nodeHead, data, arg, res>>

PushConstruct(t) ==
  /\ pc[t] = "pushConstruct"
  /\ data' = [data EXCEPT ![Slot(idx[t])] = arg[t]]
  /\ Goto(t, "pushPublish")
  /\ UNCHANGED <<tail, head, nodeTail, nodeHead, idx, arg, res>>

PushPublish(t) ==
  /\ pc[t] = "pushPublish"
  /\ nodeHead' = [nodeHead EXCEPT ![Slot(idx[t])] = idx[t]]
  /\ Return(t)
  /\ UNCHANGED <<tail, head, nodeTail, data, res>>

-----------------------------------------------------------------------------
(* bool pop(T& result)                                                      *)

PopCall(t) ==
  /\ pc[t] = "idle"
  /\ Goto(t, "popCheck")
  /\ idx' = [idx EXCEPT ![t] = head]
  /\ UNCHANGED <<tail, head, nodeTail, nodeHead, data, arg, res>>

(* Mutants: emptiness judged by the counters, without and with an error.    *)
PopAdmittedByCounters(t) == idx[t] < tail
PopAdmittedOffByOne(t) == idx[t] <= tail

(* Mutant: any published stamp will do, whatever index it stands for.       *)
PopAdmittedByAnyStamp(t) == nodeHead[Slot(idx[t])] # -1

PopAdmitted(t) == nodeHead[Slot(idx[t])] = idx[t]

PopCheck(t) ==
  /\ pc[t] = "popCheck"
  /\ \/ /\ PopAdmitted(t)
        /\ Goto(t, "popCas")
        /\ UNCHANGED <<idx, arg>>
     \/ /\ ~PopAdmitted(t)
        /\ Return(t)
  /\ UNCHANGED <<tail, head, nodeTail, nodeHead, data, res>>

PopCas(t) ==
  /\ pc[t] = "popCas"
  /\ head = idx[t]
  /\ head' = head + 1
  /\ Goto(t, "popCopy")
  /\ UNCHANGED <<tail, nodeTail, nodeHead, data, idx, arg, res>>

PopCasFails(t) ==
  /\ pc[t] = "popCas"
  /\ idx' = [idx EXCEPT ![t] = head]
  /\ Goto(t, "popCheck")
  /\ UNCHANGED <<tail, head, nodeTail, nodeHead, data, arg, res>>

PopCopy(t) ==
  /\ pc[t] = "popCopy"
  /\ res' = [res EXCEPT ![t] = data[Slot(idx[t])]]
  /\ Goto(t, "popDestroy")
  /\ UNCHANGED <<tail, head, nodeTail, nodeHead, data, idx, arg>>

(* Mutant: the popped object is copied but never destroyed.                 *)
PopDestroyLeaks(t) ==
  /\ pc[t] = "popDestroy"
  /\ Goto(t, "popRelease")
  /\ UNCHANGED <<tail, head, nodeTail, nodeHead, data, idx, arg, res>>

PopDestroy(t) ==
  /\ pc[t] = "popDestroy"
  /\ data' = [data EXCEPT ![Slot(idx[t])] = NoValue]
  /\ Goto(t, "popRelease")
  /\ UNCHANGED <<tail, head, nodeTail, nodeHead, idx, arg, res>>

(* Mutant: the node is released under the stamp of the next index.          *)
PopReleaseNextIndex(t) ==
  /\ pc[t] = "popRelease"
  /\ nodeTail' = [nodeTail EXCEPT ![Slot(idx[t])] = idx[t] + 1]
  /\ Return(t)
  /\ UNCHANGED <<tail, head, nodeHead, data, res>>

PopRelease(t) ==
  /\ pc[t] = "popRelease"
  /\ nodeTail' = [nodeTail EXCEPT ![Slot(idx[t])] = idx[t] + Capacity]
  /\ Return(t)
  /\ UNCHANGED <<tail, head, nodeHead, data, res>>

-----------------------------------------------------------------------------
(* size_t size() const: two loads, _head first                              *)

SizeCall(t) ==
  /\ pc[t] = "idle"
  /\ Goto(t, "sizeReturn")
  /\ idx' = [idx EXCEPT ![t] = head]
  /\ UNCHANGED <<tail, head, nodeTail, nodeHead, data, arg, res>>

SizeResult(t) == tail - idx[t]

SizeReturn(t) ==
  /\ pc[t] = "sizeReturn"
  /\ Return(t)
  /\ UNCHANGED <<tail, head, nodeTail, nodeHead, data, res>>

-----------------------------------------------------------------------------
Call(t) == PopCall(t) \/ SizeCall(t) \/ \E v \in Offers[t] : PushCall(t, v)

Continue(t) ==
  \/ PushCheck(t) \/ PushCas(t) \/ PushCasFails(t)
  \/ PushConstruct(t) \/ PushPublish(t)
  \/ PopCheck(t) \/ PopCas(t) \/ PopCasFails(t)
  \/ PopCopy(t) \/ PopDestroy(t) \/ PopRelease(t)
  \/ SizeReturn(t)

Next == \E t \in Threads : Call(t) \/ Continue(t)

Spec == Init /\ [][Next]_vars

(* Only the threads of Live are scheduled again and again; the others may   *)
(* stop anywhere, also between a claim and its publication.  A weak         *)
(* compare-and-swap retried on an unchanged counter succeeds in the end.    *)
Fairness == \A t \in Live : /\ WF_vars(Continue(t))
                            /\ SF_vars(PushCas(t))
                            /\ SF_vars(PopCas(t))

FairSpec == Spec /\ Fairness

-----------------------------------------------------------------------------
Writing == {"pushConstruct", "pushPublish"}
Reading == {"popCopy", "popDestroy", "popRelease"}
Labels == {"idle", "pushCheck", "pushCas", "popCheck", "popCas", "sizeReturn"}
            \cup Writing \cup Reading

TypeOK ==
  /\ tail \in Nat
  /\ head \in Nat
  /\ nodeTail \in [Slots -> Nat]
  /\ nodeHead \in [Slots -> Nat \cup {-1}]
  /\ data \in [Slots -> Values \cup {NoValue}]
  /\ pc \in [Threads -> Labels]
  /\ idx \in [Threads -> Nat]
  /\ arg \in [Threads -> Values \cup {NoValue}]
  /\ res \in [Threads -> Values \cup {NoValue}]

-----------------------------------------------------------------------------
(* Safety                                                                   *)

(* A node belongs to at most one thread between the compare-and-swap that   *)
(* claims an index and the store that hands the node on: no object is       *)
(* constructed, copied or destroyed by two threads at once, although the    *)
(* threads of one node may hold indices a whole lap apart.                  *)
SlotExclusive ==
  \A t, u \in Threads :
    (t # u /\ {pc[t], pc[u]} \subseteq Writing \cup Reading)
      => Slot(idx[t]) # Slot(idx[u])

(* push constructs only in raw storage and pop copies from and destroys     *)
(* only a constructed object.                                               *)
ObjectLifetime ==
  \A t \in Threads :
    /\ pc[t] = "pushConstruct" => data[Slot(idx[t])] = NoValue
    /\ pc[t] \in {"pushPublish", "popCopy", "popDestroy"}
         => data[Slot(idx[t])] # NoValue

(* When no call is in progress, the objects in the nodes are exactly those  *)
(* of the indices _head .. _tail-1, which are the ones the destructor       *)
(* destroys: nothing leaks and nothing is destroyed twice.                  *)
DestructorExact ==
  (\A t \in Threads : pc[t] = "idle")
    => \A s \in Slots : data[s] # NoValue <=> s \in {Slot(i) : i \in head .. tail - 1}

(* size() loads _head before _tail, so its unsigned subtraction never wraps *)
(* whatever happens between the two loads.                                  *)
SizeNeverWraps ==
  \A t \in Threads : pc[t] = "sizeReturn" => SizeResult(t) >= 0

(* A push that fails on the index next in turn fails because the queue is   *)
(* full or because the pop of the index one lap before is still in the      *)
(* node; a pop that fails on the index next in turn, because the queue is   *)
(* empty or its push is not yet published.  (A call whose index has been    *)
(* overtaken may also fail in a queue that is neither.)                     *)
FailsForAReason ==
  [][\A t \in Threads :
       /\ (pc[t] = "pushCheck" /\ pc'[t] = "idle" /\ idx[t] = tail)
            => \/ tail - head = Capacity
               \/ \E u \in Threads : pc[u] \in Reading /\ idx[u] = tail - Capacity
       /\ (pc[t] = "popCheck" /\ pc'[t] = "idle" /\ idx[t] = head)
            => \/ tail = head
               \/ \E u \in Threads : pc[u] \in Writing /\ idx[u] = head]_vars

(* The queue is a bounded FIFO queue: a push takes effect when it advances  *)
(* _tail, a pop when it advances _head.  The item of index i is the         *)
(* argument of its push until that has constructed it in the node.          *)
Item(i) ==
  IF \E t \in Threads : pc[t] = "pushConstruct" /\ idx[t] = i
  THEN arg[CHOOSE t \in Threads : pc[t] = "pushConstruct" /\ idx[t] = i]
  ELSE data[Slot(i)]

Items == [i \in 1 .. tail - head |-> Item(head + i - 1)]
Taken == [t \in Threads |-> IF pc[t] = "popCopy" THEN data[Slot(idx[t])] ELSE res[t]]

Abstract == INSTANCE FifoQueue WITH Bound <- Capacity, items <- Items, taken <- Taken

ImplementsFifo == Abstract!FifoSpec

-----------------------------------------------------------------------------
(* The inductive invariant                                                  *)

(* The indices in use span at most one lap.                                 *)
Counters == head <= tail /\ tail <= head + Capacity

(* A node's stamps are of its own lap or the lap before; a node that waits  *)
(* for its push is raw, one whose pop has not begun holds an object.        *)
Stamps ==
  \A s \in Slots :
    /\ Slot(nodeTail[s]) = s
    /\ tail <= nodeTail[s] + Capacity
    /\ nodeTail[s] < head + Capacity
    /\ nodeHead[s] \in {nodeTail[s], nodeTail[s] - Capacity, -1}
    /\ nodeTail[s] >= tail => nodeHead[s] # nodeTail[s] /\ data[s] = NoValue
    /\ nodeTail[s] >= head /\ nodeHead[s] = nodeTail[s] => data[s] # NoValue

(* The stamp a thread has checked is still there when its compare-and-swap  *)
(* finds the counter unchanged.                                             *)
Checked ==
  \A t \in Threads :
    /\ pc[t] \in {"pushCheck", "pushCas"} => idx[t] <= tail
    /\ pc[t] \in {"popCheck", "popCas", "sizeReturn"} => idx[t] <= head
    /\ pc[t] = "pushCas" /\ idx[t] = tail => nodeTail[Slot(idx[t])] = idx[t]
    /\ pc[t] = "popCas" /\ idx[t] = head => nodeHead[Slot(idx[t])] = idx[t]
    /\ pc[t] \in {"pushCheck", "pushCas", "pushConstruct"} => arg[t] \in Values

Writers ==
  \A t \in Threads : pc[t] \in Writing =>
    /\ head <= idx[t]
    /\ idx[t] < tail
    /\ nodeTail[Slot(idx[t])] = idx[t]
    /\ nodeHead[Slot(idx[t])] # idx[t]
    /\ data[Slot(idx[t])] = NoValue <=> pc[t] = "pushConstruct"

Readers ==
  \A t \in Threads : pc[t] \in Reading =>
    /\ idx[t] < head
    /\ nodeTail[Slot(idx[t])] = idx[t]
    /\ nodeHead[Slot(idx[t])] = idx[t]
    /\ data[Slot(idx[t])] = NoValue <=> pc[t] = "popRelease"

(* An index is claimed by one push and by one pop.                          *)
OneClaim ==
  \A t, u \in Threads :
    /\ t # u
    /\ {pc[t], pc[u]} \subseteq Writing \/ {pc[t], pc[u]} \subseteq Reading
    => idx[t] # idx[u]

(* A claimed node that is not yet handed on has a thread that will do so.   *)
Owned ==
  \A s \in Slots :
    /\ nodeTail[s] < tail /\ nodeHead[s] # nodeTail[s]
         => \E t \in Threads : pc[t] \in Writing /\ idx[t] = nodeTail[s]
    /\ nodeTail[s] < head
         => \E t \in Threads : pc[t] \in Reading /\ idx[t] = nodeTail[s]

(* The stamps and the program counters agree at every step; the safety      *)
(* properties above follow from this one.                                   *)
Inv == Counters /\ Stamps /\ Checked /\ Writers /\ Readers /\ OneClaim /\ Owned

-----------------------------------------------------------------------------
(* Liveness                                                                 *)

(* A thread that keeps running finishes its call once the others stop       *)
(* advancing the counters, even when they have stopped in the middle of     *)
(* their calls: nobody ever waits for another thread.                       *)
NonBlocking == \A t \in Live : pc[t] # "idle" ~> pc[t] = "idle"
=============================================================================
