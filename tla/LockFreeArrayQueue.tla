-------------------------- MODULE LockFreeArrayQueue --------------------------
(***************************************************************************)
(* LockFreeArrayQueue (other/LockFreeArrayQueue.h): a bounded ring for any *)
(* number of threads.  Two counters hand out ever growing indices; a mark  *)
(* per slot, in m_tActiveQueue, says whose turn the slot is: i + 1 when    *)
(* the element of index i is in it, -(i + 1) when that has been taken out, *)
(* and 0 before the first lap.  Unlike the ring of LockFreeQueue, a call   *)
(* claims its index first and then spins until its turn comes.             *)
(*                                                                         *)
(* The mode is given to Init: with E_CAS every atomic access is an action  *)
(* of its own; in every other mode a call is one critical section of       *)
(* MultipleLock, which is not in the repository, and one action here.      *)
(* The marks are plain memory: each access is one machine access, in the   *)
(* order of the program.                                                   *)
(***************************************************************************)
EXTENDS Integers, Sequences

CONSTANTS Threads,    (* the threads that share the queue                    *)
          Values,     (* the elements                                        *)
          Offers,     (* Offers[t]: the elements that thread t pushes        *)
          NoValue,    (* what elements and results hold at first             *)
          Size,       (* m_nMaxQueueSize                                     *)
          MaxWrite    (* bound: no push starts once m_nWriteIndex is there   *)

(* Init returns -2 for a smaller one.                                       *)
ASSUME SizeAssumption == Size \in Nat /\ Size > 1
ASSUME OffersAssumption == Offers \in [Threads -> SUBSET Values]
ASSUME MaxWriteAssumption == MaxWrite \in Nat
ASSUME NoValueAssumption == NoValue \notin Values

VARIABLES mode,       (* m_nMode                                             *)
          writeIndex, (* m_nWriteIndex, the next index to be pushed          *)
          readIndex,  (* m_nReadIndex, the next index to be popped           *)
          active,     (* active[s]: the mark m_tActiveQueue[s]               *)
          element,    (* element[s]: m_tElementQuque[s]                      *)
          pc,         (* pc[t]: the next access of thread t                  *)
          idx,        (* idx[t]: the local nWriteIndex or nReadIndex         *)
          arg,        (* arg[t]: the argument of the push in progress        *)
          res         (* res[t]: the caller's result variable                *)

vars == <<mode, writeIndex, readIndex, active, element, pc, idx, arg, res>>

Slots == 0 .. Size - 1

(* The operator & of C++ on a mask and a number, from the lowest bit up.    *)
And[m \in Nat] ==
  [i \in Nat |-> IF m = 0 THEN 0 ELSE 2 * And[m \div 2][i \div 2] + (m % 2) * (i % 2)]

TransIndex(i) == And[Size - 1][i]

(* What the comment at the default size, 2^16, takes for granted.           *)
SizeIsPowerOfTwo == And[Size - 1][Size] = 0

(* Mutant: one slot is kept free.                                           *)
IsFullOneEarly(write, read) == write - read >= Size - 1

IsFull(write, read) == write - read >= Size
IsEmpty(write, read) == write <= read

Init == /\ mode \in {"E_CAS", "lock"}
        /\ writeIndex = 0
        /\ readIndex = 0
        /\ active = [s \in Slots |-> 0]
        /\ element = [s \in Slots |-> NoValue]
        /\ pc = [t \in Threads |-> "idle"]
        /\ idx = [t \in Threads |-> 0]
        /\ arg = [t \in Threads |-> NoValue]
        /\ res = [t \in Threads |-> NoValue]

Goto(t, label) == pc' = [pc EXCEPT ![t] = label]

Return(t) == /\ Goto(t, "idle")
             /\ idx' = [idx EXCEPT ![t] = 0]
             /\ arg' = [arg EXCEPT ![t] = NoValue]

-----------------------------------------------------------------------------
(* bool Push_CAS(E&&)                                                       *)

PushCall(t, v) ==
  /\ mode = "E_CAS"
  /\ pc[t] = "idle"
  /\ writeIndex < MaxWrite
  /\ idx' = [idx EXCEPT ![t] = writeIndex]
  /\ Goto(t, "pushLoadRead")
  /\ arg' = [arg EXCEPT ![t] = v]
  /\ UNCHANGED <<mode, writeIndex, readIndex, active, element, res>>

(* The loop after a compare-and-swap that has failed.                       *)
PushRetry(t) ==
  /\ pc[t] = "pushRetry"
  /\ idx' = [idx EXCEPT ![t] = writeIndex]
  /\ Goto(t, "pushLoadRead")
  /\ UNCHANGED <<mode, writeIndex, readIndex, active, element, arg, res>>

PushLoadRead(t) ==
  /\ pc[t] = "pushLoadRead"
  /\ \/ /\ IsFull(idx[t], readIndex)
        /\ Return(t)
     \/ /\ ~IsFull(idx[t], readIndex)
        /\ Goto(t, "pushCas")
        /\ UNCHANGED <<idx, arg>>
  /\ UNCHANGED <<mode, writeIndex, readIndex, active, element, res>>

PushCas(t) ==
  /\ pc[t] = "pushCas"
  /\ \/ /\ writeIndex = idx[t]
        /\ writeIndex' = writeIndex + 1
        /\ Goto(t, "pushWait")
     \/ /\ writeIndex # idx[t]
        /\ Goto(t, "pushRetry")
        /\ UNCHANGED writeIndex
  /\ UNCHANGED <<mode, readIndex, active, element, idx, arg, res>>

(* Mutant: the first index of the second lap is taken for one of the first. *)
TurnOfPushLate(i) == IF i > Size THEN -(i - Size + 1) ELSE 0

(* nCompareActive: the mark that says that index i may be pushed.           *)
TurnOfPush(i) == IF i >= Size THEN -(i - Size + 1) ELSE 0

(* Mutant: a push does not wait for its turn.                               *)
PushWaitNot(t) ==
  /\ pc[t] = "pushWait"
  /\ Goto(t, "pushStore")
  /\ UNCHANGED <<mode, writeIndex, readIndex, active, element, idx, arg, res>>

(* The end of the loop; before it, the thread only yields.                  *)
PushWait(t) ==
  /\ pc[t] = "pushWait"
  /\ active[TransIndex(idx[t])] = TurnOfPush(idx[t])
  /\ Goto(t, "pushStore")
  /\ UNCHANGED <<mode, writeIndex, readIndex, active, element, idx, arg, res>>

PushStore(t) ==
  /\ pc[t] = "pushStore"
  /\ element' = [element EXCEPT ![TransIndex(idx[t])] = arg[t]]
  /\ Goto(t, "pushMark")
  /\ UNCHANGED <<mode, writeIndex, readIndex, active, idx, arg, res>>

PushMark(t) ==
  /\ pc[t] = "pushMark"
  /\ active' = [active EXCEPT ![TransIndex(idx[t])] = idx[t] + 1]
  /\ Return(t)
  /\ UNCHANGED <<mode, writeIndex, readIndex, element, res>>

-----------------------------------------------------------------------------
(* bool Pop_CAS(E&)                                                         *)

PopCall(t) ==
  /\ mode = "E_CAS"
  /\ pc[t] = "idle"
  /\ idx' = [idx EXCEPT ![t] = writeIndex]
  /\ Goto(t, "popLoadRead")
  /\ UNCHANGED <<mode, writeIndex, readIndex, active, element, arg, res>>

PopRetry(t) ==
  /\ pc[t] = "popRetry"
  /\ idx' = [idx EXCEPT ![t] = writeIndex]
  /\ Goto(t, "popLoadRead")
  /\ UNCHANGED <<mode, writeIndex, readIndex, active, element, arg, res>>

PopLoadRead(t) ==
  /\ pc[t] = "popLoadRead"
  /\ \/ /\ IsEmpty(idx[t], readIndex)
        /\ Return(t)
     \/ /\ ~IsEmpty(idx[t], readIndex)
        /\ idx' = [idx EXCEPT ![t] = readIndex]
        /\ Goto(t, "popCas")
        /\ UNCHANGED arg
  /\ UNCHANGED <<mode, writeIndex, readIndex, active, element, res>>

PopCas(t) ==
  /\ pc[t] = "popCas"
  /\ \/ /\ readIndex = idx[t]
        /\ readIndex' = readIndex + 1
        /\ Goto(t, "popWait")
     \/ /\ readIndex # idx[t]
        /\ Goto(t, "popRetry")
        /\ UNCHANGED readIndex
  /\ UNCHANGED <<mode, writeIndex, active, element, idx, arg, res>>

(* Mutant: a pop does not wait for the push of its index.                   *)
PopWaitNot(t) ==
  /\ pc[t] = "popWait"
  /\ Goto(t, "popMove")
  /\ UNCHANGED <<mode, writeIndex, readIndex, active, element, idx, arg, res>>

PopWait(t) ==
  /\ pc[t] = "popWait"
  /\ active[TransIndex(idx[t])] = idx[t] + 1
  /\ Goto(t, "popMove")
  /\ UNCHANGED <<mode, writeIndex, readIndex, active, element, idx, arg, res>>

PopMove(t) ==
  /\ pc[t] = "popMove"
  /\ res' = [res EXCEPT ![t] = element[TransIndex(idx[t])]]
  /\ Goto(t, "popMark")
  /\ UNCHANGED <<mode, writeIndex, readIndex, active, element, idx, arg>>

(* Mutant: the sign of the mark is forgotten.                               *)
PopMarkPositive(t) ==
  /\ pc[t] = "popMark"
  /\ active' = [active EXCEPT ![TransIndex(idx[t])] = idx[t] + 1]
  /\ Return(t)
  /\ UNCHANGED <<mode, writeIndex, readIndex, element, res>>

PopMark(t) ==
  /\ pc[t] = "popMark"
  /\ active' = [active EXCEPT ![TransIndex(idx[t])] = -(idx[t] + 1)]
  /\ Return(t)
  /\ UNCHANGED <<mode, writeIndex, readIndex, element, res>>

-----------------------------------------------------------------------------
(* bool Push_Lock(E&&) and bool Pop_Lock(E&): the mutex is held throughout. *)
(* A call that finds the queue full or empty changes nothing.               *)

PushLock(t, v) ==
  /\ mode = "lock"
  /\ writeIndex < MaxWrite
  /\ ~IsFull(writeIndex, readIndex)
  /\ element' = [element EXCEPT ![TransIndex(writeIndex)] = v]
  /\ writeIndex' = writeIndex + 1
  /\ UNCHANGED <<mode, readIndex, active, pc, idx, arg, res>>

PopLock(t) ==
  /\ mode = "lock"
  /\ ~IsEmpty(writeIndex, readIndex)
  /\ res' = [res EXCEPT ![t] = element[TransIndex(readIndex)]]
  /\ readIndex' = readIndex + 1
  /\ UNCHANGED <<mode, writeIndex, active, element, pc, idx, arg>>

-----------------------------------------------------------------------------
Push(t) == \E v \in Offers[t] : PushCall(t, v) \/ PushLock(t, v)
Pop(t) == PopCall(t) \/ PopLock(t)

Continue(t) ==
  \/ PushRetry(t) \/ PushLoadRead(t) \/ PushCas(t)
  \/ PushWait(t) \/ PushStore(t) \/ PushMark(t)
  \/ PopRetry(t) \/ PopLoadRead(t) \/ PopCas(t)
  \/ PopWait(t) \/ PopMove(t) \/ PopMark(t)

Next == \E t \in Threads : Push(t) \/ Pop(t) \/ Continue(t)

Spec == Init /\ [][Next]_vars

(* Every thread that is in a call keeps running: calls spin for each other. *)
FairSpec == Spec /\ \A t \in Threads : WF_vars(Continue(t))

-----------------------------------------------------------------------------
Pushing == {"pushWait", "pushStore", "pushMark"}
Popping == {"popWait", "popMove", "popMark"}
Labels == {"idle", "pushRetry", "pushLoadRead", "pushCas",
           "popRetry", "popLoadRead", "popCas"} \cup Pushing \cup Popping

TypeOK ==
  /\ mode \in {"E_CAS", "lock"}
  /\ writeIndex \in Nat
  /\ readIndex \in 0 .. writeIndex
  /\ active \in [Slots -> -writeIndex .. writeIndex]
  /\ element \in [Slots -> Values \cup {NoValue}]
  /\ pc \in [Threads -> Labels]
  /\ idx \in [Threads -> 0 .. writeIndex]
  /\ arg \in [Threads -> Values \cup {NoValue}]
  /\ res \in [Threads -> Values \cup {NoValue}]

(* Why it works.  The mark of a slot only grows in the order 0, i + 1,      *)
(* -(i + 1), i + Size + 1, ...: an index is past its push, or its pop, when *)
(* the mark is; until then some call in progress holds it.                  *)
Mark(i) == active[TransIndex(i)]
Pushed(i) == i + 1 <= Mark(i) \/ i + 1 <= -Mark(i)
Popped(i) == i + 1 < Mark(i) \/ i + 1 <= -Mark(i)
Holds(t, i, labels) == pc[t] \in labels /\ idx[t] = i

Claims ==
  \A t \in Threads :
    /\ pc[t] \in Pushing => idx[t] < writeIndex
    /\ pc[t] \in Popping => idx[t] < readIndex
    /\ pc[t] = "pushCas" => idx[t] < readIndex + Size
    /\ pc[t] = "popCas" => idx[t] < writeIndex
    /\ pc[t] \in {"pushRetry", "pushLoadRead", "pushCas"} \cup Pushing => arg[t] \in Values

Turns ==
  \A t \in Threads :
    /\ pc[t] \in {"pushStore", "pushMark"} => Mark(idx[t]) = TurnOfPush(idx[t])
    /\ pc[t] \in {"popMove", "popMark"} => Mark(idx[t]) = idx[t] + 1
    /\ \A u \in Threads \ {t} :
         /\ {pc[t], pc[u]} \subseteq Pushing => idx[t] # idx[u]
         /\ {pc[t], pc[u]} \subseteq Popping => idx[t] # idx[u]

Marks ==
  /\ \A s \in Slots : active[s] # 0 =>
       \E i \in 0 .. writeIndex - 1 : TransIndex(i) = s /\ active[s] \in {i + 1, -(i + 1)}
  /\ \A i \in 0 .. writeIndex - 1 : Pushed(i) <=> \A t \in Threads : ~Holds(t, i, Pushing)
  /\ \A i \in 0 .. readIndex - 1 : Popped(i) <=> \A t \in Threads : ~Holds(t, i, Popping)
  /\ \A i \in readIndex .. writeIndex - 1 : ~Popped(i)

Bounded == /\ TypeOK
           /\ writeIndex <= readIndex + Size
           /\ Claims
           /\ mode = "lock" => \A t \in Threads : pc[t] = "idle"

Inv == /\ Bounded
       /\ Turns
       /\ mode = "E_CAS" => Marks

-----------------------------------------------------------------------------
(* Safety                                                                   *)

(* Between the loop that waits for the turn and the mark that ends it, a    *)
(* slot is in the hands of one thread, although the threads may hold        *)
(* indices of several laps.                                                 *)
SlotExclusive ==
  \A t, u \in Threads :
    (t # u /\ {pc[t], pc[u]} \subseteq (Pushing \cup Popping) \ {"pushWait", "popWait"})
      => TransIndex(idx[t]) # TransIndex(idx[u])

(* A call that spins does so for a call in progress: a push for the pop of  *)
(* the same slot one lap before, a pop for the push of its index.           *)
SpinsForAPeer ==
  \A t \in Threads :
    /\ pc[t] = "pushWait" /\ active[TransIndex(idx[t])] # TurnOfPush(idx[t])
         => \E u \in Threads : pc[u] \in Popping /\ idx[u] = idx[t] - Size
    /\ pc[t] = "popWait" /\ active[TransIndex(idx[t])] # idx[t] + 1
         => \E u \in Threads : pc[u] \in Pushing /\ idx[u] = idx[t]

(* The two counters are loaded one after the other.  Still, a push that     *)
(* fails does so while the queue is full; a pop that fails, while it is     *)
(* empty or after a push that began during the call: then it may fail in a  *)
(* queue that never was empty.                                              *)
FailsForAReason ==
  [][\A t \in Threads :
       /\ pc[t] = "pushLoadRead" /\ pc'[t] = "idle" => writeIndex - readIndex = Size
       /\ pc[t] = "popLoadRead" /\ pc'[t] = "idle"
            => writeIndex = readIndex \/ writeIndex > idx[t]]_vars

(* A bounded FIFO queue: a push takes effect when it advances the write     *)
(* index, a pop when it advances the read index.                            *)
Item(i) ==
  LET Storing == {t \in Threads : pc[t] \in {"pushWait", "pushStore"} /\ idx[t] = i}
  IN  IF Storing # {} THEN arg[CHOOSE t \in Storing : TRUE] ELSE element[TransIndex(i)]

Items == [k \in 1 .. writeIndex - readIndex |-> Item(readIndex + k - 1)]
Taken == [t \in Threads |-> IF pc[t] \in {"popWait", "popMove"} THEN Item(idx[t]) ELSE res[t]]

Abstract == INSTANCE FifoQueue WITH Bound <- Size, items <- Items, taken <- Taken

ImplementsFifo == Abstract!FifoSpec

-----------------------------------------------------------------------------
(* Liveness                                                                 *)

(* No call spins for ever, when the threads keep running and the counters   *)
(* stop moving.                                                             *)
CallsEnd == \A t \in Threads : pc[t] # "idle" ~> pc[t] = "idle"
=============================================================================
