------------------------ MODULE ThreadSafeQueueProofs ------------------------
(***************************************************************************)
(* Safety of ThreadSafeQueue for any number of threads, nodes and calls:   *)
(* the list is well formed, every node has one owner, and the queue        *)
(* implements the abstract FIFO queue.                                     *)
(***************************************************************************)
EXTENDS ThreadSafeQueue, DataLemmas, SequenceTheorems, FiniteSetTheorems, TLAPS

-----------------------------------------------------------------------------
(* The list has a first and a last node.                                    *)
LEMMA ChainEnds ==
  ASSUME TypeOK, ListShape
  PROVE  /\ Len(chain) \in Nat \ {0}
         /\ \A i \in 1 .. Len(chain) : chain[i] \in Nodes
         /\ head \in InChain /\ tail \in InChain
<1>1. Len(chain) \in Nat \ {0} /\ \A i \in 1 .. Len(chain) : chain[i] \in Nodes
  BY DEF TypeOK, ListShape
<1> QED
  BY <1>1 DEF ListShape, InChain

(* A list that is not empty has a second node.                              *)
LEMMA ChainSecond ==
  ASSUME TypeOK, ListShape, head # tail
  PROVE  /\ Len(chain) >= 2
         /\ next[head] = chain[2] /\ chain[2] \in Nodes /\ data[head] # NoValue
<1>1. Len(chain) >= 2
  BY ChainEnds DEF ListShape
<1>2. 1 \in 1 .. Len(chain) - 1 /\ 2 \in 1 .. Len(chain)
  BY <1>1, ChainEnds
<1> QED
  BY <1>1, <1>2, ChainEnds DEF ListShape

(* A queue of one dummy satisfies the invariant.                            *)
LEMMA InvInit == Init => TypeOK /\ Inv
<1> SUFFICES ASSUME NEW dummy \in Nodes, Init, chain = <<dummy>>, head = dummy, tail = dummy,
                    live = {dummy}
             PROVE  TypeOK /\ Inv
  BY DEF Init
<1>1. Len(chain) = 1 /\ chain[1] = dummy
  OBVIOUS
<1>2. InChain = {dummy}
  BY <1>1 DEF InChain
<1>3. TypeOK
  BY BoundsAssumption DEF Init, TypeOK, Labels
<1>4. ListShape
  BY <1>1 DEF Init, ListShape
<1>5. OneOwner
  BY <1>1, <1>2, NullAssumption DEF Init, OneOwner
<1>6. MutexOwners
  BY NoThreadAssumption DEF Init, MutexOwners, HoldsTail, HoldsHead
<1>7. CallState
  BY DEF Init, CallState, Pushing
<1> QED
  BY <1>3, <1>4, <1>5, <1>6, <1>7 DEF Inv

-----------------------------------------------------------------------------
(* The steps that leave the list and the calls that own nodes alone.        *)
LEMMA QuietStepKeeps ==
  ASSUME TypeOK, Inv, UNCHANGED <<list, own, arg>>, MutexOwners',
         \A u \in Threads :
           /\ pc[u] \in Pushing \cup {"popFinish"} => pc'[u] = pc[u]
           /\ pc'[u] \in Pushing \cup {"popFinish"} => pc'[u] = pc[u]
           /\ pc'[u] = "popHead" => head # tail
  PROVE  Inv'
<1> USE DEF Inv, list
<1>1. ListShape'
  <2>1. \A u \in Threads :
          pc[u] \in {"pushNext", "pushTail"} => pc'[u] = pc[u]
    BY DEF Pushing
  <2> QED
    BY <2>1 DEF ListShape
<1>2. OneOwner'
  BY DEF OneOwner, InChain
<1>3. CallState'
  BY DEF CallState, Pushing
<1> QED
  BY <1>1, <1>2, <1>3

(* The steps of a waiting, sleeping or failing pop are of this kind, and so *)
(* is the notification.                                                     *)
LEMMA QuietActionsKeep ==
  ASSUME TypeOK, Inv, NEW t \in Threads,
         \/ \E call \in PopOps : PopCall(t, call)
         \/ PushNotify(t) \/ PopLock(t) \/ PopTest(t) \/ TryPopEmpty(t) \/ WaitEmpty(t)
         \/ Block(t) \/ SpuriousWake(t)
  PROVE  TypeOK' /\ Inv'
<1> USE NoThreadAssumption
    DEF TypeOK, Inv, list, mutexes, bounds, Goto, Begin, Labels, Pushing, HoldsTail, HoldsHead,
        MutexOwners, CallState
<1>1. ASSUME NEW call \in PopOps, PopCall(t, call) PROVE TypeOK' /\ Inv'
  <2>1. TypeOK'
    BY <1>1, BoundsAssumption DEF PopCall, PopOps
  <2>2. MutexOwners'
    BY <1>1 DEF PopCall
  <2> QED
    BY <1>1, <2>1, <2>2, QuietStepKeeps DEF PopCall, PopOps
<1>2. ASSUME PushNotify(t) PROVE TypeOK' /\ Inv'
  <2>1. TypeOK'
    BY <1>2 DEF PushNotify, Asleep
  <2>2. ASSUME NEW u \in Threads
        PROVE  \/ pc'[u] = pc[u]
               \/ pc[u] = "asleep" /\ pc'[u] = "popLock"
               \/ pc[u] = "pushNotify" /\ pc'[u] = "idle"
    <3>1. CASE pc' = [pc EXCEPT ![t] = "idle"]
      BY <3>1, <1>2 DEF PushNotify
    <3>2. CASE \E w \in Asleep : pc' = [pc EXCEPT ![w] = "popLock", ![t] = "idle"]
      <4>1. PICK w \in Threads : pc[w] = "asleep" /\ pc' = [pc EXCEPT ![w] = "popLock", ![t] = "idle"]
        BY <3>2 DEF Asleep
      <4>2. w # t /\ pc[t] = "pushNotify"
        BY <4>1, <1>2 DEF PushNotify
      <4> QED
        BY <4>1, <4>2
    <3> QED
      BY <3>1, <3>2, <1>2 DEF PushNotify
  <2>3. ASSUME NEW u \in Threads
        PROVE  /\ pc[u] \in Pushing \cup {"popFinish"} => pc'[u] = pc[u]
               /\ pc'[u] \in Pushing \cup {"popFinish"} => pc'[u] = pc[u]
               /\ pc'[u] = "popHead" => head # tail
    BY <2>2
  <2>4. UNCHANGED <<list, own, arg>>
    BY <1>2 DEF PushNotify
  <2>5. MutexOwners'
    <3>1. UNCHANGED mutexes
      BY <1>2 DEF PushNotify
    <3> QED
      BY <2>2, <3>1
  <2> QED
    BY <2>1, <2>3, <2>4, <2>5, QuietStepKeeps
<1>3. ASSUME PopLock(t) PROVE TypeOK' /\ Inv'
  <2>1. TypeOK'
    BY <1>3 DEF PopLock
  <2>2. MutexOwners'
    BY <1>3 DEF PopLock
  <2> QED
    BY <1>3, <2>1, <2>2, QuietStepKeeps DEF PopLock
<1>4. ASSUME PopTest(t) PROVE TypeOK' /\ Inv'
  <2>1. TypeOK'
    BY <1>4 DEF PopTest, Empty
  <2>2. MutexOwners'
    BY <1>4 DEF PopTest
  <2> QED
    BY <1>4, <2>1, <2>2, QuietStepKeeps DEF PopTest, Empty
<1>5. ASSUME TryPopEmpty(t) PROVE TypeOK' /\ Inv'
  <2>1. TypeOK'
    BY <1>5 DEF TryPopEmpty
  <2>2. MutexOwners'
    BY <1>5 DEF TryPopEmpty
  <2> QED
    BY <1>5, <2>1, <2>2, QuietStepKeeps DEF TryPopEmpty
<1>6. ASSUME WaitEmpty(t) PROVE TypeOK' /\ Inv'
  <2>1. TypeOK'
    BY <1>6 DEF WaitEmpty
  <2>2. MutexOwners'
    BY <1>6 DEF WaitEmpty
  <2> QED
    BY <1>6, <2>1, <2>2, QuietStepKeeps DEF WaitEmpty
<1>7. ASSUME Block(t) PROVE TypeOK' /\ Inv'
  <2>1. TypeOK'
    BY <1>7 DEF Block
  <2>2. MutexOwners'
    BY <1>7 DEF Block
  <2> QED
    BY <1>7, <2>1, <2>2, QuietStepKeeps DEF Block
<1>8. ASSUME SpuriousWake(t) PROVE TypeOK' /\ Inv'
  <2>1. TypeOK'
    BY <1>8, BoundsAssumption DEF SpuriousWake
  <2>2. MutexOwners'
    BY <1>8 DEF SpuriousWake
  <2> QED
    BY <1>8, <2>1, <2>2, QuietStepKeeps DEF SpuriousWake
<1> QED
  BY <1>1, <1>2, <1>3, <1>4, <1>5, <1>6, <1>7, <1>8

-----------------------------------------------------------------------------
(* push                                                                     *)

(* The new node belongs to the thread that allocated it.                    *)
LEMMA PushCallKeeps ==
  ASSUME TypeOK, Inv, NEW t \in Threads, NEW v \in Values, NEW n \in Nodes, PushCall(t, v, n)
  PROVE  TypeOK' /\ Inv'
<1> USE NullAssumption
    DEF TypeOK, Inv, PushCall, Begin, Goto, mutexes, Labels, Pushing, HoldsTail, HoldsHead
<1>1. TypeOK'
  BY BoundsAssumption
<1>2. /\ n \notin InChain /\ n # head /\ n # tail
      /\ \A u \in Threads : own[u] # n
      /\ own[t] = Null
  <2>1. n \notin InChain /\ \A u \in Threads : own[u] # n
    BY DEF OneOwner
  <2>2. own[t] = Null
    BY DEF CallState
  <2> QED
    BY <2>1, <2>2, ChainEnds
<1>3. ListShape'
  <2>1. \A i \in 1 .. Len(chain) - 1 : chain[i] # n
    BY <1>2, ChainEnds DEF InChain
  <2>2. \A u \in Threads : pc[u] \in {"pushNext", "pushTail"} => pc'[u] = pc[u] /\ own'[u] = own[u]
    OBVIOUS
  <2> QED
    BY <1>2, <2>1, <2>2 DEF ListShape
<1>4. OneOwner'
  <2>1. InChain' = InChain
    BY DEF InChain
  <2>2. own' = [own EXCEPT ![t] = n]
    OBVIOUS
  <2>3. live' = InChain' \cup ({own'[u] : u \in Threads} \ {Null})
    <3>1. {own'[u] : u \in Threads} \ {Null} = ({own[u] : u \in Threads} \ {Null}) \cup {n}
      BY <1>2, <2>2
    <3> QED
      BY <2>1, <3>1 DEF OneOwner
  <2> QED
    BY <1>2, <2>1, <2>2, <2>3 DEF OneOwner
<1>5. MutexOwners'
  BY DEF MutexOwners
<1>6. CallState'
  BY <1>2 DEF CallState
<1> QED
  BY <1>1, <1>3, <1>4, <1>5, <1>6

(* Until the push that holds tail_mutex begins, nothing hangs on the dummy. *)
LEMMA PushLockKeeps ==
  ASSUME TypeOK, Inv, NEW t \in Threads, PushLock(t)
  PROVE  TypeOK' /\ Inv'
<1> USE NoThreadAssumption
    DEF TypeOK, Inv, PushLock, Goto, list, bounds, Labels, Pushing, HoldsTail, HoldsHead
<1>1. TypeOK'
  OBVIOUS
<1>2. \A u \in Threads : pc[u] \notin HoldsTail
  BY DEF MutexOwners
<1>3. ListShape'
  BY <1>2 DEF ListShape
<1>4. OneOwner'
  BY DEF OneOwner, InChain
<1>5. MutexOwners'
  BY DEF MutexOwners
<1>6. CallState'
  BY <1>2 DEF CallState, ListShape
<1> QED
  BY <1>1, <1>3, <1>4, <1>5, <1>6

(* The data is put into the dummy, which no pop can reach.                  *)
LEMMA PushDataKeeps ==
  ASSUME TypeOK, Inv, NEW t \in Threads, PushData(t)
  PROVE  TypeOK' /\ Inv'
<1> USE DEF TypeOK, Inv, PushData, Goto, mutexes, bounds, Labels, Pushing, HoldsTail, HoldsHead
<1>1. TypeOK'
  OBVIOUS
<1>2. \A u \in Threads : u # t => pc[u] \notin HoldsTail
  BY DEF MutexOwners
<1>3. /\ arg[t] \in Values /\ pc'[t] = "pushNext"
      /\ \A u \in Threads : pc[u] \in Pushing \cup {"popFinish"} => own[u] # tail
  BY ChainEnds, NullAssumption DEF CallState, OneOwner
<1>4. ListShape'
  BY <1>2, <1>3, EmptyPointerAssumption DEF ListShape
<1>5. OneOwner'
  BY DEF OneOwner, InChain
<1>6. MutexOwners'
  BY DEF MutexOwners
<1>7. CallState'
  BY <1>2, <1>3 DEF CallState
<1> QED
  BY <1>1, <1>4, <1>5, <1>6, <1>7

(* The new node hangs on the dummy; it is no part of the list yet.          *)
LEMMA PushNextKeeps ==
  ASSUME TypeOK, Inv, NEW t \in Threads, PushNext(t)
  PROVE  TypeOK' /\ Inv'
<1> USE DEF TypeOK, Inv, PushNext, Goto, mutexes, bounds, Labels, Pushing, HoldsTail, HoldsHead
<1>1. TypeOK'
  OBVIOUS
<1>2. \A u \in Threads : u # t => pc[u] \notin HoldsTail
  BY DEF MutexOwners
<1>3. /\ pc'[t] = "pushTail"
      /\ \A u \in Threads : pc[u] \in Pushing \cup {"popFinish"} => own[u] # tail
  BY ChainEnds, NullAssumption DEF CallState, OneOwner
<1>4. ListShape'
  <2>1. \A i \in 1 .. Len(chain) - 1 : chain[i] # tail
    BY ChainEnds DEF ListShape, OneOwner
  <2> QED
    BY <2>1, <1>3 DEF ListShape
<1>5. OneOwner'
  BY DEF OneOwner, InChain
<1>6. MutexOwners'
  BY DEF MutexOwners
<1>7. CallState'
  BY <1>2, <1>3 DEF CallState
<1> QED
  BY <1>1, <1>4, <1>5, <1>6, <1>7

(* The new node becomes the dummy, and the old one an item.                 *)
LEMMA PushTailKeeps ==
  ASSUME TypeOK, Inv, NEW t \in Threads, PushTail(t)
  PROVE  TypeOK' /\ Inv'
<1> USE DEF TypeOK, Inv, PushTail, Goto, bounds, Labels, Pushing, HoldsTail, HoldsHead
<1> DEFINE len == Len(chain)
<1>1. own[t] \in Nodes
  BY DEF CallState
<1>2. TypeOK'
  BY <1>1
<1>3. \A u \in Threads : u # t => pc[u] \notin HoldsTail
  BY DEF MutexOwners
<1>4. /\ len \in Nat \ {0} /\ Len(chain') = len + 1 /\ chain'[len + 1] = own[t]
      /\ \A i \in 1 .. len : chain'[i] = chain[i]
  BY <1>1, ChainEnds
<1>5. /\ next[tail] = own[t] /\ data[tail] # NoValue
      /\ next[own[t]] = Null /\ data[own[t]] = NoValue
  BY EmptyPointerAssumption DEF CallState
<1>6. own[t] \notin InChain
  BY DEF OneOwner
<1> HIDE DEF len
<1>7. ListShape'
  <2>1. chain' # <<>>
    BY <1>4, <1>2
  <2>2. head' = chain'[1] /\ tail' = chain'[Len(chain')]
    BY <1>4 DEF ListShape
  <2>3. ASSUME NEW i \in 1 .. Len(chain') - 1
        PROVE  next'[chain'[i]] = chain'[i + 1] /\ data'[chain'[i]] # NoValue
    <3>1. CASE i = len
      BY <3>1, <1>4, <1>5 DEF ListShape, len
    <3>2. CASE i # len
      BY <3>2, <1>4 DEF ListShape, len
    <3> QED
      BY <3>1, <3>2
  <2> QED
    BY <2>1, <2>2, <2>3, <1>5 DEF ListShape
<1>8. OneOwner'
  <2>1. InChain' = InChain \cup {own[t]}
    BY <1>4 DEF InChain, len
  <2>2. own' = [own EXCEPT ![t] = Null]
    OBVIOUS
  <2>3. \A u \in Threads : own'[u] \notin InChain'
    BY <2>1, <2>2, <1>1, NullAssumption, ChainEnds DEF OneOwner, InChain
  <2>4. \A i, j \in 1 .. Len(chain') : chain'[i] = chain'[j] => i = j
    <3>1. \A i \in 1 .. len : chain[i] # own[t]
      BY <1>6 DEF InChain, len
    <3> QED
      BY <3>1, <1>4 DEF OneOwner, len
  <2>5. live' = InChain' \cup ({own'[u] : u \in Threads} \ {Null})
    <3>1. {own'[u] : u \in Threads} \ {Null} = ({own[u] : u \in Threads} \ {Null}) \ {own[t]}
      BY <2>2, <1>1, NullAssumption DEF OneOwner
    <3> QED
      BY <2>1, <3>1, <1>1, NullAssumption DEF OneOwner
  <2> QED
    BY <2>2, <2>3, <2>4, <2>5 DEF OneOwner
<1>9. MutexOwners'
  BY NoThreadAssumption DEF MutexOwners
<1>10. CallState'
  BY <1>3, <1>5, NullAssumption, ChainEnds DEF CallState, OneOwner
<1> QED
  BY <1>2, <1>7, <1>8, <1>9, <1>10

-----------------------------------------------------------------------------
(* pop                                                                      *)

(* The head leaves the list for the hands of the popping thread.            *)
LEMMA PopHeadKeeps ==
  ASSUME TypeOK, Inv, NEW t \in Threads, PopHead(t)
  PROVE  TypeOK' /\ Inv'
<1> USE DEF TypeOK, Inv, PopHead, Goto, bounds, Labels, Pushing, HoldsTail, HoldsHead
<1> DEFINE len == Len(chain)
<1>1. /\ len \in Nat /\ len >= 2 /\ head # tail
      /\ next[head] = chain[2] /\ chain[2] \in Nodes /\ data[head] # NoValue
      /\ head = chain[1] /\ tail = chain[len]
  BY ChainEnds, ChainSecond DEF CallState, ListShape
<1>2. TypeOK'
  BY <1>1
<1>3. /\ Len(chain') = len - 1
      /\ \A i \in 1 .. len - 1 : chain'[i] = chain[i + 1]
  BY <1>1
<1>4. \A i \in 2 .. len : chain[i] # head
  BY <1>1 DEF OneOwner
<1>5. /\ next' = [next EXCEPT ![head] = Null] /\ own' = [own EXCEPT ![t] = head]
      /\ own[t] = Null
      /\ \A u \in Threads : own[u] # head
  <2>1. own[t] = Null
    BY DEF CallState
  <2>2. \A u \in Threads : own[u] # head
    BY ChainEnds DEF OneOwner
  <2> QED
    BY <2>1, <2>2
<1> HIDE DEF len
<1>6. ListShape'
  <2>1. chain' # <<>>
    <3>1. Len(chain') # 0
      BY <1>1, <1>3
    <3> QED
      BY <3>1
  <2>2. head' = chain'[1] /\ tail' = chain'[Len(chain')]
    BY <1>1, <1>3
  <2>3. ASSUME NEW i \in 1 .. Len(chain') - 1
        PROVE  next'[chain'[i]] = chain'[i + 1] /\ data'[chain'[i]] # NoValue
    <3>1. /\ i + 1 \in 1 .. Len(chain) - 1 /\ i + 1 \in 2 .. len
          /\ chain'[i] = chain[i + 1] /\ chain'[i + 1] = chain[(i + 1) + 1]
      BY <1>1, <1>3 DEF len
    <3>2. next[chain[i + 1]] = chain[(i + 1) + 1] /\ data[chain[i + 1]] # NoValue
      BY <3>1 DEF ListShape
    <3>3. chain[i + 1] # head
      BY <3>1, <1>4
    <3> QED
      BY <3>1, <3>2, <3>3, <1>5
  <2>4. \A u \in Threads : pc[u] \in {"pushNext", "pushTail"} => pc'[u] = pc[u] /\ own'[u] = own[u]
    BY <1>5
  <2>5. tail' = tail /\ next'[tail] = next[tail] /\ data' = data
    BY <1>1, <1>5
  <2>6. next'[tail'] # Null => \E u \in Threads : pc'[u] = "pushTail" /\ own'[u] = next'[tail']
    BY <2>4, <2>5 DEF ListShape
  <2>7. data'[tail'] # NoValue => \E u \in Threads : pc'[u] \in {"pushNext", "pushTail"}
    BY <2>4, <2>5 DEF ListShape
  <2> HIDE DEF PopHead
  <2> QED
    BY <2>1, <2>2, <2>3, <2>6, <2>7 DEF ListShape
<1>7. OneOwner'
  <2>1. InChain' = InChain \ {head}
    <3>1. ASSUME NEW i \in 1 .. len - 1 PROVE chain'[i] \in InChain \ {head}
      <4>1. i + 1 \in 2 .. len /\ i + 1 \in 1 .. len /\ chain'[i] = chain[i + 1]
        BY <1>1, <1>3
      <4> QED
        BY <4>1, <1>4 DEF InChain, len
    <3>2. ASSUME NEW i \in 1 .. len, chain[i] # head PROVE chain[i] \in InChain'
      <4>1. i - 1 \in 1 .. len - 1
        BY <3>2, <1>1
      <4>2. chain'[i - 1] = chain[i]
        BY <4>1, <1>1, <1>3
      <4> QED
        BY <4>1, <4>2, <1>3 DEF InChain
    <3>3. InChain' \subseteq InChain \ {head}
      <4> HIDE DEF PopHead, TypeOK
      <4> QED
        BY <3>1, <1>3 DEF InChain
    <3>4. InChain \ {head} \subseteq InChain'
      BY <3>2 DEF InChain, len
    <3> QED
      BY <3>3, <3>4
  <2>2. \A i, j \in 1 .. Len(chain') : chain'[i] = chain'[j] => i = j
    BY <1>1, <1>3 DEF OneOwner, len
  <2>3. live' = InChain' \cup ({own'[u] : u \in Threads} \ {Null})
    <3>1. {own'[u] : u \in Threads} \ {Null} = ({own[u] : u \in Threads} \ {Null}) \cup {head}
      BY <1>5, NullAssumption
    <3>2. head \in InChain /\ live' = live
      BY ChainEnds
    <3>3. live = InChain \cup ({own[u] : u \in Threads} \ {Null})
      BY DEF OneOwner
    <3> HIDE DEF PopHead, TypeOK
    <3> QED
      BY <2>1, <3>1, <3>2, <3>3
  <2>4. \A u \in Threads : own'[u] \notin InChain'
    BY <2>1, <1>5 DEF OneOwner
  <2>5. \A u, w \in Threads : own'[u] # Null /\ own'[u] = own'[w] => u = w
    BY <1>5 DEF OneOwner
  <2> QED
    BY <2>2, <2>3, <2>4, <2>5 DEF OneOwner
<1>8. MutexOwners'
  BY NoThreadAssumption DEF MutexOwners
<1>9. CallState'
  <2>1. \A u \in Threads : u # t => pc[u] \notin HoldsHead
    BY DEF MutexOwners
  <2> QED
    BY <2>1, <1>1, <1>5, NullAssumption DEF CallState
<1> QED
  BY <1>2, <1>6, <1>7, <1>8, <1>9

(* The node that is freed was in nobody else's hands.                       *)
LEMMA PopFinishKeeps ==
  ASSUME TypeOK, Inv, NEW t \in Threads, PopFinish(t)
  PROVE  TypeOK' /\ Inv'
<1> USE DEF TypeOK, Inv, PopFinish, Goto, mutexes, bounds, Labels, Pushing, HoldsTail, HoldsHead
<1>1. own[t] \in Nodes /\ own' = [own EXCEPT ![t] = Null]
  BY DEF CallState
<1>2. TypeOK'
  BY <1>1
<1>3. ListShape'
  <2>1. \A u \in Threads : pc[u] \in {"pushNext", "pushTail"} => pc'[u] = pc[u] /\ own'[u] = own[u]
    OBVIOUS
  <2> QED
    BY <2>1 DEF ListShape
<1>4. OneOwner'
  <2>1. InChain' = InChain
    BY DEF InChain
  <2>2. {own'[u] : u \in Threads} \ {Null} = ({own[u] : u \in Threads} \ {Null}) \ {own[t]}
    BY <1>1, NullAssumption DEF OneOwner
  <2>3. \A u \in Threads : own'[u] \notin InChain
    BY <1>1, NullAssumption, ChainEnds DEF OneOwner, InChain
  <2> QED
    BY <1>1, <2>1, <2>2, <2>3, NullAssumption DEF OneOwner
<1>5. MutexOwners'
  BY DEF MutexOwners
<1>6. CallState'
  BY <1>1, NullAssumption DEF CallState
<1> QED
  BY <1>2, <1>3, <1>4, <1>5, <1>6

-----------------------------------------------------------------------------
(* Whatever the threads do, the types, the list and the ownership are right.*)
THEOREM Invariance == Spec => [](TypeOK /\ Inv)
<1>1. TypeOK /\ Inv /\ [Next]_vars => TypeOK' /\ Inv'
  <2> SUFFICES ASSUME TypeOK, Inv, [Next]_vars PROVE TypeOK' /\ Inv'
    OBVIOUS
  <2>1. CASE UNCHANGED vars
    BY <2>1 DEF vars, list, mutexes, bounds, TypeOK, Inv, ListShape, OneOwner, InChain,
       MutexOwners, CallState
  <2>2. CASE Next
    <3>1. \A t \in Threads : Offers[t] \subseteq Values
      BY OffersAssumption
    <3> QED
      BY <2>2, <3>1, QuietActionsKeep, PushCallKeeps, PushLockKeeps, PushDataKeeps, PushNextKeeps,
         PushTailKeeps, PopHeadKeeps, PopFinishKeeps DEF Next, Call, Continue
  <2> QED
    BY <2>1, <2>2
<1> QED
  BY <1>1, InvInit, PTL DEF Spec

(* Type correctness of every reachable state.                               *)
THEOREM TypeCorrect == Spec => []TypeOK
  BY Invariance, PTL

(* The inductive invariant on its own.                                      *)
THEOREM InvHolds == Spec => []Inv
  BY Invariance, PTL

(* The list is well formed at every step of every push and pop.             *)
THEOREM ListWellFormed == Spec => []ListShape
<1>1. Inv => ListShape
  BY DEF Inv
<1> QED
  BY <1>1, Invariance, PTL

(* No node is leaked, freed twice or used after it was freed.               *)
THEOREM NodesOwned == Spec => []OneOwner
<1>1. Inv => OneOwner
  BY DEF Inv
<1> QED
  BY <1>1, Invariance, PTL

(* The two ends of the list never meet in one node.                         *)
THEOREM TwoLocksSuffice == Spec => []EndsApart
<1>1. TypeOK /\ Inv => EndsApart
  <2> SUFFICES ASSUME TypeOK, Inv PROVE EndsApart
    OBVIOUS
  <2> QED
    BY ChainEnds DEF Inv, CallState, OneOwner, EndsApart
<1> QED
  BY <1>1, Invariance, PTL

-----------------------------------------------------------------------------
(* The queue implements the abstract FIFO queue                             *)

(* The items that are in the queue.                                         *)
ItemsRange == {data[chain[i]] : i \in 1 .. Len(chain) - 1}

(* Items is the sequence it is meant to be.                                 *)
ItemsShape ==
  /\ Items \in Seq(ItemsRange)
  /\ Len(Items) = Len(chain) - 1
  /\ \A i \in 1 .. Len(chain) - 1 : Items[i] = data[chain[i]]

(* The mapped queue has one item for every node but the dummy.              *)
LEMMA ItemsHaveShape == TypeOK /\ Inv => ItemsShape
<1> SUFFICES ASSUME TypeOK, Inv PROVE ItemsShape
  OBVIOUS
<1>1. Len(chain) - 1 \in Nat
  BY ChainEnds DEF Inv
<1>2. Items \in [1 .. Len(chain) - 1 -> ItemsRange]
  BY DEF Items, ItemsRange
<1>3. Items \in Seq(ItemsRange)
  BY <1>1, <1>2, SeqDef
<1>4. Len(Items) = Len(chain) - 1
  BY <1>1, <1>2, <1>3, LenProperties
<1> QED
  BY <1>3, <1>4 DEF Items, ItemsShape

(* The same in the state after a step.                                      *)
LEMMA ItemsNext == (TypeOK /\ Inv)' => ItemsShape'
  BY ItemsHaveShape, PTL

(* A list without repetition has at most as many nodes as there are.        *)
LEMMA ChainFits ==
  ASSUME TypeOK, Inv
  PROVE  Cardinality(Nodes) \in Nat /\ Len(chain) <= Cardinality(Nodes)
<1>1. Cardinality(Nodes) \in Nat
  BY NodesAssumption, FS_CardinalityType
<1>2. Len(chain) \in Nat /\ chain \in [1 .. Len(chain) -> Nodes]
  BY LenProperties DEF TypeOK
<1>3. IsFiniteSet(1 .. Len(chain)) /\ Cardinality(1 .. Len(chain)) = Len(chain)
  BY <1>2, FS_Interval
<1>4. \A i, j \in 1 .. Len(chain) : chain[i] = chain[j] => i = j
  BY DEF Inv, OneOwner
<1>5. ~ (Cardinality(Nodes) < Cardinality(1 .. Len(chain)))
  BY <1>2, <1>3, <1>4, NodesAssumption, FS_PigeonHole
<1> QED
  BY <1>1, <1>2, <1>3, <1>5

(* The new queue is the empty sequence.                                     *)
LEMMA FifoInitially == Init => Abstract!FifoInit
<1> SUFFICES ASSUME NEW dummy \in Nodes, Init, chain = <<dummy>>
             PROVE Items = <<>> /\ Taken = [t \in Threads |-> NoValue]
  BY DEF Init, Abstract!FifoInit
<1>1. Items = <<>>
  BY DEF Items
<1>2. Taken = [t \in Threads |-> NoValue]
  BY DEF Init, Taken
<1> QED
  BY <1>1, <1>2

(* Steps that keep the list, and the data of its nodes but the dummy, keep  *)
(* the items.                                                               *)
LEMMA ItemsKept ==
  ASSUME TypeOK, Inv, chain' = chain,
         \A n \in InChain \ {tail} : data'[n] = data[n]
  PROVE  Items' = Items
<1>1. \A i \in 1 .. Len(chain) - 1 : chain[i] \in InChain \ {tail}
  BY ChainEnds DEF Inv, ListShape, OneOwner, InChain
<1> QED
  BY <1>1 DEF Items

(* Only PushTail and PopHead change what the queue holds.                   *)
LEMMA OtherActionsStutter ==
  ASSUME TypeOK, Inv, NEW t \in Threads,
         \/ \E v \in Offers[t], n \in Nodes : PushCall(t, v, n)
         \/ \E call \in PopOps : PopCall(t, call)
         \/ PushLock(t) \/ PushData(t) \/ PushNext(t) \/ PushNotify(t)
         \/ PopLock(t) \/ PopTest(t) \/ TryPopEmpty(t) \/ WaitEmpty(t) \/ Block(t)
         \/ SpuriousWake(t) \/ PopFinish(t)
  PROVE  UNCHANGED <<Items, Taken>>
<1> USE DEF TypeOK, Inv, Goto, Begin, list, mutexes, bounds, ByRef
<1>1. ASSUME NEW v \in Offers[t], NEW n \in Nodes, PushCall(t, v, n)
      PROVE  UNCHANGED <<Items, Taken>>
  <2>1. n \notin InChain /\ \A u \in Threads : own[u] # n
    BY <1>1, NullAssumption DEF PushCall, OneOwner
  <2>2. Items' = Items
    BY <1>1, <2>1, ItemsKept DEF PushCall
  <2>3. Taken' = Taken
    <3> SUFFICES ASSUME NEW u \in Threads
                 PROVE  (IF pc'[u] = "popFinish" /\ op'[u] \notin {"waitRef", "tryRef"}
                         THEN data'[own'[u]] ELSE res'[u])
                      = (IF pc[u] = "popFinish" /\ op[u] \notin {"waitRef", "tryRef"}
                         THEN data[own[u]] ELSE res[u])
      BY DEF Taken
    <3> QED
      BY <1>1, <2>1 DEF PushCall
  <2> QED
    BY <2>2, <2>3
<1>2. ASSUME PushData(t) PROVE UNCHANGED <<Items, Taken>>
  <2>1. Items' = Items
    BY <1>2, ItemsKept, ChainEnds DEF PushData, InChain
  <2>2. \A u \in Threads : own[u] # tail
    BY ChainEnds DEF OneOwner
  <2>3. Taken' = Taken
    BY <1>2, <2>2 DEF PushData, Taken, CallState
  <2> QED
    BY <2>1, <2>3
<1>3. ASSUME PopFinish(t) PROVE UNCHANGED <<Items, Taken>>
  <2>1. Items' = Items
    BY <1>3, ItemsKept DEF PopFinish
  <2>2. Taken' = Taken
    BY <1>3 DEF PopFinish, Taken
  <2> QED
    BY <2>1, <2>2
<1>4. ASSUME UNCHANGED <<chain, data, own, res>>,
             \A u \in Threads :
               /\ pc'[u] = "popFinish" <=> pc[u] = "popFinish"
               /\ pc[u] = "popFinish" => op'[u] = op[u]
      PROVE  UNCHANGED <<Items, Taken>>
  <2>1. Items' = Items
    BY <1>4 DEF Items
  <2>2. Taken' = Taken
    BY <1>4 DEF Taken
  <2> QED
    BY <2>1, <2>2
<1>5. CASE \/ \E call \in PopOps : PopCall(t, call)
           \/ PushLock(t) \/ PushNext(t)
           \/ PopLock(t) \/ PopTest(t) \/ TryPopEmpty(t) \/ WaitEmpty(t) \/ Block(t)
           \/ SpuriousWake(t)
  <2>1. UNCHANGED <<chain, data, own, res>>
    BY <1>5 DEF PopCall, PushLock, PushNext, PopLock, PopTest, TryPopEmpty, WaitEmpty, Block,
       SpuriousWake
  <2>2. ASSUME NEW u \in Threads
        PROVE  /\ pc'[u] = "popFinish" <=> pc[u] = "popFinish"
               /\ pc[u] = "popFinish" => op'[u] = op[u]
    BY <1>5 DEF PopCall, PushLock, PushNext, PopLock, PopTest, TryPopEmpty, WaitEmpty, Block,
       SpuriousWake
  <2> QED
    BY <2>1, <2>2, <1>4
<1>6. ASSUME PushNotify(t) PROVE UNCHANGED <<Items, Taken>>
  <2>1. UNCHANGED <<chain, data, own, res>>
    BY <1>6 DEF PushNotify
  <2>2. ASSUME NEW u \in Threads
        PROVE  /\ pc'[u] = "popFinish" <=> pc[u] = "popFinish"
               /\ pc[u] = "popFinish" => op'[u] = op[u]
    BY <1>6 DEF PushNotify, Asleep
  <2> QED
    BY <2>1, <2>2, <1>4
<1> QED
  BY <1>1, <1>2, <1>3, <1>5, <1>6

(* Moving tail appends the argument.                                        *)
LEMMA PushTailEnqueues ==
  ASSUME TypeOK, Inv, TypeOK', Inv', NEW t \in Threads, PushTail(t)
  PROVE  Abstract!FifoNext
<1> USE DEF TypeOK, Inv, PushTail, Goto, bounds
<1>1. /\ Len(chain) \in Nat \ {0} /\ tail = chain[Len(chain)] /\ own[t] \in Nodes
      /\ data[tail] = arg[t] /\ arg[t] \in Values
  BY ChainEnds DEF ListShape, CallState, Pushing
<1>2. ItemsShape /\ ItemsShape'
  BY ItemsHaveShape, ItemsNext
<1>3. /\ Len(chain') = Len(chain) + 1
      /\ \A i \in 1 .. Len(chain) : chain'[i] = chain[i]
  BY <1>1
<1>4. Len(Items) < Cardinality(Nodes)
  BY <1>1, <1>2, ChainFits DEF ItemsShape
<1>5. Items' = Append(Items, arg[t])
  <2>1. Len(Items') = Len(Items) + 1 /\ Len(Items) = Len(chain) - 1
    BY <1>1, <1>2, <1>3 DEF ItemsShape
  <2>2. ASSUME NEW i \in 1 .. Len(chain) PROVE Items'[i] = data[chain[i]]
    BY <1>2, <1>3, <1>1 DEF ItemsShape
  <2>3. Items'[Len(Items) + 1] = arg[t]
    <3>1. Len(Items) + 1 = Len(chain) /\ Len(chain) \in 1 .. Len(chain)
      BY <1>1, <2>1
    <3>2. Items'[Len(chain)] = data[tail]
      BY <3>1, <1>1, <2>2
    <3> QED
      BY <3>1, <3>2, <1>1
  <2>4. ASSUME NEW i \in 1 .. Len(Items) PROVE Items'[i] = Items[i]
    <3>1. i \in 1 .. Len(chain) /\ i \in 1 .. Len(chain) - 1
      BY <1>1, <2>1
    <3> QED
      BY <3>1, <1>2, <2>2 DEF ItemsShape
  <2> QED
    BY <1>2, <2>1, <2>3, <2>4, IsAppend DEF ItemsShape
<1>6. Taken' = Taken
  BY DEF Taken, ByRef
<1> QED
  BY <1>1, <1>4, <1>5, <1>6 DEF Abstract!FifoNext, Abstract!Enq

(* Moving head takes the oldest item.                                       *)
LEMMA PopHeadDequeues ==
  ASSUME TypeOK, Inv, TypeOK', Inv', NEW t \in Threads, PopHead(t)
  PROVE  Abstract!Deq(t)
<1> USE DEF TypeOK, Inv, PopHead, Goto, bounds
<1>1. Len(chain) \in Nat /\ Len(chain) >= 2 /\ head = chain[1]
  BY ChainEnds, ChainSecond DEF ListShape, CallState
<1>2. ItemsShape /\ ItemsShape'
  BY ItemsHaveShape, ItemsNext
<1>3. /\ Len(chain') = Len(chain) - 1
      /\ \A i \in 1 .. Len(chain) - 1 : chain'[i] = chain[i + 1]
  BY <1>1
<1>4. /\ Len(Items) = Len(chain) - 1 /\ Len(Items') = Len(Items) - 1
      /\ Items # <<>> /\ Head(Items) = data[head]
  <2>1. Len(Items) = Len(chain) - 1 /\ Len(Items') = Len(Items) - 1
    BY <1>1, <1>2, <1>3 DEF ItemsShape
  <2>2. Items # <<>>
    BY <2>1, <1>1
  <2>3. 1 \in 1 .. Len(chain) - 1 /\ Items[1] = data[head]
    <3>1. 1 \in 1 .. Len(chain) - 1
      BY <1>1
    <3>2. Items[1] = data[chain[1]]
      BY <3>1, <1>2 DEF ItemsShape
    <3> QED
      BY <3>1, <3>2, <1>1
  <2>4. Head(Items) = Items[1]
    OBVIOUS
  <2> QED
    BY <2>1, <2>2, <2>3, <2>4
<1>5. Items' = Tail(Items)
  <2>1. ASSUME NEW i \in 1 .. Len(Items') PROVE Items'[i] = Items[i + 1]
    <3>1. i \in 1 .. Len(chain') - 1 /\ i + 1 \in 1 .. Len(chain) - 1 /\ i \in 1 .. Len(chain) - 1
      BY <1>1, <1>3, <1>4
    <3> QED
      BY <3>1, <1>2, <1>3 DEF ItemsShape
  <2> QED
    BY <1>2, <1>4, <2>1, IsTail DEF ItemsShape
<1>6. Taken' = [Taken EXCEPT ![t] = Head(Items)]
  BY <1>4 DEF Taken, ByRef
<1> QED
  BY <1>4, <1>5, <1>6 DEF Abstract!Deq

(* Whatever the threads do, what they see is a FIFO queue: pushes take      *)
(* effect in the order in which they move tail, and every pop returns the   *)
(* oldest item at the moment it moves head.                                 *)
THEOREM Refinement == Spec => ImplementsFifo
<1>1. TypeOK /\ Inv /\ (TypeOK /\ Inv)' /\ [Next]_vars
        => [Abstract!FifoNext]_(<<Items, Taken>>)
  <2> SUFFICES ASSUME TypeOK, Inv, TypeOK', Inv', [Next]_vars
               PROVE  Abstract!FifoNext \/ UNCHANGED <<Items, Taken>>
    OBVIOUS
  <2>1. CASE UNCHANGED vars
    BY <2>1 DEF vars, list, Items, Taken, ByRef
  <2>2. ASSUME NEW t \in Threads, PopHead(t) PROVE Abstract!FifoNext
    BY <2>2, PopHeadDequeues DEF Abstract!FifoNext
  <2>3. CASE Next
    BY <2>2, <2>3, PushTailEnqueues, OtherActionsStutter DEF Next, Call, Continue
  <2> QED
    BY <2>1, <2>3
<1> QED
  BY <1>1, FifoInitially, InvInit, Invariance, PTL
     DEF Spec, ImplementsFifo, Abstract!FifoSpec, Abstract!fifoVars

=============================================================================
