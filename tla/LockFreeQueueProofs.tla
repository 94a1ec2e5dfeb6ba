------------------------- MODULE LockFreeQueueProofs -------------------------
(***************************************************************************)
(* Safety of LockFreeQueue for any number of threads, any capacity and any *)
(* number of operations: the invariant Inv is inductive, and the safety    *)
(* properties that TLC checks on three threads follow from it.             *)
(***************************************************************************)
EXTENDS LockFreeQueue, DataLemmas, SequenceTheorems, TLAPS

-----------------------------------------------------------------------------
(* Indices and slots.  These facts are all that the other proofs use of     *)
(* the operator %.                                                          *)

(* Every index has a slot.                                                  *)
LEMMA SlotType == \A i \in Nat : Slot(i) \in Slots
  BY DivMod, CapacityAssumption DEF Slot, Slots

(* The slots are the indices of the first lap.                              *)
LEMMA SlotOfSlot == \A s \in Slots : s \in Nat /\ Slot(s) = s
  BY CapacityAssumption DEF Slot, Slots

(* The index one lap later has the same slot.                               *)
LEMMA SlotNextLap ==
  ASSUME NEW i \in Nat
  PROVE  Slot(i + Capacity) = Slot(i)
  BY DivModLap, CapacityAssumption DEF Slot

(* Different indices of one slot are at least a lap apart.                  *)
LEMMA SlotLap ==
  ASSUME NEW i \in Nat, NEW j \in Nat, i < j, Slot(i) = Slot(j)
  PROVE  i + Capacity <= j
  BY LapApart, CapacityAssumption DEF Slot

-----------------------------------------------------------------------------
(* Type correctness: the counters, stamps, locals and objects of every      *)
(* reachable state have the types the code declares.                        *)
THEOREM TypeCorrect == Spec => []TypeOK
<1>1. Init => TypeOK
  BY CapacityAssumption, SlotOfSlot DEF Init, TypeOK, Labels
<1>2. TypeOK /\ [Next]_vars => TypeOK'
  <2> SUFFICES ASSUME TypeOK, [Next]_vars PROVE TypeOK'
    OBVIOUS
  <2> USE CapacityAssumption, SlotType DEF TypeOK, Labels, Writing, Reading, Goto, Return
  <2>1. CASE UNCHANGED vars
    BY <2>1 DEF vars
  <2>2. ASSUME NEW t \in Threads, NEW v \in Offers[t], PushCall(t, v) PROVE TypeOK'
    <3>1. v \in Values
      BY OffersAssumption
    <3> QED
      BY <2>2, <3>1 DEF PushCall
  <2>3. ASSUME NEW t \in Threads, PushCheck(t) PROVE TypeOK'
    BY <2>3 DEF PushCheck
  <2>4. ASSUME NEW t \in Threads, PushCas(t) PROVE TypeOK'
    BY <2>4 DEF PushCas
  <2>5. ASSUME NEW t \in Threads, PushCasFails(t) PROVE TypeOK'
    BY <2>5 DEF PushCasFails
  <2>6. ASSUME NEW t \in Threads, PushConstruct(t) PROVE TypeOK'
    BY <2>6 DEF PushConstruct
  <2>7. ASSUME NEW t \in Threads, PushPublish(t) PROVE TypeOK'
    BY <2>7 DEF PushPublish
  <2>8. ASSUME NEW t \in Threads, PopCall(t) PROVE TypeOK'
    BY <2>8 DEF PopCall
  <2>9. ASSUME NEW t \in Threads, PopCheck(t) PROVE TypeOK'
    BY <2>9 DEF PopCheck
  <2>10. ASSUME NEW t \in Threads, PopCas(t) PROVE TypeOK'
    BY <2>10 DEF PopCas
  <2>11. ASSUME NEW t \in Threads, PopCasFails(t) PROVE TypeOK'
    BY <2>11 DEF PopCasFails
  <2>12. ASSUME NEW t \in Threads, PopCopy(t) PROVE TypeOK'
    BY <2>12 DEF PopCopy
  <2>13. ASSUME NEW t \in Threads, PopDestroy(t) PROVE TypeOK'
    BY <2>13 DEF PopDestroy
  <2>14. ASSUME NEW t \in Threads, PopRelease(t) PROVE TypeOK'
    BY <2>14 DEF PopRelease
  <2>15. ASSUME NEW t \in Threads, SizeCall(t) PROVE TypeOK'
    BY <2>15 DEF SizeCall
  <2>16. ASSUME NEW t \in Threads, SizeReturn(t) PROVE TypeOK'
    BY <2>16 DEF SizeReturn
  <2> QED
    BY <2>1, <2>2, <2>3, <2>4, <2>5, <2>6, <2>7, <2>8, <2>9, <2>10, <2>11, <2>12, <2>13, <2>14, <2>15, <2>16 DEF Next, Call, Continue
<1> QED
  BY <1>1, <1>2, PTL DEF Spec

-----------------------------------------------------------------------------
(* The invariant is inductive                                               *)

(* The empty queue satisfies the invariant.                                 *)
LEMMA InvInit == Init => TypeOK /\ Inv
<1> SUFFICES ASSUME Init PROVE TypeOK /\ Inv
  OBVIOUS
<1> USE DEF Init
<1>1. TypeOK
  BY CapacityAssumption, SlotOfSlot DEF TypeOK, Labels
<1>2. Counters
  BY CapacityAssumption DEF Counters
<1>3. Stamps
  <2> SUFFICES ASSUME NEW s \in Slots
               PROVE  /\ Slot(s) = s
                      /\ 0 <= s /\ 0 <= s + Capacity /\ s < Capacity
                      /\ -1 # s
    BY CapacityAssumption, SlotOfSlot DEF Stamps
  <2> QED
    BY CapacityAssumption, SlotOfSlot DEF Slots
<1>4. Checked /\ Writers /\ Readers /\ OneClaim
  BY DEF Checked, Writers, Readers, OneClaim, Writing, Reading
<1>5. Owned
  BY SlotOfSlot DEF Owned
<1> QED
  BY <1>1, <1>2, <1>3, <1>4, <1>5 DEF Inv

(* A step that only moves a thread that owns no node, within its checks,    *)
(* disturbs nothing but what is known of those checks.                      *)
LEMMA LocalStepKeeps ==
  ASSUME TypeOK, Inv, Checked',
         NEW t \in Threads, NEW label, NEW i \in Nat,
         pc[t] \notin Writing \cup Reading, label \notin Writing \cup Reading,
         pc' = [pc EXCEPT ![t] = label],
         idx' = [idx EXCEPT ![t] = i],
         UNCHANGED <<tail, head, nodeTail, nodeHead, data>>
  PROVE  Inv'
<1> USE DEF TypeOK, Inv
<1>1. Counters' /\ Stamps'
  BY DEF Counters, Stamps
<1>2. Writers' /\ Readers'
  BY DEF Writers, Readers, Writing, Reading
<1>3. OneClaim'
  BY DEF OneClaim
<1>4. Owned'
  BY DEF Owned
<1> QED
  BY <1>1, <1>2, <1>3, <1>4

(* The calls, checks and returns are such steps.                            *)
LEMMA LocalActionsKeep ==
  ASSUME TypeOK, Inv, NEW t \in Threads,
         \/ \E v \in Offers[t] : PushCall(t, v)
         \/ PushCheck(t) \/ PushCasFails(t)
         \/ PopCall(t) \/ PopCheck(t) \/ PopCasFails(t)
         \/ SizeCall(t) \/ SizeReturn(t)
  PROVE  Inv'
<1> USE DEF TypeOK, Inv, Checked, Goto, Return, Writing, Reading
<1>0. Offers[t] \subseteq Values
  BY OffersAssumption
<1>1. ASSUME NEW v \in Offers[t], PushCall(t, v) PROVE Inv'
  <2>1. Checked'
    BY <1>0, <1>1 DEF PushCall
  <2> QED
    BY <1>1, <2>1, LocalStepKeeps DEF PushCall
<1>2. ASSUME PushCheck(t) PROVE Inv'
  <2>1. Checked'
    BY <1>2 DEF PushCheck, PushAdmitted
  <2> QED
    BY <1>2, <2>1, LocalStepKeeps DEF PushCheck
<1>3. ASSUME PushCasFails(t) PROVE Inv'
  <2>1. Checked'
    BY <1>3 DEF PushCasFails
  <2> QED
    BY <1>3, <2>1, LocalStepKeeps DEF PushCasFails
<1>4. ASSUME PopCall(t) PROVE Inv'
  <2>1. Checked'
    BY <1>4 DEF PopCall
  <2> QED
    BY <1>4, <2>1, LocalStepKeeps DEF PopCall
<1>5. ASSUME PopCheck(t) PROVE Inv'
  <2>1. Checked'
    BY <1>5 DEF PopCheck, PopAdmitted
  <2> QED
    BY <1>5, <2>1, LocalStepKeeps DEF PopCheck
<1>6. ASSUME PopCasFails(t) PROVE Inv'
  <2>1. Checked'
    BY <1>6 DEF PopCasFails
  <2> QED
    BY <1>6, <2>1, LocalStepKeeps DEF PopCasFails
<1>7. ASSUME SizeCall(t) PROVE Inv'
  <2>1. Checked'
    BY <1>7 DEF SizeCall
  <2> QED
    BY <1>7, <2>1, LocalStepKeeps DEF SizeCall
<1>8. ASSUME SizeReturn(t) PROVE Inv'
  <2>1. Checked'
    BY <1>8 DEF SizeReturn
  <2> QED
    BY <1>8, <2>1, LocalStepKeeps DEF SizeReturn
<1> QED
  BY <1>1, <1>2, <1>3, <1>4, <1>5, <1>6, <1>7, <1>8

(* A push that wins its compare-and-swap owns a raw node nobody else claims.*)
LEMMA PushCasKeeps ==
  ASSUME TypeOK, Inv, NEW t \in Threads, PushCas(t)
  PROVE  Inv'
<1> USE SlotType DEF TypeOK, Inv, PushCas, Goto, Writing, Reading
<1>1. Counters'
  BY CapacityAssumption, SlotNextLap DEF Counters, Checked, Stamps
<1>2. Stamps'
  <2>1. ASSUME NEW s \in Slots, tail = nodeTail[s] + Capacity PROVE FALSE
    <3>1. nodeTail[Slot(tail)] = tail
      BY DEF Checked
    <3>2. Slot(tail) = s
      BY <2>1, SlotNextLap DEF Stamps
    <3> QED
      BY <2>1, <3>1, <3>2, CapacityAssumption
  <2>2. ASSUME NEW s \in Slots PROVE tail + 1 <= nodeTail[s] + Capacity
    <3>1. tail <= nodeTail[s] + Capacity
      BY DEF Stamps
    <3> QED
      BY <2>1, <3>1, CapacityAssumption
  <2> QED
    BY <2>2 DEF Stamps
<1>3. Checked'
  BY DEF Checked
<1>4. Writers'
  BY DEF Writers, Counters, Stamps, Checked
<1>5. Readers'
  BY DEF Readers
<1>6. OneClaim'
  BY DEF OneClaim, Writers
<1>7. Owned'
  <2> SUFFICES ASSUME NEW s \in Slots PROVE
        /\ nodeTail[s] < tail + 1 /\ nodeHead[s] # nodeTail[s]
             => \E u \in Threads : pc'[u] \in Writing /\ idx[u] = nodeTail[s]
        /\ nodeTail[s] < head
             => \E u \in Threads : pc'[u] \in Reading /\ idx[u] = nodeTail[s]
    BY DEF Owned
  <2>1. CASE nodeTail[s] = tail
    BY <2>1 DEF Counters
  <2>2. CASE nodeTail[s] # tail
    <3>1. \A u \in Threads : pc[u] \in Writing \cup Reading => pc'[u] = pc[u]
      OBVIOUS
    <3>2. nodeTail[s] < tail + 1 => nodeTail[s] < tail
      BY <2>2
    <3> QED
      BY <3>1, <3>2 DEF Owned
  <2> QED
    BY <2>1, <2>2
<1> QED
  BY <1>1, <1>2, <1>3, <1>4, <1>5, <1>6, <1>7

(* The construction is in a node of the pushing thread alone.               *)
LEMMA PushConstructKeeps ==
  ASSUME TypeOK, Inv, NEW t \in Threads, PushConstruct(t)
  PROVE  Inv'
<1> USE SlotType DEF TypeOK, Inv, PushConstruct, Goto, Writing, Reading
<1>1. Counters'
  BY DEF Counters
<1>2. Stamps'
  BY DEF Stamps, Writers
<1>3. Checked'
  BY DEF Checked
<1>4. Writers'
  <2> SUFFICES ASSUME NEW u \in Threads, pc'[u] \in Writing
               PROVE  data'[Slot(idx[u])] = NoValue <=> pc'[u] = "pushConstruct"
    BY DEF Writers
  <2>1. CASE u = t
    BY <2>1, NoValueAssumption DEF Checked
  <2>2. CASE u # t
    <3>1. Slot(idx[u]) # Slot(idx[t])
      BY <2>2 DEF Writers, OneClaim
    <3> QED
      BY <2>2, <3>1 DEF Writers
  <2> QED
    BY <2>1, <2>2
<1>5. Readers'
  BY DEF Readers, Writers
<1>6. OneClaim'
  BY DEF OneClaim
<1>7. Owned'
  BY DEF Owned
<1> QED
  BY <1>1, <1>2, <1>3, <1>4, <1>5, <1>6, <1>7

(* The published node is the one its index is looked up in.                 *)
LEMMA PushPublishKeeps ==
  ASSUME TypeOK, Inv, NEW t \in Threads, PushPublish(t)
  PROVE  Inv'
<1> USE SlotType DEF TypeOK, Inv, PushPublish, Goto, Return, Writing, Reading
<1>1. Counters'
  BY DEF Counters
<1>2. Stamps'
  BY DEF Stamps, Writers
<1>3. Checked'
  BY CapacityAssumption DEF Checked, Stamps, Writers
<1>4. Writers'
  BY DEF Writers, OneClaim
<1>5. Readers'
  BY DEF Readers, Writers
<1>6. OneClaim'
  BY DEF OneClaim
<1>7. Owned'
  BY DEF Owned, Stamps, Writers
<1> QED
  BY <1>1, <1>2, <1>3, <1>4, <1>5, <1>6, <1>7

(* A pop that wins its compare-and-swap owns a published, unread node.      *)
LEMMA PopCasKeeps ==
  ASSUME TypeOK, Inv, NEW t \in Threads, PopCas(t)
  PROVE  Inv'
<1> USE SlotType DEF TypeOK, Inv, PopCas, Goto, Writing, Reading
<1>1. Counters'
  BY CapacityAssumption DEF Counters, Checked, Stamps
<1>2. Stamps'
  BY CapacityAssumption DEF Stamps
<1>3. Checked'
  BY DEF Checked
<1>4. Writers'
  <2> SUFFICES ASSUME NEW u \in Threads, pc[u] \in Writing
               PROVE  head + 1 <= idx[u]
    BY DEF Writers
  <2> QED
    BY DEF Writers, Checked
<1>5. Readers'
  <2>1. head < tail /\ nodeTail[Slot(head)] = head /\ data[Slot(head)] # NoValue
    BY CapacityAssumption DEF Checked, Stamps
  <2> QED
    BY <2>1 DEF Readers, Checked
<1>6. OneClaim'
  BY DEF OneClaim, Readers
<1>7. Owned'
  <2> SUFFICES ASSUME NEW s \in Slots PROVE
        /\ nodeTail[s] < tail /\ nodeHead[s] # nodeTail[s]
             => \E u \in Threads : pc'[u] \in Writing /\ idx[u] = nodeTail[s]
        /\ nodeTail[s] < head + 1
             => \E u \in Threads : pc'[u] \in Reading /\ idx[u] = nodeTail[s]
    BY DEF Owned
  <2>1. \A u \in Threads : pc[u] \in Writing \cup Reading => pc'[u] = pc[u]
    OBVIOUS
  <2>2. CASE nodeTail[s] = head
    BY <2>1, <2>2 DEF Owned
  <2>3. CASE nodeTail[s] # head
    BY <2>1, <2>3 DEF Owned
  <2> QED
    BY <2>2, <2>3
<1> QED
  BY <1>1, <1>2, <1>3, <1>4, <1>5, <1>6, <1>7

(* Copying the object out disturbs nothing.                                 *)
LEMMA PopCopyKeeps ==
  ASSUME TypeOK, Inv, NEW t \in Threads, PopCopy(t)
  PROVE  Inv'
<1> USE SlotType DEF TypeOK, Inv, PopCopy, Goto, Writing, Reading
<1>1. Counters'
  BY DEF Counters
<1>2. Stamps'
  BY DEF Stamps
<1>3. Checked'
  BY DEF Checked
<1>4. Writers'
  BY DEF Writers
<1>5. Readers'
  BY DEF Readers
<1>6. OneClaim'
  BY DEF OneClaim
<1>7. Owned'
  BY DEF Owned
<1> QED
  BY <1>1, <1>2, <1>3, <1>4, <1>5, <1>6, <1>7

(* The destruction is in a node of the popping thread alone.                *)
LEMMA PopDestroyKeeps ==
  ASSUME TypeOK, Inv, NEW t \in Threads, PopDestroy(t)
  PROVE  Inv'
<1> USE SlotType DEF TypeOK, Inv, PopDestroy, Goto, Writing, Reading
<1>1. Counters'
  BY DEF Counters
<1>2. Stamps'
  BY DEF Stamps, Readers, Counters
<1>3. Checked'
  BY DEF Checked
<1>4. Writers'
  BY DEF Writers, Readers
<1>5. Readers'
  BY DEF Readers, OneClaim
<1>6. OneClaim'
  BY DEF OneClaim
<1>7. Owned'
  BY DEF Owned
<1> QED
  BY <1>1, <1>2, <1>3, <1>4, <1>5, <1>6, <1>7

(* The released node waits for the push of the next lap.                    *)
LEMMA PopReleaseKeeps ==
  ASSUME TypeOK, Inv, NEW t \in Threads, PopRelease(t)
  PROVE  Inv'
<1> USE SlotType DEF TypeOK, Inv, PopRelease, Goto, Return, Writing, Reading
<1>1. Counters'
  BY DEF Counters
<1>2. Stamps'
  BY CapacityAssumption, SlotNextLap DEF Stamps, Readers, Counters
<1>3. Checked'
  BY CapacityAssumption, SlotNextLap DEF Checked, Readers, Counters
<1>4. Writers'
  BY CapacityAssumption, SlotNextLap DEF Writers, Readers, Counters
<1>5. Readers'
  BY DEF Readers, OneClaim
<1>6. OneClaim'
  BY DEF OneClaim
<1>7. Owned'
  BY CapacityAssumption, SlotNextLap DEF Owned, Readers, OneClaim, Counters, Stamps
<1> QED
  BY <1>1, <1>2, <1>3, <1>4, <1>5, <1>6, <1>7

-----------------------------------------------------------------------------
(* Every step of every thread keeps the invariant, whatever the others do.  *)
THEOREM Invariance == Spec => [](TypeOK /\ Inv)
<1>1. TypeOK /\ Inv /\ [Next]_vars => Inv'
  <2> SUFFICES ASSUME TypeOK, Inv, [Next]_vars PROVE Inv'
    OBVIOUS
  <2>1. CASE UNCHANGED vars
    BY <2>1 DEF vars, Inv, Counters, Stamps, Checked, Writers, Readers, OneClaim, Owned
  <2>2. CASE \E t \in Threads : Call(t)
    BY <2>2, LocalActionsKeep DEF Call
  <2>3. CASE \E t \in Threads : Continue(t)
    BY <2>3, LocalActionsKeep, PushCasKeeps, PushConstructKeeps, PushPublishKeeps,
       PopCasKeeps, PopCopyKeeps, PopDestroyKeeps, PopReleaseKeeps DEF Continue
  <2> QED
    BY <2>1, <2>2, <2>3 DEF Next
<1> QED
  BY <1>1, InvInit, TypeCorrect, PTL DEF Spec

(* The invariant alone, in the form the runs check it.                      *)
THEOREM InvHolds == Spec => []Inv
  BY Invariance, PTL

-----------------------------------------------------------------------------
(* Consequences of the invariant                                            *)

(* No two threads are ever inside the same node.                            *)
THEOREM MutualExclusion == Spec => []SlotExclusive
<1>1. TypeOK /\ Inv => SlotExclusive
  <2> SUFFICES ASSUME TypeOK, Inv, NEW t \in Threads, NEW u \in Threads, t # u,
                      pc[t] \in Writing \cup Reading, pc[u] \in Writing \cup Reading,
                      Slot(idx[t]) = Slot(idx[u])
               PROVE  FALSE
    BY DEF SlotExclusive
  <2>1. idx[t] = idx[u]
    BY DEF Inv, Writers, Readers
  <2>2. pc[t] \in Writing <=> pc[u] \in Writing
    BY <2>1 DEF Inv, Writers, Readers
  <2> QED
    BY <2>1, <2>2 DEF Inv, OneClaim
<1> QED
  BY <1>1, Invariance, PTL

(* Objects are constructed in raw storage, and copied and destroyed alive.  *)
THEOREM LifetimesRespected == Spec => []ObjectLifetime
<1>1. Inv => ObjectLifetime
  BY DEF Inv, Writers, Readers, ObjectLifetime, Writing, Reading
<1> QED
  BY <1>1, Invariance, PTL

(* The subtraction of size() does not wrap.                                 *)
THEOREM SizeIsNatural == Spec => []SizeNeverWraps
<1>1. TypeOK /\ Inv => SizeNeverWraps
  BY DEF TypeOK, Inv, Counters, Checked, SizeNeverWraps, SizeResult
<1> QED
  BY <1>1, Invariance, PTL

(* The node of an index in the queue bears the stamp of that index.         *)
LEMMA StampInQueue ==
  TypeOK /\ Inv => \A i \in head .. tail - 1 : nodeTail[Slot(i)] = i
<1> SUFFICES ASSUME TypeOK, Inv, NEW i \in head .. tail - 1
             PROVE  nodeTail[Slot(i)] = i
  OBVIOUS
<1> DEFINE n == nodeTail[Slot(i)]
<1>1. /\ i \in Nat /\ n \in Nat /\ Slot(n) = Slot(i)
      /\ tail <= n + Capacity /\ n < head + Capacity
  BY SlotType DEF TypeOK, Inv, Stamps
<1>2. ~ (n < i)
  BY <1>1, SlotLap, CapacityAssumption DEF TypeOK
<1>3. ~ (i < n)
  BY <1>1, SlotLap, CapacityAssumption DEF TypeOK
<1> QED
  BY <1>1, <1>2, <1>3

(* At rest the constructed objects are those the destructor will destroy.   *)
THEOREM NothingLeaks == Spec => []DestructorExact
<1>1. TypeOK /\ Inv => DestructorExact
  <2> SUFFICES ASSUME TypeOK, Inv, \A t \in Threads : pc[t] = "idle", NEW s \in Slots
               PROVE  data[s] # NoValue <=> \E i \in head .. tail - 1 : s = Slot(i)
    BY DEF DestructorExact
  <2>1. /\ nodeTail[s] < tail => nodeHead[s] = nodeTail[s]
        /\ nodeTail[s] >= head
    BY DEF TypeOK, Inv, Owned, Writing, Reading
  <2>2. ASSUME data[s] # NoValue PROVE \E i \in head .. tail - 1 : s = Slot(i)
    <3>1. nodeTail[s] \in head .. tail - 1
      BY <2>1, <2>2 DEF TypeOK, Inv, Stamps
    <3> QED
      BY <3>1 DEF Inv, Stamps
  <2>3. ASSUME NEW i \in head .. tail - 1, s = Slot(i) PROVE data[s] # NoValue
    BY <2>1, <2>3, StampInQueue DEF TypeOK, Inv, Stamps
  <2> QED
    BY <2>2, <2>3
<1> QED
  BY <1>1, Invariance, PTL

(* A call that fails on the index next in turn has a cause.                 *)
THEOREM FailuresExplained == Spec => FailsForAReason
<1>1. ASSUME TypeOK, Inv, [Next]_vars, NEW t \in Threads,
             pc[t] = "pushCheck", pc'[t] = "idle", idx[t] = tail
      PROVE  \/ tail - head = Capacity
             \/ \E u \in Threads : pc[u] \in Reading /\ idx[u] = tail - Capacity
  <2> DEFINE n == nodeTail[Slot(tail)]
  <2>1. n # tail
    BY <1>1 DEF Next, vars, Call, Continue, Goto, Return, TypeOK, PushCall, PushCheck,
       PushAdmitted, PushCas, PushCasFails, PushConstruct, PushPublish, PopCall, PopCheck,
       PopCas, PopCasFails, PopCopy, PopDestroy, PopRelease, SizeCall, SizeReturn
  <2>2. /\ tail \in Nat /\ n \in Nat /\ Slot(n) = Slot(tail)
        /\ tail <= n + Capacity /\ n < head + Capacity /\ head <= tail
    BY <1>1, SlotType DEF TypeOK, Inv, Counters, Stamps
  <2> HIDE DEF n
  <2>3. n = tail - Capacity
    <3>1. head \in Nat
      BY <1>1 DEF TypeOK
    <3>2. CASE n < tail
      BY <2>2, <3>2, SlotLap, CapacityAssumption
    <3>3. CASE tail < n
      BY <2>2, <3>1, <3>3, SlotLap, CapacityAssumption
    <3> QED
      BY <2>1, <2>2, <3>2, <3>3
  <2>4. CASE n < head
    BY <2>2, <2>3, <2>4, <1>1, SlotType DEF n, Inv, Owned
  <2>5. CASE n >= head
    BY <2>2, <2>3, <2>5, <1>1, CapacityAssumption DEF TypeOK, Inv, Counters
  <2> QED
    BY <2>2, <2>4, <2>5, <1>1 DEF TypeOK
<1>2. ASSUME TypeOK, Inv, [Next]_vars, NEW t \in Threads,
             pc[t] = "popCheck", pc'[t] = "idle", idx[t] = head
      PROVE  tail = head \/ \E u \in Threads : pc[u] \in Writing /\ idx[u] = head
  <2>1. nodeHead[Slot(head)] # head
    BY <1>2 DEF Next, vars, Call, Continue, Goto, Return, TypeOK, PushCall, PushCheck,
       PopAdmitted, PushCas, PushCasFails, PushConstruct, PushPublish, PopCall, PopCheck,
       PopCas, PopCasFails, PopCopy, PopDestroy, PopRelease, SizeCall, SizeReturn
  <2>2. CASE head < tail
    <3>1. nodeTail[Slot(head)] = head /\ Slot(head) \in Slots
      BY <1>2, <2>2, StampInQueue, SlotType DEF TypeOK
    <3> QED
      BY <2>1, <2>2, <3>1, <1>2 DEF Inv, Owned
  <2> QED
    BY <2>2, <1>2 DEF TypeOK, Inv, Counters
<1>3. TypeOK /\ Inv /\ [Next]_vars =>
        [\A t \in Threads :
           /\ (pc[t] = "pushCheck" /\ pc'[t] = "idle" /\ idx[t] = tail)
                => \/ tail - head = Capacity
                   \/ \E u \in Threads : pc[u] \in Reading /\ idx[u] = tail - Capacity
           /\ (pc[t] = "popCheck" /\ pc'[t] = "idle" /\ idx[t] = head)
                => \/ tail = head
                   \/ \E u \in Threads : pc[u] \in Writing /\ idx[u] = head]_vars
  BY <1>1, <1>2
<1> QED
  BY <1>3, Invariance, PTL DEF Spec, FailsForAReason

-----------------------------------------------------------------------------
(* The queue implements the abstract FIFO queue                             *)

(* The items that are in the queue.                                         *)
ItemsRange == {Item(head + i - 1) : i \in 1 .. tail - head}

(* Items is the sequence it is meant to be.                                 *)
ItemsShape ==
  /\ Items \in Seq(ItemsRange)
  /\ Len(Items) = tail - head
  /\ \A i \in 1 .. tail - head, k \in Nat : k = head + i - 1 => Items[i] = Item(k)

(* The mapped queue is a sequence of tail - head items.                     *)
LEMMA ItemsHaveShape == TypeOK /\ Inv => ItemsShape
<1> SUFFICES ASSUME TypeOK, Inv PROVE ItemsShape
  OBVIOUS
<1>1. tail - head \in Nat
  BY DEF TypeOK, Inv, Counters
<1>2. Items \in [1 .. tail - head -> ItemsRange]
  BY DEF Items, ItemsRange
<1>3. Items \in Seq(ItemsRange)
  BY <1>1, <1>2, SeqDef
<1>4. Len(Items) = tail - head
  BY <1>1, <1>2, <1>3, LenProperties
<1> QED
  BY <1>3, <1>4 DEF Items, ItemsShape

(* Thread t has claimed index i and not yet constructed its item.           *)
Constructs(t, i) == pc[t] = "pushConstruct" /\ idx[t] = i

(* An item is the argument of the push about to construct it, if there is   *)
(* one, and the object in its node otherwise.                               *)
ItemsMeaning ==
  \A i \in Nat :
    /\ \A t \in Threads : Constructs(t, i) => Item(i) = arg[t]
    /\ (\A t \in Threads : ~ Constructs(t, i)) => Item(i) = data[Slot(i)]

(* The CHOOSE of Item has one choice only.                                  *)
LEMMA ItemsMean == TypeOK /\ Inv => ItemsMeaning
<1> SUFFICES ASSUME TypeOK, Inv, NEW i \in Nat, NEW t \in Threads, Constructs(t, i)
             PROVE  Item(i) = arg[t]
  BY DEF Item, ItemsMeaning, Constructs
<1> DEFINE u == CHOOSE u \in Threads : pc[u] = "pushConstruct" /\ idx[u] = i
<1>1. u \in Threads /\ pc[u] = "pushConstruct" /\ idx[u] = i
  BY DEF Constructs
<1>2. u = t
  BY <1>1 DEF Inv, OneClaim, Writing, Constructs
<1> QED
  BY <1>2 DEF Item, Constructs

(* Both hold in the state after a step as well.                             *)
LEMMA ItemsNext == (TypeOK /\ Inv)' => ItemsShape' /\ ItemsMeaning'
  BY ItemsHaveShape, ItemsMean, PTL

(* The empty queue is the empty sequence.                                   *)
LEMMA FifoInitially == Init => Abstract!FifoInit
<1> SUFFICES ASSUME Init PROVE Items = <<>> /\ Taken = [t \in Threads |-> NoValue]
  BY DEF Abstract!FifoInit
<1>1. Items = <<>>
  BY DEF Init, Items
<1>2. Taken = [t \in Threads |-> NoValue]
  BY DEF Init, Taken
<1> QED
  BY <1>1, <1>2

(* A step that moves no counter and changes no item leaves the queue alone. *)
LEMMA ItemsKept ==
  ASSUME tail' = tail, head' = head, TypeOK, \A i \in head .. tail - 1 : Item(i)' = Item(i)
  PROVE  Items' = Items
  BY DEF Items, TypeOK

(* A step of a thread that is not about to construct, and does not get      *)
(* there, keeps the items whose nodes it does not write.                    *)
LEMMA ItemKept ==
  ASSUME ItemsMeaning, ItemsMeaning', NEW t \in Threads, NEW i \in Nat,
         \A u \in Threads : Constructs(u, i)' <=> Constructs(u, i),
         \A u \in Threads : Constructs(u, i) => arg'[u] = arg[u],
         data'[Slot(i)] = data[Slot(i)]
  PROVE  Item(i)' = Item(i)
<1>1. CASE \E u \in Threads : Constructs(u, i)
  BY <1>1 DEF ItemsMeaning
<1>2. CASE \A u \in Threads : ~ Constructs(u, i)
  BY <1>2 DEF ItemsMeaning
<1> QED
  BY <1>1, <1>2

(* Only PushCas, PushConstruct, PopCas and PopDestroy touch the counters or *)
(* the objects; every other action leaves the abstract queue alone.         *)
LEMMA QuietActionsStutter ==
  ASSUME TypeOK, Inv, TypeOK', Inv', NEW t \in Threads,
         \/ \E v \in Offers[t] : PushCall(t, v)
         \/ PushCheck(t) \/ PushCasFails(t) \/ PushPublish(t)
         \/ PopCall(t) \/ PopCheck(t) \/ PopCasFails(t) \/ PopCopy(t) \/ PopRelease(t)
         \/ SizeCall(t) \/ SizeReturn(t)
  PROVE  UNCHANGED <<Items, Taken>>
<1> USE DEF PushCall, PushCheck, PushCasFails, PushPublish, PopCall, PopCheck, PopCasFails,
            PopCopy, PopRelease, SizeCall, SizeReturn, Goto, Return, TypeOK
<1>1. UNCHANGED <<tail, head, data>>
  OBVIOUS
<1>2. \A u \in Threads, i \in Nat : Constructs(u, i)' <=> Constructs(u, i)
  BY DEF Constructs
<1>3. \A u \in Threads, i \in Nat : Constructs(u, i) => arg'[u] = arg[u]
  BY DEF Constructs
<1>4. Items' = Items
  <2>1. \A i \in Nat : Item(i)' = Item(i)
    BY <1>1, <1>2, <1>3, ItemsMean, ItemsNext, ItemKept
  <2> QED
    BY <1>1, <2>1, ItemsKept
<1>5. Taken' = Taken
  <2> SUFFICES ASSUME NEW u \in Threads
               PROVE  (IF pc'[u] = "popCopy" THEN data'[Slot(idx'[u])] ELSE res'[u])
                        = (IF pc[u] = "popCopy" THEN data[Slot(idx[u])] ELSE res[u])
    BY DEF Taken
  <2> QED
    BY <1>1
<1> QED
  BY <1>4, <1>5

(* The compare-and-swap on _tail appends the argument.                      *)
LEMMA PushCasEnqueues ==
  ASSUME TypeOK, Inv, TypeOK', Inv', NEW t \in Threads, PushCas(t)
  PROVE  Abstract!Enq(arg[t])
<1> USE DEF TypeOK, PushCas, Goto
<1> SUFFICES /\ arg[t] \in Values
             /\ Len(Items) < Capacity
             /\ Items' = Append(Items, arg[t])
             /\ Taken' = Taken
  BY DEF Abstract!Enq
<1>1. /\ tail' = tail + 1 /\ head' = head /\ tail - head \in Nat
      /\ tail - head < Capacity /\ arg[t] \in Values
  BY CapacityAssumption DEF Inv, Counters, Checked
<1>2. /\ ItemsShape /\ ItemsShape' /\ ItemsMeaning /\ ItemsMeaning'
  BY ItemsHaveShape, ItemsMean, ItemsNext
<1>3. \A i \in head .. tail - 1 : Item(i)' = Item(i)
  <2> SUFFICES ASSUME NEW i \in head .. tail - 1 PROVE Item(i)' = Item(i)
    OBVIOUS
  <2>1. \A u \in Threads : Constructs(u, i)' <=> Constructs(u, i)
    BY DEF Constructs
  <2> QED
    BY <2>1, <1>2, ItemKept
<1>4. \A i \in Nat : i = tail => Item(i)' = arg[t]
  <2> SUFFICES ASSUME NEW i \in Nat, i = tail PROVE Item(i)' = arg[t]
    OBVIOUS
  <2>1. Constructs(t, i)'
    BY DEF Constructs
  <2> QED
    BY <2>1, <1>2 DEF ItemsMeaning
<1>5. Items' = Append(Items, arg[t])
  <2>1. Len(Items') = Len(Items) + 1 /\ Len(Items) = tail - head
    BY <1>1, <1>2 DEF ItemsShape
  <2>2. Items'[Len(Items) + 1] = arg[t]
    BY <1>1, <1>2, <1>4, <2>1 DEF ItemsShape
  <2>3. ASSUME NEW i \in 1 .. Len(Items) PROVE Items'[i] = Items[i]
    <3>1. head + i - 1 \in head .. tail - 1 /\ i \in 1 .. tail - head
      BY <1>1, <2>1
    <3>2. PICK k \in head .. tail - 1 : k = head + i - 1
      BY <3>1
    <3>3. k \in Nat /\ i \in 1 .. tail' - head' /\ k = head' + i - 1
      BY <3>1, <3>2, <1>1
    <3>4. Items'[i] = Item(k)'
      BY <3>3, <1>2 DEF ItemsShape
    <3>5. Items[i] = Item(k)
      BY <3>1, <3>2, <3>3, <1>2 DEF ItemsShape
    <3> QED
      BY <3>4, <3>5, <1>3
  <2>4. Items \in Seq(ItemsRange) /\ Items' \in Seq(ItemsRange')
    BY <1>2 DEF ItemsShape
  <2> HIDE DEF TypeOK, PushCas
  <2> QED
    BY <2>1, <2>2, <2>3, <2>4, IsAppend
<1>6. Taken' = Taken
  BY DEF Taken
<1> QED
  BY <1>1, <1>2, <1>5, <1>6 DEF ItemsShape

(* Constructing the object turns the argument into the same item.           *)
LEMMA PushConstructStutters ==
  ASSUME TypeOK, Inv, TypeOK', Inv', NEW t \in Threads, PushConstruct(t)
  PROVE  UNCHANGED <<Items, Taken>>
<1> USE DEF TypeOK, PushConstruct, Goto
<1>1. ItemsMeaning /\ ItemsMeaning'
  BY ItemsMean, ItemsNext
<1>2. \A i \in head .. tail - 1 : Item(i)' = Item(i)
  <2> SUFFICES ASSUME NEW i \in head .. tail - 1 PROVE Item(i)' = Item(i)
    OBVIOUS
  <2>1. CASE i = idx[t]
    <3>1. \A u \in Threads : ~ Constructs(u, i)'
      BY <2>1 DEF Constructs, Inv, OneClaim, Writing
    <3>2. Item(i)' = data'[Slot(i)]
      BY <3>1, <1>1 DEF ItemsMeaning
    <3>3. Item(i) = arg[t]
      BY <2>1, <1>1 DEF ItemsMeaning, Constructs
    <3> QED
      BY <2>1, <3>2, <3>3, SlotType
  <2>2. CASE i # idx[t]
    <3>1. Slot(i) # Slot(idx[t])
      BY <2>2, StampInQueue DEF Inv, Writers, Writing
    <3>2. \A u \in Threads : Constructs(u, i)' <=> Constructs(u, i)
      BY <2>2 DEF Constructs
    <3> QED
      BY <3>1, <3>2, <1>1, ItemKept, SlotType
  <2> QED
    BY <2>1, <2>2
<1>3. Taken' = Taken
  <2> SUFFICES ASSUME NEW u \in Threads, pc[u] = "popCopy"
               PROVE  data'[Slot(idx[u])] = data[Slot(idx[u])]
    BY DEF Taken
  <2>1. Slot(idx[u]) # Slot(idx[t])
    BY DEF Inv, Writers, Readers, Writing, Reading
  <2> QED
    BY <2>1
<1> QED
  BY <1>2, <1>3, ItemsKept

(* The compare-and-swap on _head takes the oldest item.                     *)
LEMMA PopCasDequeues ==
  ASSUME TypeOK, Inv, TypeOK', Inv', NEW t \in Threads, PopCas(t)
  PROVE  Abstract!Deq(t)
<1> USE DEF TypeOK, PopCas, Goto
<1> SUFFICES /\ Items # <<>>
             /\ Taken' = [Taken EXCEPT ![t] = Head(Items)]
             /\ Items' = Tail(Items)
  BY DEF Abstract!Deq
<1>1. /\ idx[t] = head /\ head < tail /\ nodeTail[Slot(head)] = head
      /\ nodeHead[Slot(head)] = head
  BY CapacityAssumption, SlotType DEF Inv, Checked, Stamps
<1>2. /\ ItemsShape /\ ItemsShape' /\ ItemsMeaning /\ ItemsMeaning'
  BY ItemsHaveShape, ItemsMean, ItemsNext
<1>3. \A i \in Nat : Item(i)' = Item(i)
  <2>1. \A u \in Threads, i \in Nat : Constructs(u, i)' <=> Constructs(u, i)
    BY DEF Constructs
  <2> QED
    BY <2>1, <1>2, ItemKept
<1>4. Item(head) = data[Slot(head)]
  <2>1. \A u \in Threads : ~ Constructs(u, head)
    BY <1>1 DEF Constructs, Inv, Writers, Writing
  <2> QED
    BY <2>1, <1>2 DEF ItemsMeaning
<1>5. Items # <<>> /\ Head(Items) = Item(head)
  BY <1>1, <1>2 DEF ItemsShape
<1>6. Items' = Tail(Items)
  <2>1. /\ Len(Items') = Len(Items) - 1 /\ Len(Items) = tail - head
        /\ tail' = tail /\ head' = head + 1
    BY <1>1, <1>2 DEF ItemsShape
  <2>2. ASSUME NEW i \in 1 .. Len(Items') PROVE Items'[i] = Items[i + 1]
    <3>1. PICK k \in Nat : k = head + i
      OBVIOUS
    <3>2. Items'[i] = Item(k)'
      <4>1. i \in 1 .. (tail - head) - 1 /\ head \in Nat /\ tail \in Nat
        BY <2>1
      <4> HIDE DEF TypeOK, PopCas, Goto
      <4>2. tail' - head' = (tail - head) - 1 /\ head' + i - 1 = head + i
        BY <2>1, <4>1
      <4>3. i \in 1 .. tail' - head' /\ k = head' + i - 1
        BY <3>1, <4>1, <4>2
      <4> QED
        BY <4>3, <1>2 DEF ItemsShape
    <3>3. Items[i + 1] = Item(k)
      <4>1. i + 1 \in 1 .. tail - head /\ k = head + (i + 1) - 1
        BY <3>1, <1>1, <2>1
      <4> QED
        BY <4>1, <1>2 DEF ItemsShape
    <3> QED
      BY <3>2, <3>3, <1>3
  <2>3. Items \in Seq(ItemsRange) /\ Items' \in Seq(ItemsRange')
    BY <1>2 DEF ItemsShape
  <2> HIDE DEF TypeOK, PopCas
  <2> QED
    BY <1>5, <2>1, <2>2, <2>3, IsTail
<1>7. Taken' = [Taken EXCEPT ![t] = Head(Items)]
  BY <1>1, <1>4, <1>5 DEF Taken
<1> QED
  BY <1>5, <1>6, <1>7

(* The object destroyed is no item any more.                                *)
LEMMA PopDestroyStutters ==
  ASSUME TypeOK, Inv, TypeOK', Inv', NEW t \in Threads, PopDestroy(t)
  PROVE  UNCHANGED <<Items, Taken>>
<1> USE DEF TypeOK, PopDestroy, Goto
<1>1. \A i \in head .. tail - 1 : Item(i)' = Item(i)
  <2> SUFFICES ASSUME NEW i \in head .. tail - 1 PROVE Item(i)' = Item(i)
    OBVIOUS
  <2>1. Slot(i) # Slot(idx[t])
    BY StampInQueue DEF Inv, Readers, Reading
  <2>2. \A u \in Threads : Constructs(u, i)' <=> Constructs(u, i)
    BY DEF Constructs
  <2> QED
    BY <2>1, <2>2, ItemsMean, ItemsNext, ItemKept, SlotType
<1>2. Taken' = Taken
  <2> SUFFICES ASSUME NEW u \in Threads, pc[u] = "popCopy"
               PROVE  data'[Slot(idx[u])] = data[Slot(idx[u])]
    BY DEF Taken
  <2>1. Slot(idx[u]) # Slot(idx[t])
    BY DEF Inv, Readers, OneClaim, Reading
  <2> QED
    BY <2>1
<1> QED
  BY <1>1, <1>2, ItemsKept

(* Whatever the threads do, what they see is a bounded FIFO queue: pushes   *)
(* take effect in the order of their compare-and-swaps on _tail, and every  *)
(* pop returns the oldest item at its compare-and-swap on _head.            *)
THEOREM Refinement == Spec => ImplementsFifo
<1>1. TypeOK /\ Inv /\ (TypeOK /\ Inv)' /\ [Next]_vars
        => [Abstract!FifoNext]_(<<Items, Taken>>)
  <2> SUFFICES ASSUME TypeOK, Inv, TypeOK', Inv', [Next]_vars
               PROVE  Abstract!FifoNext \/ UNCHANGED <<Items, Taken>>
    OBVIOUS
  <2>1. CASE UNCHANGED vars
    BY <2>1 DEF vars, Items, Taken, Item
  <2>2. ASSUME NEW t \in Threads, PushCas(t) PROVE Abstract!FifoNext
    <3>1. arg[t] \in Values
      BY <2>2 DEF PushCas, Inv, Checked
    <3> QED
      BY <2>2, <3>1, PushCasEnqueues DEF Abstract!FifoNext
  <2>3. ASSUME NEW t \in Threads, PopCas(t) PROVE Abstract!FifoNext
    BY <2>3, PopCasDequeues DEF Abstract!FifoNext
  <2>4. CASE Next
    BY <2>2, <2>3, <2>4, QuietActionsStutter, PushConstructStutters, PopDestroyStutters
       DEF Next, Call, Continue
  <2> QED
    BY <2>1, <2>4
<1> QED
  BY <1>1, FifoInitially, InvInit, Invariance, PTL
     DEF Spec, ImplementsFifo, Abstract!FifoSpec, Abstract!fifoVars

=============================================================================
