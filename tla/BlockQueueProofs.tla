--------------------------- MODULE BlockQueueProofs ---------------------------
(***************************************************************************)
(* Safety of BlockQueue for any finite number of threads: no wake-up is    *)
(* lost, an abort reaches everybody, the codes of Dequeue keep their       *)
(* meaning, and the queue is a FIFO queue.                                 *)
(***************************************************************************)
EXTENDS BlockQueue, SequenceTheorems, FiniteSetTheorems, TLAPS

(* What Append and Tail do to the length of the queue.                      *)
LEMMA Lengths ==
  ASSUME TypeOK
  PROVE  /\ Len(queue) \in Nat
         /\ \A v \in Values : Append(queue, v) \in Seq(Values) /\ Len(Append(queue, v)) = Len(queue) + 1
         /\ queue # <<>> => /\ Tail(queue) \in Seq(Values)
                            /\ Len(Tail(queue)) = Len(queue) - 1
                            /\ Head(queue) \in Values
         /\ queue = <<>> => Len(queue) = 0
  BY AppendProperties, HeadTailProperties, LenProperties DEF TypeOK

LEMMA AwakeFinite == IsFiniteSet(Awake) /\ Cardinality(Awake) \in Nat
  BY ThreadsAssumption, FS_Subset, FS_CardinalityType DEF Awake

LEMMA AwakeFinitePrime == IsFiniteSet(Awake') /\ Cardinality(Awake') \in Nat
  BY ThreadsAssumption, FS_Subset, FS_CardinalityType DEF Awake

-----------------------------------------------------------------------------
(* How a step of one thread moves it between the two sets.                  *)

LEMMA OneWakes ==
  ASSUME TypeOK, NEW w \in Waiting, NEW s \in {"woken", "expired"},
         pc' = [pc EXCEPT ![w] = s]
  PROVE  /\ pc' \in [Threads -> {"idle", "waiting", "woken", "expired"}]
         /\ Waiting' = Waiting \ {w}
         /\ Cardinality(Awake') = Cardinality(Awake) + 1
<1>1. Awake' = Awake \cup {w} /\ w \notin Awake
  BY DEF TypeOK, Waiting, Awake
<1>2. Cardinality(Awake') = Cardinality(Awake) + 1
  BY <1>1, AwakeFinite, FS_AddElement
<1> QED
  BY <1>2 DEF TypeOK, Waiting

LEMMA OneLeaves ==
  ASSUME TypeOK, NEW t \in Threads, pc[t] # "waiting", pc' = [pc EXCEPT ![t] = "idle"]
  PROVE  /\ pc' \in [Threads -> {"idle", "waiting", "woken", "expired"}]
         /\ Waiting' = Waiting
         /\ Cardinality(Awake') >= Cardinality(Awake) - 1
         /\ pc[t] = "idle" => Awake' = Awake
<1>1. Awake' = Awake \ {t}
  BY DEF TypeOK, Awake
<1>2. Cardinality(Awake') >= Cardinality(Awake) - 1
  BY <1>1, AwakeFinite, AwakeFinitePrime, FS_RemoveElement
<1>3. pc[t] = "idle" => Awake' = Awake
  BY <1>1 DEF Awake
<1> QED
  BY <1>2, <1>3 DEF TypeOK, Waiting

LEMMA NotifyOneKeeps ==
  ASSUME TypeOK, NotifyOne
  PROVE  /\ pc' \in [Threads -> {"idle", "waiting", "woken", "expired"}]
         /\ Waiting' \subseteq Waiting
         /\ Waiting # {} => Cardinality(Awake') = Cardinality(Awake) + 1
<1>1. CASE Waiting = {}
  BY <1>1 DEF NotifyOne, TypeOK, Waiting
<1>2. CASE Waiting # {}
  <2>1. PICK w \in Waiting : pc' = [pc EXCEPT ![w] = "woken"]
    BY <1>2 DEF NotifyOne
  <2> QED
    BY <2>1, OneWakes
<1> QED
  BY <1>1, <1>2

-----------------------------------------------------------------------------
LEMMA InvInit == Init => Inv
<1> SUFFICES ASSUME Init PROVE Inv
  OBVIOUS
<1> USE DEF Init
<1>1. queue \in Seq(Values) /\ Len(queue) = 0
  BY EmptySeq
<1>2. /\ code \in [Threads -> {Aborted, TimedOut, Received, NotCalled}]
      /\ val \in [Threads -> Values \cup {NoValue}]
      /\ pc \in [Threads -> {"idle", "waiting", "woken", "expired"}]
  OBVIOUS
<1>3. TypeOK
  <2>1. enqueued \in 0 .. MaxItems /\ Len(queue) <= enqueued
    BY <1>1, MaxItemsAssumption
  <2>2. abort \in BOOLEAN
    OBVIOUS
  <2> HIDE DEF Init
  <2> QED
    BY <1>1, <1>2, <2>1, <2>2 DEF TypeOK
<1>4. Waiting = {}
  BY DEF Waiting
<1> QED
  BY <1>3, <1>4 DEF Inv, NoLostWakeup, AbortReachesAll

(* Dequeue, or the rest of it, when it does not wait.                       *)
LEMMA LeaveKeeps ==
  ASSUME Inv, NEW t \in Threads, pc[t] # "waiting", Leave(t), UNCHANGED <<abort, enqueued>>,
         pc[t] = "idle" => Ready
  PROVE  Inv'
<1> USE DEF Inv, Leave
<1>1. /\ pc' \in [Threads -> {"idle", "waiting", "woken", "expired"}]
      /\ Waiting' = Waiting
      /\ Cardinality(Awake') >= Cardinality(Awake) - 1
      /\ pc[t] = "idle" => Awake' = Awake
  BY OneLeaves
<1>2. TypeOK'
  <2>1. queue' \in Seq(Values) /\ Len(queue') <= enqueued'
    <3>1. /\ Len(queue) \in Nat /\ enqueued \in Nat /\ Len(queue) <= enqueued
          /\ queue # <<>> => /\ Tail(queue) \in Seq(Values)
                             /\ Len(Tail(queue)) = Len(queue) - 1
      BY Lengths, MaxItemsAssumption DEF TypeOK
    <3>2. CASE queue' = queue
      BY <3>1, <3>2 DEF TypeOK
    <3>3. CASE queue # <<>> /\ queue' = Tail(queue)
      BY <3>1, <3>3
    <3> QED
      BY <3>2, <3>3
  <2>2. val' \in [Threads -> Values \cup {NoValue}]
    BY Lengths DEF TypeOK
  <2>3. code' \in [Threads -> {Aborted, TimedOut, Received, NotCalled}]
    BY DEF TypeOK
  <2> QED
    BY <1>1, <2>1, <2>2, <2>3 DEF TypeOK
<1>3. AbortReachesAll'
  BY <1>1 DEF AbortReachesAll
<1>4. NoLostWakeup'
  <2>1. CASE abort
    BY <2>1, <1>1 DEF AbortReachesAll, NoLostWakeup
  <2>2. CASE ~abort /\ queue = <<>>
    BY <2>2, Lengths, AwakeFinitePrime DEF NoLostWakeup
  <2>3. CASE ~abort /\ queue # <<>>
    BY <2>3, <1>1, Lengths, AwakeFinite, AwakeFinitePrime DEF NoLostWakeup
  <2> QED
    BY <2>1, <2>2, <2>3
<1> QED
  BY <1>2, <1>3, <1>4

LEMMA WaitKeeps ==
  ASSUME Inv, NEW t \in Threads, ~Ready, Wait(t), UNCHANGED <<abort, enqueued>>
  PROVE  Inv'
<1> USE DEF Inv, Wait, Ready
<1>1. TypeOK'
  BY DEF TypeOK
<1>2. NoLostWakeup'
  BY Lengths, AwakeFinitePrime DEF NoLostWakeup
<1>3. AbortReachesAll'
  BY DEF AbortReachesAll
<1> QED
  BY <1>1, <1>2, <1>3

LEMMA InvNext == Inv /\ [Next]_vars => Inv'
<1> SUFFICES ASSUME Inv, [Next]_vars PROVE Inv'
  OBVIOUS
<1> USE DEF Inv
<1>1. ASSUME NEW t \in Threads, NEW v \in Values, Enqueue(t, v) PROVE Inv'
  <2> USE <1>1 DEF Enqueue
  <2>1. /\ pc' \in [Threads -> {"idle", "waiting", "woken", "expired"}]
        /\ Waiting' \subseteq Waiting
        /\ Waiting # {} => Cardinality(Awake') = Cardinality(Awake) + 1
    BY NotifyOneKeeps
  <2>2. TypeOK'
    BY <2>1, Lengths, MaxItemsAssumption DEF TypeOK
  <2>3. NoLostWakeup'
    BY <2>1, Lengths, AwakeFinite DEF NoLostWakeup
  <2>4. AbortReachesAll'
    BY <2>1 DEF AbortReachesAll
  <2> QED
    BY <2>2, <2>3, <2>4
<1>2. ASSUME NEW t \in Threads, Dequeue(t) PROVE Inv'
  BY <1>2, LeaveKeeps, WaitKeeps DEF Dequeue
<1>3. ASSUME NEW t \in Threads, Resume(t) PROVE Inv'
  BY <1>3, LeaveKeeps, WaitKeeps DEF Resume
<1>4. ASSUME NEW t \in Threads, Expire(t) \/ SpuriousWake(t) PROVE Inv'
  <2>1. /\ t \in Waiting
        /\ UNCHANGED <<queue, abort, code, val, enqueued>>
        /\ \E s \in {"woken", "expired"} : pc' = [pc EXCEPT ![t] = s]
    BY <1>4 DEF Expire, SpuriousWake, Waiting
  <2>2. /\ pc' \in [Threads -> {"idle", "waiting", "woken", "expired"}]
        /\ Waiting' = Waiting \ {t}
        /\ Cardinality(Awake') = Cardinality(Awake) + 1
    BY <2>1, OneWakes
  <2>3. TypeOK' /\ AbortReachesAll'
    BY <2>1, <2>2 DEF TypeOK, AbortReachesAll
  <2>4. NoLostWakeup'
    BY <2>1, <2>2, Lengths, AwakeFinite DEF NoLostWakeup
  <2> QED
    BY <2>3, <2>4
<1>5. ASSUME NEW t \in Threads, Abort(t) PROVE Inv'
  <2>1. Waiting' = {}
    BY <1>5 DEF Abort, Waiting, TypeOK
  <2>2. TypeOK'
    BY <1>5 DEF Abort, TypeOK
  <2> QED
    BY <2>1, <2>2 DEF NoLostWakeup, AbortReachesAll
<1>6. CASE UNCHANGED vars
  BY <1>6 DEF vars, TypeOK, NoLostWakeup, AbortReachesAll, Waiting, Awake
<1> QED
  BY <1>1, <1>2, <1>3, <1>4, <1>5, <1>6 DEF Next

-----------------------------------------------------------------------------
LEMMA InvAlways == Spec => []Inv
  BY InvInit, InvNext, PTL DEF Spec

(* The queue, the flag and the callers stay in their types.                 *)
THEOREM TypeCorrect == Spec => []TypeOK
<1>1. Inv => TypeOK
  BY DEF Inv
<1> QED
  BY <1>1, InvAlways, PTL

(* While a Dequeue sleeps, every packet has a woken thread coming for it,   *)
(* for any number of threads and packets.                                   *)
THEOREM NoWakeupLost == Spec => []NoLostWakeup
<1>1. Inv => NoLostWakeup
  BY DEF Inv
<1> QED
  BY <1>1, InvAlways, PTL

(* After an Abort no Dequeue sleeps.                                        *)
THEOREM AbortHeard == Spec => []AbortReachesAll
<1>1. Inv => AbortReachesAll
  BY DEF Inv
<1> QED
  BY <1>1, InvAlways, PTL

-----------------------------------------------------------------------------
(* Dequeue returns -1 after an abort, 0 only when its time is over and the  *)
(* queue is empty, and takes nothing from an aborted queue.                 *)
THEOREM CodesRight == Spec => CodesMeanWhatTheySay
<1> DEFINE Codes(t) ==
      /\ (abort /\ code'[t] # code[t]) => code'[t] = Aborted
      /\ (pc[t] # "idle" /\ pc'[t] = "idle" /\ code'[t] = TimedOut)
           => pc[t] = "expired" /\ queue = <<>>
      /\ abort => queue' = queue \/ Len(queue') > Len(queue)
<1>1. ASSUME Inv, Next, NEW t \in Threads PROVE Codes(t)
  <2> USE <1>1 DEF Inv
  <2>1. ASSUME NEW u \in Threads, NEW v \in Values, Enqueue(u, v) PROVE Codes(t)
    <3>1. NotifyOne /\ code' = code /\ Len(queue') > Len(queue)
      BY <2>1, Lengths DEF Enqueue
    <3>2. pc'[t] = "idle" => pc[t] = "idle"
      BY <3>1 DEF NotifyOne, Waiting, TypeOK
    <3> QED
      BY <3>1, <3>2
  <2>2. ASSUME NEW u \in Threads, Dequeue(u) \/ Resume(u) PROVE Codes(t)
    BY <2>2 DEF Dequeue, Resume, Leave, Wait, Ready, TypeOK, Aborted, TimedOut, Received
  <2>3. ASSUME NEW u \in Threads, Expire(u) \/ SpuriousWake(u) \/ Abort(u) PROVE Codes(t)
    BY <2>3 DEF Expire, SpuriousWake, Abort, Waiting, TypeOK
  <2> QED
    BY <1>1, <2>1, <2>2, <2>3 DEF Next
<1>2. Inv /\ [Next]_vars => [\A t \in Threads : Codes(t)]_vars
  BY <1>1
<1> QED
  BY <1>2, InvAlways, PTL DEF Spec, CodesMeanWhatTheySay

(* BlockQueue implements the FIFO queue, in which Enqueue and Dequeue take  *)
(* effect within their critical sections.                                   *)
THEOREM Refinement == Spec => ImplementsFifo
<1>1. Init => Abstract!FifoInit
  BY DEF Init, Abstract!FifoInit
<1>2. Inv /\ [Next]_vars => [Abstract!FifoNext]_(<<queue, val>>)
  <2> SUFFICES ASSUME Inv, [Next]_vars
               PROVE  Abstract!FifoNext \/ UNCHANGED <<queue, val>>
    OBVIOUS
  <2>1. ASSUME NEW t \in Threads, NEW v \in Values, Enqueue(t, v) PROVE Abstract!FifoNext
    <3>1. Len(queue) < MaxItems
      BY <2>1, Lengths, MaxItemsAssumption DEF Inv, TypeOK, Enqueue
    <3> QED
      BY <2>1, <3>1 DEF Enqueue, Abstract!FifoNext, Abstract!Enq
  <2>2. ASSUME NEW t \in Threads, Leave(t) PROVE Abstract!FifoNext \/ UNCHANGED <<queue, val>>
    BY <2>2 DEF Leave, Abstract!FifoNext, Abstract!Deq
  <2>3. ASSUME NEW t \in Threads, Dequeue(t) \/ Resume(t)
        PROVE  Abstract!FifoNext \/ UNCHANGED <<queue, val>>
    BY <2>2, <2>3 DEF Dequeue, Resume, Wait
  <2> QED
    BY <2>1, <2>3 DEF Next, vars, Expire, SpuriousWake, Abort
<1> QED
  BY <1>1, <1>2, InvAlways, PTL
  DEF Spec, ImplementsFifo, Abstract!FifoSpec, Abstract!fifoVars
=============================================================================
