------------------------------ MODULE BlockQueue ------------------------------
(***************************************************************************)
(* BlockQueue (DataStructures/BlockQueue.h): a std::queue behind one mutex *)
(* and one condition variable, with a time limit on Dequeue and an Abort   *)
(* that is never taken back.                                               *)
(*                                                                         *)
(* All state is accessed with mutex_ held, so an action is one critical    *)
(* section: from a lock, or from waking up, to the next unlock or wait.    *)
(***************************************************************************)
EXTENDS Integers, Sequences, FiniteSets

CONSTANTS Threads,   (* the callers                                          *)
          Values,    (* the packets                                          *)
          NoValue,   (* a caller that has not dequeued anything yet          *)
          MaxItems   (* bound: the packets enqueued in a behaviour           *)

ASSUME ThreadsAssumption == IsFiniteSet(Threads)
ASSUME ValuesAssumption == NoValue \notin Values
ASSUME MaxItemsAssumption == MaxItems \in Nat

VARIABLES queue,     (* queue_                                               *)
          abort,     (* abort_request_                                       *)
          pc,        (* "idle", or where its Dequeue is                      *)
          code,      (* code[t]: what Dequeue returned to t last             *)
          val,       (* val[t]: the reference argument of t's Dequeue        *)
          enqueued   (* the packets enqueued so far                          *)

vars == <<queue, abort, pc, code, val, enqueued>>

Aborted == -1
TimedOut == 0
Received == 1
NotCalled == 2       (* no Dequeue of this thread has returned               *)

Init == /\ queue = <<>>
        /\ abort = FALSE
        /\ pc = [t \in Threads |-> "idle"]
        /\ code = [t \in Threads |-> NotCalled]
        /\ val = [t \in Threads |-> NoValue]
        /\ enqueued = 0

(* The threads in the wait set of cond_, and those that have left it but    *)
(* have not yet got mutex_ back.                                            *)
Waiting == {t \in Threads : pc[t] = "waiting"}
Awake == {t \in Threads : pc[t] \in {"woken", "expired"}}

(* Mutant: Enqueue wakes somebody only when the queue was empty.            *)
NotifyOneIfFirst ==
  IF Waiting = {} \/ queue # <<>> THEN UNCHANGED pc
  ELSE \E w \in Waiting : pc' = [pc EXCEPT ![w] = "woken"]

NotifyOne ==
  IF Waiting = {} THEN UNCHANGED pc
  ELSE \E w \in Waiting : pc' = [pc EXCEPT ![w] = "woken"]

(* Mutant: the packet jumps the queue.                                      *)
EnqueueAtFront(t, v) ==
  /\ pc[t] = "idle"
  /\ enqueued < MaxItems
  /\ enqueued' = enqueued + 1
  /\ queue' = <<v>> \o queue
  /\ NotifyOne
  /\ UNCHANGED <<abort, code, val>>

Enqueue(t, v) ==
  /\ pc[t] = "idle"
  /\ enqueued < MaxItems
  /\ enqueued' = enqueued + 1
  /\ queue' = Append(queue, v)
  /\ NotifyOne
  /\ UNCHANGED <<abort, code, val>>

(* The predicate of wait_for.                                               *)
Ready == queue # <<>> \/ abort

(* Mutant: Dequeue drains the queue before it heeds an abort.               *)
LeaveDrainsFirst(t) ==
  /\ pc' = [pc EXCEPT ![t] = "idle"]
  /\ \/ /\ queue # <<>>
        /\ code' = [code EXCEPT ![t] = Received]
        /\ val' = [val EXCEPT ![t] = Head(queue)]
        /\ queue' = Tail(queue)
     \/ /\ queue = <<>>
        /\ code' = [code EXCEPT ![t] = IF abort THEN Aborted ELSE TimedOut]
        /\ UNCHANGED <<queue, val>>

(* What Dequeue does once it waits no more.                                 *)
Leave(t) ==
  /\ pc' = [pc EXCEPT ![t] = "idle"]
  /\ \/ /\ abort
        /\ code' = [code EXCEPT ![t] = Aborted]
        /\ UNCHANGED <<queue, val>>
     \/ /\ ~abort
        /\ queue = <<>>
        /\ code' = [code EXCEPT ![t] = TimedOut]
        /\ UNCHANGED <<queue, val>>
     \/ /\ ~abort
        /\ queue # <<>>
        /\ code' = [code EXCEPT ![t] = Received]
        /\ val' = [val EXCEPT ![t] = Head(queue)]
        /\ queue' = Tail(queue)

Wait(t) ==
  /\ pc' = [pc EXCEPT ![t] = "waiting"]
  /\ UNCHANGED <<queue, code, val>>

Dequeue(t) ==
  /\ pc[t] = "idle"
  /\ IF Ready THEN Leave(t) ELSE Wait(t)
  /\ UNCHANGED <<abort, enqueued>>

(* The time limit is an absolute deadline: a thread that waits again after  *)
(* a wake-up still reaches it.                                              *)
Expire(t) ==
  /\ pc[t] = "waiting"
  /\ pc' = [pc EXCEPT ![t] = "expired"]
  /\ UNCHANGED <<queue, abort, code, val, enqueued>>

SpuriousWake(t) ==
  /\ pc[t] = "waiting"
  /\ pc' = [pc EXCEPT ![t] = "woken"]
  /\ UNCHANGED <<queue, abort, code, val, enqueued>>

(* Mutant: the time limit is forgotten when the queue is still empty.       *)
ResumeWaitsOn(t) ==
  /\ pc[t] \in {"woken", "expired"}
  /\ IF Ready THEN Leave(t) ELSE Wait(t)
  /\ UNCHANGED <<abort, enqueued>>

(* A thread that was woken waits again if the predicate is still false; one *)
(* whose time is over goes on, and takes a packet that came after all.      *)
Resume(t) ==
  /\ \/ /\ pc[t] = "woken"
        /\ IF Ready THEN Leave(t) ELSE Wait(t)
     \/ /\ pc[t] = "expired"
        /\ Leave(t)
  /\ UNCHANGED <<abort, enqueued>>

(* Mutant: Abort wakes one thread only.                                     *)
AbortNotifiesOne(t) ==
  /\ pc[t] = "idle"
  /\ abort' = TRUE
  /\ NotifyOne
  /\ UNCHANGED <<queue, code, val, enqueued>>

Abort(t) ==
  /\ pc[t] = "idle"
  /\ abort' = TRUE
  /\ pc' = [u \in Threads |-> IF u \in Waiting THEN "woken" ELSE pc[u]]
  /\ UNCHANGED <<queue, code, val, enqueued>>

Next == \E t \in Threads :
          \/ \E v \in Values : Enqueue(t, v)
          \/ Dequeue(t) \/ Expire(t) \/ SpuriousWake(t) \/ Resume(t)
          \/ Abort(t)

Spec == Init /\ [][Next]_vars

(* The clock goes on and mutex_, which is never held across a wait, is had  *)
(* in the end.  Expire is strongly fair because a wake-up only interrupts   *)
(* the wait for a deadline that stays where it is.                          *)
FairSpec == Spec /\ \A t \in Threads : SF_vars(Expire(t)) /\ WF_vars(Resume(t))

-----------------------------------------------------------------------------
TypeOK ==
  /\ queue \in Seq(Values)
  /\ abort \in BOOLEAN
  /\ pc \in [Threads -> {"idle", "waiting", "woken", "expired"}]
  /\ code \in [Threads -> {Aborted, TimedOut, Received, NotCalled}]
  /\ val \in [Threads -> Values \cup {NoValue}]
  /\ enqueued \in 0 .. MaxItems
  /\ Len(queue) <= enqueued

(* No wake-up is lost: while somebody waits, every packet in the queue has  *)
(* a thread on its way to it, although other callers may overtake a woken   *)
(* thread, a time limit may expire and a thread may wake for nothing.       *)
NoLostWakeup == Waiting # {} => Len(queue) <= Cardinality(Awake)

(* "-1 abort; 1 got a message; 0 timed out": after an Abort nobody waits    *)
(* and no call that ends later gets a packet, even from a queue that holds  *)
(* some; a call ends with 0 only after its own time is over and with the    *)
(* queue empty.                                                             *)
AbortReachesAll == abort => Waiting = {}

(* Inductive: a woken thread that leaves without a packet has met an abort. *)
Inv == TypeOK /\ NoLostWakeup /\ AbortReachesAll

CodesMeanWhatTheySay ==
  [][\A t \in Threads :
       /\ (abort /\ code'[t] # code[t]) => code'[t] = Aborted
       /\ (pc[t] # "idle" /\ pc'[t] = "idle" /\ code'[t] = TimedOut)
            => pc[t] = "expired" /\ queue = <<>>
       /\ abort => queue' = queue \/ Len(queue') > Len(queue)]_vars

(* Packets are delivered once each and in the order of their arrival.       *)
Abstract == INSTANCE FifoQueue WITH Bound <- MaxItems, items <- queue, taken <- val
ImplementsFifo == Abstract!FifoSpec

(* Every Dequeue returns.                                                   *)
DequeueReturns == \A t \in Threads : pc[t] # "idle" ~> pc[t] = "idle"
=============================================================================
