------------------------------ MODULE FifoQueue ------------------------------
(***************************************************************************)
(* What every queue of this library promises its callers: a bounded        *)
(* first-in first-out queue whose operations take effect one at a time.    *)
(* An operation that reports failure (a full or an empty queue, or lost    *)
(* contention) changes nothing, so it is a stuttering step here.           *)
(* The modules of the concrete queues implement this one through a         *)
(* refinement mapping.                                                     *)
(***************************************************************************)
EXTENDS Naturals, Sequences

CONSTANTS Threads,   (* the callers of the queue                             *)
          Values,    (* what is stored                                       *)
          NoValue,   (* a caller that has not received anything yet          *)
          Bound      (* how many items the queue can hold                    *)

VARIABLES items,     (* the stored values, oldest first                      *)
          taken      (* taken[t]: the value thread t dequeued last           *)

fifoVars == <<items, taken>>

FifoInit == /\ items = <<>>
            /\ taken = [t \in Threads |-> NoValue]

Enq(v) == /\ Len(items) < Bound
          /\ items' = Append(items, v)
          /\ UNCHANGED taken

Deq(t) == /\ items # <<>>
          /\ taken' = [taken EXCEPT ![t] = Head(items)]
          /\ items' = Tail(items)

FifoNext == \/ \E v \in Values : Enq(v)
            \/ \E t \in Threads : Deq(t)

FifoSpec == FifoInit /\ [][FifoNext]_fifoVars

=============================================================================
