----------------------------- MODULE LockFreePipe -----------------------------
(***************************************************************************)
(* LockFreePipe (DataStructures/LockFreePipe.h): the library's port of     *)
(* ypipe_t, over zmqQueue (DataChunkQueue.h), its port of yqueue_t.  The   *)
(* ports differ from the originals in three places:                        *)
(*   - zmqQueue::push starts a new chunk unless the chunk has become full; *)
(*   - check_read loads c and puts null into it in two steps;              *)
(*   - c is swapped by compare_exchange_weak, which may fail for no reason.*)
(* The rest is the code of YPipe, whose actions are used as they are.      *)
(***************************************************************************)
EXTENDS YPipe

CONSTANT WeakFails    (* whether compare_exchange_weak does so: not on x86   *)

(* zmqQueue::push.                                                          *)
ZmqPush ==
  /\ backChunk' = endChunk
  /\ backPos' = endPos
  /\ \/ endPos + 1 = N /\ SameChunk
     \/ endPos + 1 # N /\ NewChunk
  /\ span' = Append(span, End)
  /\ UNCHANGED readerEnd

PortConstruct ==
  /\ writer = "construct"
  /\ ZmqPush
  /\ w' = End /\ f' = End /\ r' = End /\ c' = End
  /\ writer' = "idle"
  /\ reader' = "idle"
  /\ UNCHANGED <<val, signal, client, got, writes>>

PortWrite(v, imcomplete) ==
  /\ writer = "idle"
  /\ writes < MaxWrites
  /\ writes' = writes + 1
  /\ val' = [val EXCEPT ![Back] = v]
  /\ ZmqPush
  /\ f' = IF imcomplete THEN f ELSE End
  /\ UNCHANGED <<w, r, c, writer, reader, signal, client, got>>

(* The swap of flush fails although c is w: flush returns false, as if the  *)
(* reader slept, and c is stored while the reader may be using it.          *)
FlushFails ==
  /\ WeakFails
  /\ writer = "idle"
  /\ w # f /\ c = w
  /\ writer' = "flushSet"
  /\ UNCHANGED <<queueVars, w, f, r, c, reader, signal, client, got, writes>>

(* r = c.load(), unless there are items prefetched.                         *)
LoadC ==
  /\ reader = "idle"
  /\ \/ /\ Prefetched
        /\ reader' = "copy"
        /\ UNCHANGED r
     \/ /\ ~Prefetched
        /\ r' = c
        /\ reader' = "clear"
  /\ UNCHANGED <<queueVars, w, f, c, writer, signal, client, got, writes>>

(* The compare-and-swap comes later, and its outcome is not looked at.      *)
ClearC ==
  /\ reader = "clear"
  /\ \/ c' = IF c = Front THEN Null ELSE c
     \/ WeakFails /\ UNCHANGED c
  /\ reader' = IF r \in {Front, Null} THEN "asleep" ELSE "copy"
  /\ UNCHANGED <<queueVars, w, f, r, writer, signal, client, got, writes>>

(* The two threads of test_LockPipe_cond, which notify and wait.            *)
CondClient == NotifyAsleep \/ Finish \/ Wait

PortNext == \/ PortConstruct
            \/ \E v \in Values, imcomplete \in BOOLEAN : PortWrite(v, imcomplete)
            \/ Unwrite \/ Flush \/ FlushFails \/ FlushSet
            \/ LoadC \/ ClearC \/ CopyItem \/ PopItem
            \/ CondClient \/ Wake \/ Awaken \/ Poll

PortSpec == Init /\ [][PortNext]_vars

-----------------------------------------------------------------------------
(* The consumer of test_LockFreePipe counts every read that returns true as *)
(* one of the items its producer has written.                               *)
ReadsOnlyItems == reader = "pop" => got \in Values

(* flush "returns false if the reader thread is sleeping", and its caller   *)
(* then wakes the reader: a reader that has found nothing, and sleeps, is   *)
(* called for whatever was flushed meanwhile, by a signal that is not lost. *)
PortSleeperIsCalled ==
  client = "latch" /\ reader = "asleep" /\ w # Front => signal \/ writer = "wake"
=============================================================================
