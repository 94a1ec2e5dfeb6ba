-------------------------------- MODULE YPipe --------------------------------
(***************************************************************************)
(* ypipe_t (other/ypipe.hpp): a lock-free pipe between one writer and one  *)
(* reader over a YQueue.  The writer's w and f and the reader's r are      *)
(* private; c is the only pointer both sides use, by compare-and-swap.  It *)
(* points past the last flushed item, or is null while the reader sleeps.  *)
(*                                                                         *)
(* When flush returns false the writer wakes the reader before it does     *)
(* anything else.  The contract that the comments state asks for a signal  *)
(* that is not lost when the reader is not asleep yet.  Nothing in the     *)
(* repository has one: the client "latch" stands for the callers that the  *)
(* comments are about.  Its reader may also poll.  The client "condvar" of *)
(* the tests notifies a condition variable on which the reader waits       *)
(* without a predicate.                                                    *)
(***************************************************************************)
EXTENDS YQueue

CONSTANTS NoValue,    (* a reader that has not read anything yet             *)
          MaxWrites   (* bound: the items written in a behaviour             *)

ASSUME NoValueAssumption == NoValue \notin Values
ASSUME MaxWritesAssumption == MaxWrites \in Nat

VARIABLES w,          (* the first item not flushed, as the writer knows it  *)
          f,          (* the first item that the next flush will not send    *)
          r,          (* the first item not prefetched                       *)
          c,          (* the shared pointer                                  *)
          writer,     (* what the writer does next                           *)
          reader,     (* what the reader does next                           *)
          signal,     (* the wake-up call of the writer                      *)
          client,     (* how the two sides wake each other                   *)
          got,        (* what read returned last                             *)
          writes      (* the items written so far                            *)

control == <<writer, reader, signal, client, got, writes>>
vars == <<queueVars, w, f, r, c, control>>

Init == /\ QueueInit
        /\ w = Null /\ f = Null /\ r = Null /\ c = Null
        /\ writer = "construct"
        /\ reader = "none"
        /\ signal = FALSE
        /\ client \in {"latch", "condvar"}
        /\ got = NoValue
        /\ writes = 0

(* The constructor pushes a terminator, to which all pointers point.        *)
Construct ==
  /\ writer = "construct"
  /\ Push
  /\ w' = End /\ f' = End /\ r' = End /\ c' = End
  /\ writer' = "idle"
  /\ reader' = "idle"
  /\ UNCHANGED <<val, signal, client, got, writes>>

-----------------------------------------------------------------------------
(* The writer                                                               *)

Write(v, incomplete) ==
  /\ writer = "idle"
  /\ writes < MaxWrites
  /\ writes' = writes + 1
  /\ val' = [val EXCEPT ![Back] = v]
  /\ Push
  /\ f' = IF incomplete THEN f ELSE End
  /\ UNCHANGED <<w, r, c, writer, reader, signal, client, got>>

(* When there is nothing to take back, unwrite returns false.               *)
Unwrite ==
  /\ writer = "idle"
  /\ f # Back
  /\ Unpush
  /\ UNCHANGED <<val, w, f, r, c, control>>

(* Mutant: the flush does not look whether the reader sleeps.               *)
FlushUnchecked ==
  /\ writer = "idle"
  /\ w # f
  /\ c' = f
  /\ w' = f
  /\ UNCHANGED <<queueVars, f, r, control>>

(* Mutant: the flush sends the incomplete items too.                        *)
FlushUpToBack ==
  /\ writer = "idle"
  /\ w # Back
  /\ \/ /\ c = w
        /\ c' = Back
        /\ w' = Back
        /\ UNCHANGED writer
     \/ /\ c # w
        /\ writer' = "flushSet"
        /\ UNCHANGED <<w, c>>
  /\ UNCHANGED <<queueVars, f, r, reader, signal, client, got, writes>>

(* Without new complete items, flush returns true and does nothing.         *)
Flush ==
  /\ writer = "idle"
  /\ w # f
  /\ \/ /\ c = w
        /\ c' = f
        /\ w' = f
        /\ UNCHANGED writer
     \/ /\ c # w
        /\ writer' = "flushSet"
        /\ UNCHANGED <<w, c>>
  /\ UNCHANGED <<queueVars, f, r, reader, signal, client, got, writes>>

(* c.set(f), not atomic: the reader is asleep and leaves c alone.  Then     *)
(* flush returns false.                                                     *)
FlushSet ==
  /\ writer = "flushSet"
  /\ c' = f
  /\ w' = f
  /\ writer' = "wake"
  /\ UNCHANGED <<queueVars, f, r, reader, signal, client, got, writes>>

(* The caller that the contract of flush asks for, outside the repository:  *)
(* its signal stays until the reader takes it (Awaken).                     *)
Wake ==
  /\ writer = "wake" /\ client = "latch"
  /\ signal' = TRUE
  /\ writer' = "idle"
  /\ UNCHANGED <<queueVars, w, f, r, c, reader, client, got, writes>>

(* notify_one, with the mutex: lost unless the reader is waiting.           *)
Notify(then) ==
  /\ client = "condvar"
  /\ writer' = then
  /\ reader' = IF reader = "waiting" THEN "idle" ELSE reader
  /\ UNCHANGED <<queueVars, w, f, r, c, signal, client, got, writes>>

NotifyAsleep == writer = "wake" /\ Notify("idle")

(* Having flushed everything, the producer notifies once more and ends.     *)
Finish == writer = "idle" /\ w = f /\ Notify("done")

-----------------------------------------------------------------------------
(* The reader                                                               *)

Prefetched == r # Front /\ r # Null

(* Mutant: the reader goes to sleep without leaving word.                   *)
CheckReadSilently(then) ==
  /\ reader = "idle"
  /\ \/ /\ Prefetched
        /\ reader' = then
        /\ UNCHANGED <<r, c>>
     \/ /\ ~Prefetched
        /\ r' = c
        /\ reader' = IF c \in {Front, Null} THEN "asleep" ELSE then
        /\ UNCHANGED c
  /\ UNCHANGED <<queueVars, w, f, writer, signal, client, got, writes>>

(* check_read: when what was prefetched is used up, one compare-and-swap    *)
(* prefetches what has been flushed, or puts null into c if there is none.  *)
CheckRead(then) ==
  /\ reader = "idle"
  /\ \/ /\ Prefetched
        /\ reader' = then
        /\ UNCHANGED <<r, c>>
     \/ /\ ~Prefetched
        /\ r' = c
        /\ c' = IF c = Front THEN Null ELSE c
        /\ reader' = IF c \in {Front, Null} THEN "asleep" ELSE then
  /\ UNCHANGED <<queueVars, w, f, writer, signal, client, got, writes>>

(* read goes on with the item; check_read and probe leave it there.         *)
Read == CheckRead("copy")
Probe == CheckRead("idle")

CopyItem ==
  /\ reader = "copy"
  /\ got' = val[Front]
  /\ reader' = "pop"
  /\ UNCHANGED <<queueVars, w, f, r, c, writer, signal, client, writes>>

PopItem ==
  /\ reader = "pop"
  /\ Pop
  /\ reader' = "idle"
  /\ UNCHANGED <<w, f, r, c, writer, signal, client, got, writes>>

Awaken ==
  /\ reader = "asleep" /\ client = "latch"
  /\ signal
  /\ signal' = FALSE
  /\ reader' = "idle"
  /\ UNCHANGED <<queueVars, w, f, r, c, writer, client, got, writes>>

(* cond.wait, entered some time after read has returned false.              *)
Wait ==
  /\ reader = "asleep" /\ client = "condvar"
  /\ reader' = "waiting"
  /\ UNCHANGED <<queueVars, w, f, r, c, writer, signal, client, got, writes>>

(* A reader that polls, or a wait that ends for no reason.                  *)
Poll ==
  /\ reader = IF client = "latch" THEN "asleep" ELSE "waiting"
  /\ reader' = "idle"
  /\ UNCHANGED <<queueVars, w, f, r, c, writer, signal, client, got, writes>>

-----------------------------------------------------------------------------
WriterStep == FlushSet \/ Wake \/ NotifyAsleep
ReaderStep == Read \/ CopyItem \/ PopItem \/ Awaken \/ Wait

Next == \/ Construct
        \/ \E v \in Values, incomplete \in BOOLEAN : Write(v, incomplete)
        \/ Unwrite \/ Flush \/ WriterStep \/ Finish
        \/ ReaderStep \/ Probe \/ Poll

Spec == Init /\ [][Next]_vars

(* Each side finishes what it has begun, and the reader reads while there   *)
(* is something to read; nothing makes it poll.  The producer of the tests  *)
(* flushes what it has written and comes to its end.                        *)
Fairness == /\ WF_vars(WriterStep) /\ WF_vars(ReaderStep)
            /\ WF_vars(Finish \/ (client = "condvar" /\ Flush))

FairSpec == Spec /\ Fairness

-----------------------------------------------------------------------------
TypeOK ==
  /\ QueueTypeOK
  /\ {w, f, r, c} \subseteq Addresses \cup {Null}
  /\ writer \in {"construct", "idle", "flushSet", "wake", "done"}
  /\ reader \in {"none", "idle", "copy", "pop", "asleep", "waiting"}
  /\ signal \in BOOLEAN /\ client \in {"latch", "condvar"}
  /\ got \in Values \cup {NoValue}
  /\ writes \in 0 .. MaxWrites

Constructed == writer # "construct"

(* Why it works.  From the front on: r, w, f.  The shared pointer is w, or  *)
(* null: then the reader has found nothing since, and leaves it alone.      *)
Unused == /\ span = <<>>
          /\ {w, f, r, c} = {Null}
          /\ reader = "none"

Pointers ==
  \E i, j \in 1 .. Len(span) :
    /\ span[i] = w /\ span[j] = f /\ i <= j
    /\ r # Null => \E k \in 1 .. i : span[k] = r

InUse ==
  /\ Pointers
  /\ \A i \in 1 .. Len(span) - 1 : val[span[i]] \in Values
  /\ c \in {w, Null}
  /\ c = Null => w = Front /\ ~Prefetched
  /\ writer = "flushSet" => c = Null
  /\ reader \in {"copy", "pop"} => Prefetched
  /\ client = "latch" /\ reader = "asleep" => c = Null \/ signal \/ writer = "wake"
  /\ reader # "none"

Inv == /\ TypeOK
       /\ QueueInv
       /\ IF Constructed THEN InUse ELSE Unused

-----------------------------------------------------------------------------
(* Safety                                                                   *)

Place(p) == CHOOSE i \in 1 .. Len(span) : span[i] = p

(* The items that the reader can have, those of the next flush and those    *)
(* that can be taken back.  The item being read counts as read once it is   *)
(* copied.                                                                  *)
ItemsAt(i, j) == [k \in 1 .. j - i + 1 |-> val[span[i + k - 1]]]
Stream == IF Constructed
          THEN ItemsAt(IF reader = "pop" THEN 2 ELSE 1, Place(w) - 1)
          ELSE <<>>
Complete == IF Constructed THEN ItemsAt(Place(w), Place(f) - 1) ELSE <<>>
Open == IF Constructed THEN ItemsAt(Place(f), Len(span) - 1) ELSE <<>>

Abstract == INSTANCE BatchPipe
              WITH open <- Open, complete <- Complete, stream <- Stream

(* The pipe delivers what was written and not taken back, in order, batch   *)
(* by batch.                                                                *)
ImplementsPipe == Abstract!PipeSpec

(* A reader that has been told there is nothing, and has not asked again,   *)
(* is woken for whatever is flushed: the flush that finds it asleep returns *)
(* false, however the two sides interleave.                                 *)
SleeperIsCalled ==
  client = "latch" /\ reader = "asleep" /\ Stream # <<>> => signal \/ writer = "wake"

(* Everything flushed is read in the end, by a reader that never polls.     *)
(* There is one exception, and the clients of the tests run into it: the    *)
(* reader has begun to wait after the last notification of the producer.    *)
Delivered ==
  Stream # <<>> ~> Stream = <<>> \/ (reader = "waiting" /\ writer = "done")
=============================================================================
