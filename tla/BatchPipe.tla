------------------------------ MODULE BatchPipe ------------------------------
(***************************************************************************)
(* What a pipe between one writer and one reader promises: items reach the *)
(* reader in the order in which they were written, a batch at a time.  An  *)
(* item written as incomplete may be taken back until a complete one       *)
(* follows it; complete items become visible all together, by a flush.     *)
(***************************************************************************)
EXTENDS Integers, Sequences

CONSTANTS Values,    (* what is written                                      *)
          NoValue    (* a reader that has not read anything yet              *)

VARIABLES open,      (* the items that can still be taken back               *)
          complete,  (* the items that the next flush will send              *)
          stream,    (* the items that the reader can read                   *)
          got        (* the item read last                                   *)

pipeVars == <<open, complete, stream, got>>

PipeInit == /\ open = <<>>
            /\ complete = <<>>
            /\ stream = <<>>
            /\ got = NoValue

WriteOpen(v) == /\ open' = Append(open, v)
                /\ UNCHANGED <<complete, stream, got>>

WriteComplete(v) == /\ complete' = Append(complete \o open, v)
                    /\ open' = <<>>
                    /\ UNCHANGED <<stream, got>>

TakeBack == /\ open # <<>>
            /\ open' = SubSeq(open, 1, Len(open) - 1)
            /\ UNCHANGED <<complete, stream, got>>

SendBatch == /\ stream' = stream \o complete
             /\ complete' = <<>>
             /\ UNCHANGED <<open, got>>

Receive == /\ stream # <<>>
           /\ got' = Head(stream)
           /\ stream' = Tail(stream)
           /\ UNCHANGED <<open, complete>>

PipeNext == \/ \E v \in Values : WriteOpen(v) \/ WriteComplete(v)
            \/ TakeBack \/ SendBatch \/ Receive

PipeSpec == PipeInit /\ [][PipeNext]_pipeVars

=============================================================================
