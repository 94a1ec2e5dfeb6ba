-------------------------------- MODULE YQueue --------------------------------
(***************************************************************************)
(* yqueue_t (other/yqueue.hpp): the storage of a pipe, a doubly linked     *)
(* list of chunks of N items each.  The writer owns the back and the end,  *)
(* the reader the begin; the only data both use at once is spare_chunk,    *)
(* where the reader leaves the chunk it has emptied last and the writer    *)
(* looks for one before it allocates.                                      *)
(*                                                                         *)
(* This module has the state and the operations; who calls them, and when, *)
(* is said in the modules that extend it.  An operation accesses one datum *)
(* that the other side may be using, so each is a single step.             *)
(***************************************************************************)
EXTENDS Integers, Sequences

CONSTANTS N,          (* how many items a chunk holds                        *)
          Chunks,     (* the addresses the allocator hands out               *)
          Null,       (* the null pointer                                    *)
          Junk,       (* what memory holds before it is written              *)
          Values      (* the items                                           *)

ASSUME NAssumption == N \in Nat \ {0}
ASSUME AddressAssumption ==
         /\ {Null, Junk} \cap (Chunks \cup (Chunks \X (0 .. N - 1)) \cup Values) = {}
         /\ Null # Junk

VARIABLES beginChunk, beginPos,   (* the front item                          *)
          backChunk, backPos,     (* the back item                           *)
          endChunk, endPos,       (* one past the back item                  *)
          next, prev,             (* the links of each chunk                 *)
          spare,                  (* spare_chunk                             *)
          val,                    (* val[p]: the item at address p           *)
          live,                   (* the allocated chunks                    *)
          span                    (* history: the addresses front .. back    *)

links == <<next, prev, live>>
readerEnd == <<beginChunk, beginPos>>
writerEnd == <<backChunk, backPos, endChunk, endPos>>
queueVars == <<readerEnd, writerEnd, links, spare, val, span>>

Addresses == Chunks \X (0 .. N - 1)

Front == <<beginChunk, beginPos>>
Back == <<backChunk, backPos>>
End == <<endChunk, endPos>>

QueueInit ==
  \E first \in Chunks :
    /\ beginChunk = first /\ beginPos = 0
    /\ backChunk = Null /\ backPos = 0
    /\ endChunk = first /\ endPos = 0
    /\ next = [k \in Chunks |-> Junk]
    /\ prev = [k \in Chunks |-> Junk]
    /\ spare = Null
    /\ val = [p \in Addresses |-> Junk]
    /\ live = {first}
    /\ span = <<>>

-----------------------------------------------------------------------------
(* push: the back moves to the end, and the end one item on, into a new     *)
(* chunk when this one is full.                                             *)

(* The chunk is the spare one, taken out of spare_chunk, or a new one.      *)
NewChunk ==
  /\ \E chunk \in IF spare = Null THEN Chunks \ live ELSE {spare} :
       /\ next' = [next EXCEPT ![endChunk] = chunk]
       /\ prev' = [prev EXCEPT ![chunk] = endChunk]
       /\ live' = live \cup {chunk}
       /\ endChunk' = chunk
  /\ endPos' = 0
  /\ spare' = Null

SameChunk ==
  /\ endPos' = endPos + 1
  /\ UNCHANGED <<endChunk, links, spare>>

Push ==
  /\ backChunk' = endChunk
  /\ backPos' = endPos
  /\ \/ endPos + 1 # N /\ SameChunk
     \/ endPos + 1 = N /\ NewChunk
  /\ span' = Append(span, End)
  /\ UNCHANGED readerEnd

-----------------------------------------------------------------------------
(* unpush: back and end move back by one item; a chunk that the end leaves  *)
(* is freed.                                                                *)

EndBack ==
  \/ /\ endPos > 0
     /\ endPos' = endPos - 1
     /\ UNCHANGED <<endChunk, links>>
  \/ /\ endPos = 0
     /\ endPos' = N - 1
     /\ endChunk' = prev[endChunk]
     /\ live' = live \ {next[prev[endChunk]]}
     /\ next' = [next EXCEPT ![prev[endChunk]] = Null]
     /\ UNCHANGED prev

(* Mutant: the back stays in its chunk.                                     *)
UnpushInChunk ==
  /\ backPos' = IF backPos > 0 THEN backPos - 1 ELSE N - 1
  /\ EndBack
  /\ span' = SubSeq(span, 1, Len(span) - 1)
  /\ UNCHANGED <<backChunk, readerEnd, spare>>

Unpush ==
  /\ \/ backPos > 0 /\ backPos' = backPos - 1 /\ UNCHANGED backChunk
     \/ backPos = 0 /\ backPos' = N - 1 /\ backChunk' = prev[backChunk]
  /\ EndBack
  /\ span' = SubSeq(span, 1, Len(span) - 1)
  /\ UNCHANGED <<readerEnd, spare>>

-----------------------------------------------------------------------------
(* pop: the front moves one item on; an emptied chunk is exchanged for the  *)
(* one in spare_chunk, which is freed.                                      *)

(* Mutant: the spare chunk is overwritten.                                  *)
ChunkDoneLeaks ==
  /\ beginChunk' = next[beginChunk]
  /\ beginPos' = 0
  /\ prev' = [prev EXCEPT ![next[beginChunk]] = Null]
  /\ spare' = beginChunk
  /\ UNCHANGED <<next, live>>

ChunkDone ==
  /\ beginChunk' = next[beginChunk]
  /\ beginPos' = 0
  /\ prev' = [prev EXCEPT ![next[beginChunk]] = Null]
  /\ spare' = beginChunk
  /\ live' = live \ {spare}
  /\ UNCHANGED next

(* Mutant: the front leaves its chunk one item late.                        *)
PopTooLate ==
  /\ \/ /\ beginPos # N
        /\ beginPos' = beginPos + 1
        /\ UNCHANGED <<beginChunk, links, spare>>
     \/ beginPos = N /\ ChunkDone
  /\ span' = Tail(span)
  /\ UNCHANGED <<writerEnd, val>>

Pop ==
  /\ \/ /\ beginPos + 1 # N
        /\ beginPos' = beginPos + 1
        /\ UNCHANGED <<beginChunk, links, spare>>
     \/ beginPos + 1 = N /\ ChunkDone
  /\ span' = Tail(span)
  /\ UNCHANGED <<writerEnd, val>>

-----------------------------------------------------------------------------
QueueTypeOK ==
  /\ Front \in Addresses
  /\ End \in Addresses
  /\ Back \in Addresses \cup {<<Null, 0>>}
  /\ next \in [Chunks -> Chunks \cup {Null, Junk}]
  /\ prev \in [Chunks -> Chunks \cup {Null, Junk}]
  /\ spare \in Chunks \cup {Null}
  /\ val \in [Addresses -> Values \cup {Junk}]
  /\ live \subseteq Chunks
  /\ span \in Seq(Addresses)

(* The chunks that hold the addresses front .. back, and the end.           *)
Linked == {span[i][1] : i \in 1 .. Len(span)} \cup {beginChunk, endChunk}

(* Every allocated chunk is linked or spare, not both: no chunk is leaked,  *)
(* freed twice or reused while it holds items, whichever side exchanges the *)
(* spare chunk first.                                                       *)
ChunksOwned == live = Linked \cup ({spare} \ {Null}) /\ spare \notin Linked

(* The addresses from the front to the end are all different, so that       *)
(* comparing two pointers of the pipe compares their places in it although  *)
(* chunks are used over and over; following the links visits them in order. *)
AddressesInOrder ==
  LET all == Append(span, End)
  IN  /\ \A i, j \in 1 .. Len(all) : all[i] = all[j] => i = j
      /\ \A i \in 1 .. Len(span) :
           all[i + 1] = IF all[i][2] + 1 # N
                        THEN <<all[i][1], all[i][2] + 1>>
                        ELSE <<next[all[i][1]], 0>>
      /\ span # <<>> => span[1] = Front /\ span[Len(span)] = Back

(* Why it works: each address follows the one before it, in the same chunk  *)
(* or across a link that leads both ways, and within a chunk the positions  *)
(* grow.  So a chunk that is left, at either end, is left for good.         *)
At(i) == IF i <= Len(span) THEN span[i] ELSE End

Follows(p, q) ==
  IF p[2] + 1 # N
  THEN q[1] = p[1] /\ q[2] = p[2] + 1
  ELSE q[2] = 0 /\ next[p[1]] = q[1] /\ prev[q[1]] = p[1]

Ordered ==
  /\ At(1) = Front
  /\ span # <<>> => Back = span[Len(span)]
  /\ \A i \in 1 .. Len(span) : Follows(At(i), At(i + 1))
  /\ \A i, j \in 1 .. Len(span) + 1 : i < j /\ At(i)[1] = At(j)[1] => At(i)[2] < At(j)[2]

QueueInv == QueueTypeOK /\ Ordered /\ ChunksOwned
=============================================================================
