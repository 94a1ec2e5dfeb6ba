----------------------------- MODULE YPipeProofs -----------------------------
(***************************************************************************)
(* Proofs about YQueue and YPipe, for chunks of any size and any number of *)
(* them: what each operation of the queue preserves, then the pipe.        *)
(***************************************************************************)
EXTENDS YPipe, DataLemmas

-----------------------------------------------------------------------------
(* Addresses: pairs of a chunk and a position, and never the null pointer.  *)

LEMMA AddressParts ==
  \A p \in Addresses : p[1] \in Chunks /\ p[2] \in 0 .. N - 1 /\ p = <<p[1], p[2]>>
  BY NAssumption DEF Addresses

LEMMA AddressOf == \A k \in Chunks, n \in 0 .. N - 1 : <<k, n>> \in Addresses
  BY DEF Addresses

LEMMA NullIsNoAddress == Null \notin Addresses /\ Null \notin Chunks
  BY AddressAssumption DEF Addresses

(* What the operations of the queue work on.                                *)
LEMMA QueueShape ==
  ASSUME QueueTypeOK
  PROVE  /\ Len(span) \in Nat
         /\ beginChunk \in Chunks /\ beginPos \in 0 .. N - 1
         /\ endChunk \in Chunks /\ endPos \in 0 .. N - 1
         /\ \A i \in 1 .. Len(span) : span[i] \in Addresses
         /\ \A i \in 1 .. Len(span) + 1 :
              At(i) \in Addresses /\ At(i)[1] \in Chunks /\ At(i)[2] \in 0 .. N - 1
<1>1. /\ Len(span) \in Nat /\ \A i \in 1 .. Len(span) : span[i] \in Addresses
      /\ End \in Addresses /\ Front \in Addresses
  BY DEF QueueTypeOK
<1>2. /\ beginChunk \in Chunks /\ beginPos \in 0 .. N - 1
      /\ endChunk \in Chunks /\ endPos \in 0 .. N - 1
  BY <1>1, AddressParts DEF Front, End
<1> QED
  BY <1>1, <1>2, AddressParts DEF At

(* No address occurs twice.                                                 *)
LEMMA AllDifferent ==
  ASSUME QueueTypeOK, Ordered, NEW i \in 1 .. Len(span) + 1, NEW j \in 1 .. Len(span) + 1,
         At(i) = At(j)
  PROVE  i = j
<1>1. \A k \in 1 .. Len(span) + 1 : At(k)[2] \in Int
  BY QueueShape
<1>2. Len(span) \in Nat
  BY QueueShape
<1>3. ~(i < j) /\ ~(j < i)
  BY <1>1 DEF Ordered
<1> QED
  BY <1>2, <1>3

(* The linked chunks are those of the addresses, the end included.          *)
LinkedChunks == Linked = {At(i)[1] : i \in 1 .. Len(span) + 1} /\ Linked \subseteq Chunks

LEMMA LinkedIs == QueueTypeOK /\ Ordered => LinkedChunks
<1> SUFFICES ASSUME QueueTypeOK, Ordered PROVE LinkedChunks
  OBVIOUS
<1> DEFINE L == Len(span)
<1>1. /\ L \in Nat /\ At(L + 1)[1] = endChunk
      /\ \A i \in 1 .. L + 1 : At(i)[1] \in Chunks
  BY QueueShape DEF At, End
<1>2. \A i \in 1 .. L : span[i] = At(i)
  BY DEF At
<1>3. L # 0 => beginChunk = At(1)[1]
  BY <1>1 DEF Ordered, Front
<1>4. L = 0 => beginChunk = endChunk
  BY <1>1 DEF Ordered, Front, At, End
<1> QED
  BY <1>1, <1>2, <1>3, <1>4 DEF Linked, LinkedChunks

LEMMA LinkedNext == QueueTypeOK' /\ Ordered' => LinkedChunks'
  BY LinkedIs, PTL

-----------------------------------------------------------------------------
(* push                                                                     *)

(* The addresses after a push: one more, at the end.                        *)
LEMMA PushSpan ==
  ASSUME QueueTypeOK, Push, End' \in Addresses
  PROVE  /\ Len(span') = Len(span) + 1
         /\ span' \in Seq(Addresses)
         /\ \A i \in 1 .. Len(span) + 1 : span'[i] = At(i) /\ At(i)' = At(i)
         /\ \A i \in Nat : i = Len(span) + 2 => At(i)' = End'
  BY QueueShape DEF Push, At, QueueTypeOK

LEMMA PushKeeps ==
  ASSUME QueueInv, Push, val' \in [Addresses -> Values \cup {Junk}]
  PROVE  QueueInv'
<1> USE NAssumption
<1> DEFINE L == Len(span)
<1>1. QueueTypeOK /\ Ordered /\ ChunksOwned
  BY DEF QueueInv
<1>2. /\ L \in Nat /\ endChunk \in Chunks /\ endPos \in 0 .. N - 1
      /\ At(L + 1)[1] = endChunk /\ At(L + 1)[2] = endPos
      /\ \A i \in 1 .. L + 1 : At(i)[1] \in Chunks /\ At(i)[2] \in 0 .. N - 1
  BY <1>1, QueueShape DEF At, End
<1>3. /\ next \in [Chunks -> Chunks \cup {Null, Junk}] /\ prev \in [Chunks -> Chunks \cup {Null, Junk}]
      /\ spare \in Chunks \cup {Null} /\ live \subseteq Chunks
  BY <1>1 DEF QueueTypeOK
<1>4. LinkedChunks /\ endChunk \in Linked /\ Null \notin Linked
  BY <1>1, LinkedIs, NullIsNoAddress DEF Linked, LinkedChunks
<1>5. /\ \A i, j \in 1 .. L + 1 : i < j /\ At(i)[1] = At(j)[1] => At(i)[2] < At(j)[2]
      /\ \A i \in 1 .. L : At(i)[1] = endChunk => At(i)[2] < endPos
  <2>1. \A i, j \in 1 .. L + 1 : i < j /\ At(i)[1] = At(j)[1] => At(i)[2] < At(j)[2]
    BY <1>1 DEF Ordered
  <2> HIDE DEF L
  <2>2. ASSUME NEW i \in 1 .. L, At(i)[1] = endChunk PROVE At(i)[2] < endPos
    <3>1. i \in 1 .. L + 1 /\ L + 1 \in 1 .. L + 1 /\ i < L + 1
      BY <1>2
    <3>2. At(i)[2] < At(L + 1)[2]
      BY <1>2, <2>1, <2>2, <3>1
    <3> QED
      BY <1>2, <3>2
  <2> QED
    BY <2>1, <2>2
(* What the two ways to move the end have in common.                        *)
<1>6. ASSUME End' \in Addresses,
             \A i \in 1 .. L : Follows(At(i), At(i + 1))',
             IF endPos + 1 # N
             THEN endChunk' = endChunk /\ endPos' = endPos + 1
             ELSE endPos' = 0 /\ next'[endChunk] = endChunk' /\ prev'[endChunk'] = endChunk,
             \A i \in 1 .. L + 1 : At(i)[1] = endChunk' => At(i)[2] < endPos',
             next' \in [Chunks -> Chunks \cup {Null, Junk}],
             prev' \in [Chunks -> Chunks \cup {Null, Junk}],
             spare' \in Chunks \cup {Null},
             live' \subseteq Chunks,
             live' = Linked \cup {endChunk'} \cup ({spare'} \ {Null}),
             spare' \notin Linked \cup {endChunk'}
      PROVE  QueueInv'
  <2>1. /\ Len(span') = L + 1
        /\ span' \in Seq(Addresses)
        /\ \A i \in 1 .. L + 1 : span'[i] = At(i) /\ At(i)' = At(i)
        /\ \A i \in Nat : i = L + 2 => At(i)' = End'
    BY <1>1, <1>6, PushSpan
  <2>2. QueueTypeOK'
    BY <1>1, <1>6, <2>1 DEF QueueTypeOK, Push, Front, Back, End, readerEnd
  <2>3. Ordered'
    <3>1. At(1)' = Front'
      BY <1>1, <1>2, <2>1 DEF Ordered, Push, Front, readerEnd
    <3>2. Back' = span'[Len(span')]
      <4>1. span'[L + 1] = At(L + 1) /\ At(L + 1) = End
        BY <1>2, <2>1 DEF At
      <4> QED
        BY <2>1, <4>1 DEF Push, Back, End
    <3>3. ASSUME NEW i \in 1 .. Len(span') PROVE Follows(At(i), At(i + 1))'
      <4>1. CASE i \in 1 .. L
        BY <1>6, <4>1
      <4>2. CASE i = L + 1
        <5>1. At(i)'[1] = endChunk /\ At(i)'[2] = endPos
          BY <1>2, <2>1, <4>2
        <5>2. At(i + 1)'[1] = endChunk' /\ At(i + 1)'[2] = endPos'
          BY <1>2, <2>1, <4>2 DEF End
        <5> HIDE DEF L
        <5> QED
          BY <1>6, <5>1, <5>2 DEF Follows
      <4> QED
        BY <1>2, <2>1, <4>1, <4>2
    <3>4. ASSUME NEW i \in 1 .. Len(span') + 1, NEW j \in 1 .. Len(span') + 1,
                 i < j, At(i)'[1] = At(j)'[1]
          PROVE  At(i)'[2] < At(j)'[2]
      <4>1. CASE j <= L + 1
        <5>1. i \in 1 .. L + 1 /\ j \in 1 .. L + 1
          BY <1>2, <2>1, <3>4, <4>1
        <5>2. At(i)' = At(i) /\ At(j)' = At(j)
          BY <2>1, <5>1
        <5> HIDE DEF L
        <5> QED
          BY <1>5, <3>4, <5>1, <5>2
      <4>2. CASE j = L + 2
        BY <1>2, <1>6, <2>1, <3>4, <4>2 DEF End
      <4> QED
        BY <1>2, <2>1, <4>1, <4>2
    <3> QED
      BY <3>1, <3>2, <3>3, <3>4 DEF Ordered
  <2>4. Linked' = Linked \cup {endChunk'}
    <3>1. Linked' = {At(i)'[1] : i \in 1 .. L + 2}
      BY <1>2, <2>1, <2>2, <2>3, LinkedNext DEF LinkedChunks
    <3>2. \A i \in 1 .. L + 2 : At(i)'[1] = IF i = L + 2 THEN endChunk' ELSE At(i)[1]
      <4> SUFFICES ASSUME NEW i \in 1 .. L + 2
                   PROVE  At(i)'[1] = IF i = L + 2 THEN endChunk' ELSE At(i)[1]
        OBVIOUS
      <4>1. CASE i = L + 2
        BY <1>2, <2>1, <4>1 DEF End
      <4>2. CASE i \in 1 .. L + 1
        BY <1>2, <2>1, <4>2
      <4> QED
        BY <1>2, <4>1, <4>2
    <3> QED
      BY <1>2, <1>4, <3>1, <3>2 DEF LinkedChunks
  <2> QED
    BY <1>6, <2>2, <2>3, <2>4 DEF QueueInv, ChunksOwned
<1>7. CASE endPos + 1 # N /\ SameChunk
  <2>1. /\ endChunk' = endChunk /\ endPos' = endPos + 1 /\ UNCHANGED <<next, prev, live, spare>>
        /\ endPos + 1 # N
    BY <1>7 DEF SameChunk, links
  <2>2. End' \in Addresses
    BY <1>2, <2>1, AddressOf DEF End
  <2>3. \A i \in 1 .. L : Follows(At(i), At(i + 1))'
    <3>1. \A i \in 1 .. L : At(i)' = At(i) /\ At(i + 1)' = At(i + 1)
      BY <1>1, <1>2, <2>2, PushSpan
    <3> QED
      BY <1>1, <2>1, <3>1 DEF Ordered, Follows
  <2>4. ASSUME NEW i \in 1 .. L + 1, At(i)[1] = endChunk' PROVE At(i)[2] < endPos'
    <3>1. CASE i = L + 1
      BY <1>2, <2>1, <3>1
    <3>2. CASE i \in 1 .. L
      BY <1>2, <1>5, <2>1, <2>4, <3>2
    <3> QED
      BY <1>2, <3>1, <3>2
  <2>5. Linked \cup {endChunk'} = Linked
    BY <1>4, <2>1
  <2> QED
    BY <1>1, <1>3, <1>6, <2>1, <2>2, <2>3, <2>4, <2>5 DEF ChunksOwned
<1>8. CASE endPos + 1 = N /\ NewChunk
  <2>1. PICK chunk \in IF spare = Null THEN Chunks \ live ELSE {spare} :
          /\ next' = [next EXCEPT ![endChunk] = chunk]
          /\ prev' = [prev EXCEPT ![chunk] = endChunk]
          /\ live' = live \cup {chunk}
          /\ endChunk' = chunk
          /\ endPos' = 0 /\ spare' = Null /\ endPos + 1 = N
    BY <1>8 DEF NewChunk
  <2>2. chunk \in Chunks /\ chunk \notin Linked
    BY <1>1, <1>3, <1>4, <2>1 DEF ChunksOwned
  <2>3. End' \in Addresses
    BY <2>1, <2>2, AddressOf DEF End
  <2>4. \A i \in 1 .. L + 1 : At(i)[1] # chunk
    BY <1>4, <2>2 DEF LinkedChunks
  <2>5. ASSUME NEW i \in 1 .. L PROVE Follows(At(i), At(i + 1))'
    <3>1. At(i)' = At(i) /\ At(i + 1)' = At(i + 1)
      BY <1>1, <1>2, <2>3, PushSpan
    <3>2. i + 1 \in 1 .. L + 1 /\ i \in 1 .. L + 1
      BY <1>2
    <3>3. At(i)[2] + 1 = N => At(i)[1] # endChunk
      BY <1>2, <1>5, <2>1, <3>2
    <3>4. At(i + 1)[1] # chunk
      BY <2>4, <3>2
    <3>5. Follows(At(i), At(i + 1))
      BY <1>1 DEF Ordered
    <3> QED
      BY <1>2, <1>3, <2>1, <3>1, <3>2, <3>3, <3>4, <3>5 DEF Follows
  <2>6. next'[endChunk] = chunk /\ prev'[chunk] = endChunk
    BY <1>2, <1>3, <2>1, <2>2
  <2>7. live' = Linked \cup {chunk}
    BY <1>1, <2>1, <2>2 DEF ChunksOwned
  <2>8. Null \notin Linked \cup {chunk}
    BY <1>4, <2>2, NullIsNoAddress
  <2> QED
    BY <1>2, <1>3, <1>6, <2>1, <2>2, <2>3, <2>4, <2>5, <2>6, <2>7, <2>8
<1> QED
  BY <1>7, <1>8 DEF Push

-----------------------------------------------------------------------------
(* unpush                                                                   *)

(* Between the first item and the end there is another: the pipe never      *)
(* takes back the only one.                                                 *)
LEMMA UnpushKeeps ==
  ASSUME QueueInv, Unpush, val' = val, Len(span) >= 2
  PROVE  QueueInv' /\ Len(span') = Len(span) - 1 /\ \A i \in 1 .. Len(span) - 1 : span'[i] = span[i]
<1> USE NAssumption
<1> DEFINE L == Len(span)
<1>1. QueueTypeOK /\ Ordered /\ ChunksOwned
  BY DEF QueueInv
<1>2. /\ L \in Nat /\ endChunk \in Chunks /\ endPos \in 0 .. N - 1
      /\ At(L + 1) = End /\ At(L + 1)[1] = endChunk /\ At(L + 1)[2] = endPos
      /\ \A i \in 1 .. L + 1 : /\ At(i) \in Addresses
                               /\ At(i)[1] \in Chunks /\ At(i)[2] \in 0 .. N - 1
                               /\ At(i) = <<At(i)[1], At(i)[2]>>
  BY <1>1, QueueShape, AddressParts DEF At, End
<1>3. /\ next \in [Chunks -> Chunks \cup {Null, Junk}] /\ prev \in [Chunks -> Chunks \cup {Null, Junk}]
      /\ spare \in Chunks \cup {Null} /\ live \subseteq Chunks
  BY <1>1 DEF QueueTypeOK
<1>4. LinkedChunks /\ Null \notin Linked
  BY <1>1, LinkedIs, NullIsNoAddress DEF LinkedChunks
<1>5. /\ Follows(At(L), At(L + 1)) /\ Follows(At(L - 1), At(L))
      /\ L \in 1 .. L + 1 /\ L - 1 \in 1 .. L + 1 /\ L + 1 \in 1 .. L + 1 /\ (L - 1) + 1 = L
  <2>1. L \in 1 .. L /\ L - 1 \in 1 .. L /\ (L - 1) + 1 = L
    BY <1>2
  <2>2. Follows(At(L), At(L + 1)) /\ Follows(At(L - 1), At((L - 1) + 1))
    BY <1>1, <2>1 DEF Ordered
  <2> HIDE DEF L
  <2> QED
    BY <1>2, <2>1, <2>2
<1>6. At(L) = Back /\ At(L)[1] = backChunk /\ At(L)[2] = backPos
  BY <1>1, <1>2 DEF Ordered, At, Back
<1> HIDE DEF L
(* Back and end are where they were one item before.                        *)
<1>7. backChunk' = At(L - 1)[1] /\ backPos' = At(L - 1)[2]
  <2>1. CASE backPos > 0
    <3>1. backChunk' = backChunk /\ backPos' = backPos - 1
      BY <1>2, <1>5, <1>6, <2>1 DEF Unpush
    <3> QED
      BY <1>2, <1>5, <1>6, <2>1, <3>1 DEF Follows
  <2>2. CASE backPos = 0
    <3>1. backChunk' = prev[backChunk] /\ backPos' = N - 1
      BY <2>2 DEF Unpush
    <3> QED
      BY <1>2, <1>5, <1>6, <2>2, <3>1 DEF Follows
  <2> QED
    BY <1>2, <1>5, <1>6, <2>1, <2>2
<1>8. endChunk' = At(L)[1] /\ endPos' = At(L)[2]
  <2>1. CASE endPos > 0
    <3>1. endChunk' = endChunk /\ endPos' = endPos - 1
      BY <1>2, <2>1 DEF Unpush, EndBack
    <3> QED
      BY <1>2, <1>5, <2>1, <3>1 DEF Follows
  <2>2. CASE endPos = 0
    <3>1. endChunk' = prev[endChunk] /\ endPos' = N - 1
      BY <2>2 DEF Unpush, EndBack
    <3> QED
      BY <1>2, <1>5, <2>2, <3>1 DEF Follows
  <2> QED
    BY <1>2, <2>1, <2>2
<1>9. /\ span' \in Seq(Addresses) /\ Len(span') = L - 1
      /\ \A i \in 1 .. L - 1 : span'[i] = span[i] /\ span'[i] = At(i)
      /\ UNCHANGED <<beginChunk, beginPos, spare, prev>>
  BY <1>1, <1>2, <1>5 DEF Unpush, EndBack, QueueTypeOK, At, readerEnd, links, L
<1>10. End' = At(L) /\ Back' = At(L - 1)
  BY <1>2, <1>5, <1>7, <1>8 DEF End, Back
<1>11. \A i \in 1 .. L : At(i)' = At(i)
  BY <1>2, <1>9, <1>10 DEF At
(* The links that are left, and the chunk that is freed.                    *)
<1>12. /\ next' \in [Chunks -> Chunks \cup {Null, Junk}]
       /\ live' \subseteq Chunks
       /\ \A i \in 1 .. L - 1 : At(i)[2] + 1 = N => next'[At(i)[1]] = next[At(i)[1]]
       /\ live' = {At(i)[1] : i \in 1 .. L} \cup ({spare} \ {Null})
  <2>1. Linked = {At(i)[1] : i \in 1 .. L} \cup {endChunk}
    BY <1>2, <1>4, <1>5 DEF LinkedChunks, L
  <2>2. CASE endPos > 0
    <3>1. UNCHANGED <<next, live>>
      BY <1>2, <2>2 DEF Unpush, EndBack, links
    <3>2. At(L)[1] = endChunk
      BY <1>2, <1>5, <2>2 DEF Follows
    <3>3. L \in 1 .. L
      BY <1>5
    <3> QED
      BY <1>1, <1>3, <2>1, <3>1, <3>2, <3>3 DEF ChunksOwned
  <2>3. CASE endPos = 0
    <3>1. At(L)[2] + 1 = N /\ next[At(L)[1]] = endChunk /\ prev[endChunk] = At(L)[1]
      BY <1>2, <1>5, <2>3 DEF Follows
    <3>2. next' = [next EXCEPT ![At(L)[1]] = Null] /\ live' = live \ {endChunk}
      BY <2>3, <3>1 DEF Unpush, EndBack
    <3>3. ASSUME NEW i \in 1 .. L PROVE At(i)[1] # endChunk
      <4>1. i \in 1 .. L + 1 /\ i < L + 1
        BY <1>2
      <4> QED
        BY <1>1, <1>2, <1>5, <2>3, <4>1 DEF Ordered, L
    <3>4. ASSUME NEW i \in 1 .. L - 1, At(i)[2] + 1 = N PROVE At(i)[1] # At(L)[1]
      <4>1. i \in 1 .. L + 1 /\ i < L
        BY <1>2
      <4>2. At(i)[1] = At(L)[1] => At(i)[2] < At(L)[2]
        BY <1>1, <1>5, <4>1 DEF Ordered, L
      <4> QED
        BY <1>2, <1>5, <3>1, <3>4, <4>1, <4>2
    <3>5. endChunk # spare
      BY <1>1, <2>1 DEF ChunksOwned
    <3>6. live' = {At(i)[1] : i \in 1 .. L} \cup ({spare} \ {Null})
      BY <1>1, <2>1, <3>2, <3>3, <3>5 DEF ChunksOwned
    <3>7. \A i \in 1 .. L - 1 : At(i)[2] + 1 = N => next'[At(i)[1]] = next[At(i)[1]]
      BY <1>3, <3>2, <3>4
    <3> QED
      BY <1>3, <3>2, <3>6, <3>7
  <2> QED
    BY <1>2, <2>2, <2>3
<1>13. Ordered'
  <2>1. At(1)' = Front'
    BY <1>1, <1>2, <1>9, <1>11 DEF Ordered, Front, L
  <2>2. span' # <<>> => Back' = span'[Len(span')]
    <3>1. L - 1 \in 1 .. L - 1
      BY <1>2 DEF L
    <3> QED
      BY <1>9, <1>10, <3>1
  <2>3. ASSUME NEW i \in 1 .. Len(span') PROVE Follows(At(i), At(i + 1))'
    <3>1. i \in 1 .. L - 1 /\ i \in 1 .. L /\ i + 1 \in 1 .. L
      BY <1>2, <1>9
    <3>2. At(i)' = At(i) /\ At(i + 1)' = At(i + 1)
      BY <1>11, <3>1
    <3>3. Follows(At(i), At(i + 1))
      BY <1>1, <3>1 DEF Ordered, L
    <3> QED
      BY <1>9, <1>12, <3>1, <3>2, <3>3 DEF Follows
  <2>4. ASSUME NEW i \in 1 .. Len(span') + 1, NEW j \in 1 .. Len(span') + 1,
               i < j, At(i)'[1] = At(j)'[1]
        PROVE  At(i)'[2] < At(j)'[2]
    <3>1. i \in 1 .. L /\ j \in 1 .. L /\ i \in 1 .. L + 1 /\ j \in 1 .. L + 1
      BY <1>2, <1>9
    <3> QED
      BY <1>1, <1>11, <2>4, <3>1 DEF Ordered, L
  <2> QED
    BY <2>1, <2>2, <2>3, <2>4 DEF Ordered
<1>14. QueueTypeOK'
  BY <1>1, <1>2, <1>3, <1>5, <1>9, <1>10, <1>12 DEF QueueTypeOK, Front
<1>15. ChunksOwned'
  <2>1. Linked' = {At(i)[1] : i \in 1 .. L}
    <3>1. Linked' = {At(i)'[1] : i \in 1 .. L}
      BY <1>2, <1>9, <1>13, <1>14, LinkedNext DEF LinkedChunks
    <3> QED
      BY <1>11, <3>1
  <2>2. Linked' \subseteq Linked
    BY <1>2, <1>4, <2>1 DEF LinkedChunks, L
  <2> QED
    BY <1>1, <1>9, <1>12, <2>1, <2>2 DEF ChunksOwned
<1> QED
  BY <1>9, <1>13, <1>14, <1>15 DEF QueueInv, L

-----------------------------------------------------------------------------
(* pop                                                                      *)

LEMMA PopKeeps ==
  ASSUME QueueInv, Pop, span # <<>>
  PROVE  QueueInv' /\ Len(span') = Len(span) - 1 /\ \A i \in 1 .. Len(span) - 1 : span'[i] = span[i + 1]
<1> USE NAssumption
<1> DEFINE L == Len(span)
<1>1. QueueTypeOK /\ Ordered /\ ChunksOwned
  BY DEF QueueInv
<1>2. /\ L \in Nat /\ L >= 1
      /\ beginChunk \in Chunks /\ beginPos \in 0 .. N - 1
      /\ At(1) = Front /\ At(1)[1] = beginChunk /\ At(1)[2] = beginPos
      /\ \A i \in 1 .. L + 1 : /\ At(i) \in Addresses
                               /\ At(i)[1] \in Chunks /\ At(i)[2] \in 0 .. N - 1
                               /\ At(i) = <<At(i)[1], At(i)[2]>>
  BY <1>1, QueueShape, AddressParts DEF Ordered, Front, QueueTypeOK
<1>3. /\ next \in [Chunks -> Chunks \cup {Null, Junk}] /\ prev \in [Chunks -> Chunks \cup {Null, Junk}]
      /\ spare \in Chunks \cup {Null} /\ live \subseteq Chunks
  BY <1>1 DEF QueueTypeOK
<1>4. LinkedChunks /\ Null \notin Linked
  BY <1>1, LinkedIs, NullIsNoAddress DEF LinkedChunks
<1>5. Follows(At(1), At(2)) /\ 1 \in 1 .. L /\ 2 \in 1 .. L + 1
  <2>1. 1 \in 1 .. L /\ 2 \in 1 .. L + 1 /\ 1 + 1 = 2
    BY <1>2
  <2>2. Follows(At(1), At(1 + 1))
    BY <1>1, <2>1 DEF Ordered
  <2> QED
    BY <2>1, <2>2
<1>6. /\ span' \in Seq(Addresses) /\ Len(span') = L - 1
      /\ \A i \in 1 .. L - 1 : span'[i] = span[i + 1] /\ span'[i] = At(i + 1)
      /\ UNCHANGED <<backChunk, backPos, endChunk, endPos, val>>
  BY <1>1, <1>2 DEF Pop, QueueTypeOK, At, writerEnd
<1>7. \A i \in 1 .. L : At(i)' = At(i + 1)
  BY <1>2, <1>6 DEF At, End
<1>8. Front' = At(2)
  <2>1. CASE beginPos + 1 # N
    <3>1. beginChunk' = beginChunk /\ beginPos' = beginPos + 1
      BY <2>1 DEF Pop
    <3> QED
      BY <1>2, <1>5, <2>1, <3>1 DEF Follows, Front
  <2>2. CASE beginPos + 1 = N
    <3>1. beginChunk' = next[beginChunk] /\ beginPos' = 0
      BY <2>2 DEF Pop, ChunkDone
    <3> QED
      BY <1>2, <1>5, <2>2, <3>1 DEF Follows, Front
  <2> QED
    BY <2>1, <2>2
<1> HIDE DEF L
(* The links that are left, and the chunk that becomes the spare one.       *)
<1>9. Linked = {At(i)[1] : i \in 2 .. L + 1} \cup {beginChunk}
  <2>1. \A i \in 1 .. L + 1 : i = 1 \/ i \in 2 .. L + 1
    BY <1>2
  <2>2. Linked = {At(i)[1] : i \in 1 .. L + 1}
    BY <1>4 DEF LinkedChunks, L
  <2> QED
    BY <1>2, <2>1, <2>2
<1>10. /\ prev' \in [Chunks -> Chunks \cup {Null, Junk}]
       /\ next' = next
       /\ spare' \in Chunks \cup {Null}
       /\ live' \subseteq Chunks
       /\ \A i \in 2 .. L : At(i)[2] + 1 = N => prev'[At(i + 1)[1]] = prev[At(i + 1)[1]]
       /\ live' = {At(i)[1] : i \in 2 .. L + 1} \cup ({spare'} \ {Null})
       /\ spare' \notin {At(i)[1] : i \in 2 .. L + 1}
  <2>1. CASE beginPos + 1 # N
    <3>1. UNCHANGED <<next, prev, live, spare>>
      BY <2>1 DEF Pop, links
    <3>2. At(2)[1] = beginChunk /\ 2 \in 2 .. L + 1
      BY <1>2, <1>5, <2>1 DEF Follows
    <3> QED
      BY <1>1, <1>3, <1>9, <3>1, <3>2 DEF ChunksOwned
  <2>2. CASE beginPos + 1 = N
    <3>1. next[beginChunk] = At(2)[1] /\ At(2)[2] = 0
      BY <1>2, <1>5, <2>2 DEF Follows
    <3>2. /\ prev' = [prev EXCEPT ![At(2)[1]] = Null] /\ next' = next
          /\ spare' = beginChunk /\ live' = live \ {spare}
      BY <2>2, <3>1 DEF Pop, ChunkDone
    <3>3. ASSUME NEW i \in 2 .. L + 1 PROVE At(i)[1] # beginChunk
      <4>1. i \in 1 .. L + 1 /\ 1 < i /\ 1 \in 1 .. L + 1
        BY <1>2
      <4>2. At(1)[1] = At(i)[1] => At(1)[2] < At(i)[2]
        BY <1>1, <4>1 DEF Ordered, L
      <4> QED
        BY <1>2, <2>2, <4>1, <4>2
    <3>4. ASSUME NEW i \in 2 .. L, At(i)[2] + 1 = N PROVE At(i + 1)[1] # At(2)[1]
      <4>1. i + 1 \in 1 .. L + 1 /\ 2 < i + 1 /\ 2 \in 1 .. L + 1 /\ i \in 1 .. L
        BY <1>2
      <4>2. At(2)[1] = At(i + 1)[1] => At(2)[2] < At(i + 1)[2]
        BY <1>1, <4>1 DEF Ordered, L
      <4>3. At(i + 1)[2] = 0
        BY <1>1, <3>4, <4>1 DEF Ordered, Follows, L
      <4> QED
        BY <3>1, <4>2, <4>3
    <3>5. live' = {At(i)[1] : i \in 2 .. L + 1} \cup {beginChunk}
      BY <1>1, <1>9, <3>2 DEF ChunksOwned
    <3>6. beginChunk # Null
      BY <1>2, NullIsNoAddress
    <3>7. \A i \in 2 .. L : At(i)[2] + 1 = N => prev'[At(i + 1)[1]] = prev[At(i + 1)[1]]
      BY <1>3, <3>2, <3>4
    <3> QED
      BY <1>2, <1>3, <3>2, <3>3, <3>5, <3>6, <3>7
  <2> QED
    BY <1>2, <2>1, <2>2
<1>11. Ordered'
  <2>1. At(1)' = Front'
    <3>1. 1 + 1 = 2 /\ 1 \in 1 .. L
      BY <1>5
    <3> QED
      BY <1>7, <1>8, <3>1
  <2>2. span' # <<>> => Back' = span'[Len(span')]
    <3>1. ASSUME span' # <<>> PROVE L - 1 \in 1 .. L - 1 /\ (L - 1) + 1 = L
      BY <1>2, <1>6, <3>1
    <3>2. Back = span[L]
      BY <1>1, <1>2 DEF Ordered, L
    <3> QED
      BY <1>6, <3>1, <3>2 DEF Back
  <2>3. ASSUME NEW i \in 1 .. Len(span') PROVE Follows(At(i), At(i + 1))'
    <3>1. i \in 1 .. L /\ i + 1 \in 2 .. L /\ i + 1 \in 1 .. L
      BY <1>2, <1>6
    <3>2. At(i)' = At(i + 1) /\ At(i + 1)' = At((i + 1) + 1)
      BY <1>7, <3>1
    <3>3. Follows(At(i + 1), At((i + 1) + 1))
      BY <1>1, <3>1 DEF Ordered, L
    <3>4. At(i + 1)[2] + 1 = N => prev'[At((i + 1) + 1)[1]] = prev[At((i + 1) + 1)[1]]
      BY <1>10, <3>1
    <3> QED
      BY <1>10, <3>2, <3>3, <3>4 DEF Follows
  <2>4. ASSUME NEW i \in 1 .. Len(span') + 1, NEW j \in 1 .. Len(span') + 1,
               i < j, At(i)'[1] = At(j)'[1]
        PROVE  At(i)'[2] < At(j)'[2]
    <3>1. /\ i \in 1 .. L /\ j \in 1 .. L /\ i + 1 \in 1 .. L + 1 /\ j + 1 \in 1 .. L + 1
          /\ i + 1 < j + 1
      BY <1>2, <1>6, <2>4
    <3>2. At(i + 1)[1] = At(j + 1)[1] => At(i + 1)[2] < At(j + 1)[2]
      BY <1>1, <3>1 DEF Ordered, L
    <3> QED
      BY <1>7, <2>4, <3>1, <3>2
  <2> QED
    BY <2>1, <2>2, <2>3, <2>4 DEF Ordered
<1>12. QueueTypeOK'
  BY <1>1, <1>2, <1>5, <1>6, <1>8, <1>10, <1>3 DEF QueueTypeOK, End, Back
<1>13. ChunksOwned'
  <2>1. Linked' = {At(i)[1] : i \in 2 .. L + 1}
    <3>1. Linked' = {At(i)'[1] : i \in 1 .. L}
      BY <1>2, <1>6, <1>11, <1>12, LinkedNext DEF LinkedChunks
    <3>2. Linked' = {At(i + 1)[1] : i \in 1 .. L}
      BY <1>7, <3>1
    <3>3. \A i \in 2 .. L + 1 : i - 1 \in 1 .. L /\ (i - 1) + 1 = i
      BY <1>2
    <3>4. \A i \in 1 .. L : i + 1 \in 2 .. L + 1
      BY <1>2
    <3> QED
      BY <3>2, <3>3, <3>4
  <2> QED
    BY <1>10, <2>1 DEF ChunksOwned
<1> QED
  BY <1>6, <1>11, <1>12, <1>13 DEF QueueInv, L

-----------------------------------------------------------------------------
(* The pipe                                                                 *)

(* Where the ends of a pipe in use are.                                     *)
LEMMA Ends ==
  ASSUME Inv, Constructed
  PROVE  /\ InUse /\ Len(span) \in Nat /\ span # <<>>
         /\ Front = span[1] /\ Back = span[Len(span)] /\ Back \in Addresses
         /\ \A i \in 1 .. Len(span) : span[i] \in Addresses /\ span[i] # Null
         /\ \A i, j \in 1 .. Len(span) : span[i] = span[j] => i = j
<1>1. InUse /\ QueueTypeOK /\ Ordered
  BY DEF Inv, QueueInv
<1>2. /\ Len(span) \in Nat /\ \A i \in 1 .. Len(span) : span[i] \in Addresses /\ span[i] # Null
  BY <1>1, QueueShape, NullIsNoAddress
<1>3. Len(span) >= 1
  BY <1>1, <1>2 DEF InUse, Pointers
<1>4. span # <<>> /\ At(1) = span[1] /\ 1 \in 1 .. Len(span) /\ Len(span) \in 1 .. Len(span)
  BY <1>2, <1>3 DEF At
<1>5. Front = span[1] /\ Back = span[Len(span)] /\ Back \in Addresses
  BY <1>1, <1>2, <1>4 DEF Ordered
<1>6. ASSUME NEW i \in 1 .. Len(span), NEW j \in 1 .. Len(span), span[i] = span[j] PROVE i = j
  <2>1. i \in 1 .. Len(span) + 1 /\ j \in 1 .. Len(span) + 1 /\ At(i) = span[i] /\ At(j) = span[j]
    BY <1>2 DEF At
  <2> QED
    BY <1>1, <1>6, <2>1, AllDifferent
<1> QED
  BY <1>1, <1>2, <1>4, <1>5, <1>6

LEMMA InvInit == Init => Inv
<1> SUFFICES ASSUME Init PROVE Inv
  OBVIOUS
<1> USE NAssumption, AddressOf, NullIsNoAddress
<1>1. PICK first \in Chunks :
        /\ beginChunk = first /\ beginPos = 0
        /\ backChunk = Null /\ backPos = 0
        /\ endChunk = first /\ endPos = 0
        /\ next = [k \in Chunks |-> Junk]
        /\ prev = [k \in Chunks |-> Junk]
        /\ spare = Null
        /\ val = [p \in Addresses |-> Junk]
        /\ live = {first}
        /\ span = <<>>
  BY DEF Init, QueueInit
<1>2. QueueTypeOK
  BY <1>1 DEF QueueTypeOK, Front, Back, End
<1>3. Ordered
  <2>1. Len(span) = 0 /\ At(1) = End /\ At(1) = Front
    BY <1>1 DEF At, End, Front
  <2> QED
    BY <1>1, <2>1 DEF Ordered
<1>4. ChunksOwned
  BY <1>1 DEF ChunksOwned, Linked
<1>5. TypeOK
  <2>1. w = Null /\ f = Null /\ r = Null /\ c = Null
    BY DEF Init
  <2>2. writer = "construct" /\ reader = "none" /\ client \in {"latch", "condvar"}
    BY DEF Init
  <2>3. got = NoValue /\ writes \in 0 .. MaxWrites
    BY MaxWritesAssumption DEF Init
  <2>4. signal \in BOOLEAN
    BY DEF Init
  <2> QED
    BY <1>2, <2>1, <2>2, <2>3, <2>4 DEF TypeOK
<1>6. Unused /\ ~Constructed
  BY <1>1 DEF Init, Unused, Constructed
<1> QED
  BY <1>2, <1>3, <1>4, <1>5, <1>6 DEF Inv, QueueInv

(* The terminator is all there is.                                          *)
LEMMA ConstructKeeps == ASSUME Inv, Construct PROVE Inv'
<1>1. Unused /\ TypeOK /\ QueueInv /\ ~Constructed
  BY DEF Inv, Construct, Constructed
<1>2. QueueInv'
  BY <1>1, PushKeeps DEF Construct, QueueInv, QueueTypeOK
<1>3. span' = <<End>> /\ Len(span') = 1 /\ span'[1] = End /\ Push
  BY <1>1 DEF Construct, Push, Unused
<1>4. End \in Addresses /\ End # Null
  BY <1>1, NullIsNoAddress DEF QueueInv, QueueTypeOK
<1>5. TypeOK'
  BY <1>1, <1>2, <1>4 DEF Construct, TypeOK, QueueInv
<1>6. InUse'
  <2>1. Pointers'
    BY <1>3, <1>4 DEF Construct, Pointers
  <2> QED
    BY <1>3, <1>4, <2>1 DEF Construct, InUse
<1>7. Constructed'
  BY DEF Construct, Constructed
<1> QED
  BY <1>2, <1>5, <1>6, <1>7 DEF Inv

LEMMA WriteKeeps ==
  ASSUME Inv, NEW v \in Values, NEW incomplete \in BOOLEAN, Write(v, incomplete)
  PROVE  Inv'
<1> DEFINE L == Len(span)
<1>1. Constructed /\ Constructed' /\ TypeOK /\ QueueInv /\ QueueTypeOK
  BY DEF Inv, Write, Constructed, QueueInv
<1>2. /\ InUse /\ L \in Nat /\ span # <<>> /\ Back \in Addresses
      /\ \A i \in 1 .. L : span[i] \in Addresses
      /\ Front = span[1]
  BY <1>1, Ends
<1>3. val' \in [Addresses -> Values \cup {Junk}]
  BY <1>1, <1>2 DEF Write, QueueTypeOK
<1>4. QueueInv'
  BY <1>1, <1>3, PushKeeps DEF Write
<1>5. /\ Len(span') = L + 1 /\ span'[L + 1] = End /\ \A i \in 1 .. L : span'[i] = span[i]
      /\ End \in Addresses /\ Front' = Front
  BY <1>1, <1>2 DEF Write, Push, QueueTypeOK, readerEnd, Front
<1>6. TypeOK'
  <2>1. writes' \in 0 .. MaxWrites
    BY <1>1, MaxWritesAssumption DEF Write, TypeOK
  <2>2. {w', f', r', c'} \subseteq Addresses \cup {Null}
    BY <1>1, <1>5 DEF Write, TypeOK
  <2> QED
    BY <1>1, <1>4, <2>1, <2>2 DEF Write, TypeOK, QueueInv
<1>7. InUse'
  <2>1. Pointers'
    <3>1. PICK i \in 1 .. L, j \in 1 .. L :
            /\ span[i] = w /\ span[j] = f /\ i <= j
            /\ r # Null => \E k \in 1 .. i : span[k] = r
      BY <1>2 DEF InUse, Pointers
    <3>2. /\ span'[i] = w' /\ i \in 1 .. Len(span')
          /\ r' # Null => \E k \in 1 .. i : span'[k] = r'
      BY <1>2, <1>5, <3>1 DEF Write
    <3>3. PICK m \in {j, L + 1} : span'[m] = f'
      BY <1>5, <3>1 DEF Write
    <3>4. m \in 1 .. Len(span') /\ i <= m
      BY <1>2, <1>5, <3>1, <3>3
    <3> QED
      BY <3>2, <3>3, <3>4 DEF Pointers
  <2>2. \A i \in 1 .. Len(span') - 1 : val'[span'[i]] \in Values
    <3> SUFFICES ASSUME NEW i \in 1 .. L PROVE val'[span[i]] \in Values
      BY <1>2, <1>5
    <3>1. i = L => span[i] = Back
      BY <1>1, Ends
    <3>2. i # L => val[span[i]] \in Values
      BY <1>2 DEF InUse
    <3> QED
      BY <1>1, <1>2, <3>1, <3>2 DEF Write, QueueTypeOK
  <2>3. Prefetched' <=> Prefetched
    BY <1>5 DEF Prefetched, Write
  <2> QED
    BY <1>2, <1>5, <2>1, <2>2, <2>3 DEF InUse, Write
<1> QED
  BY <1>1, <1>4, <1>6, <1>7 DEF Inv

(* f is never past the last item but one of those taken back.               *)
LEMMA UnwriteKeeps == ASSUME Inv, Unwrite PROVE Inv'
<1> DEFINE L == Len(span)
<1>1. Constructed /\ Constructed' /\ TypeOK /\ QueueInv
  BY DEF Inv, Unwrite, Constructed, control
<1>2. /\ InUse /\ L \in Nat /\ Back = span[L]
  BY <1>1, Ends
<1>3. PICK i \in 1 .. L, j \in 1 .. L :
        /\ span[i] = w /\ span[j] = f /\ i <= j
        /\ r # Null => \E k \in 1 .. i : span[k] = r
  BY <1>2 DEF InUse, Pointers
<1>4. j # L /\ j <= L - 1 /\ L >= 2
  BY <1>2, <1>3 DEF Unwrite
<1>5. QueueInv' /\ Len(span') = L - 1 /\ \A m \in 1 .. L - 1 : span'[m] = span[m]
  BY <1>1, <1>4, UnpushKeeps DEF Unwrite
<1>6. Front' = Front /\ UNCHANGED <<val, w, f, r, c, writer, reader, signal, client, got, writes>>
  BY DEF Unwrite, Unpush, readerEnd, Front, control
<1>7. TypeOK'
  BY <1>1, <1>5, <1>6 DEF TypeOK, QueueInv
<1>8. InUse'
  <2>1. Pointers'
    <3>1. i \in 1 .. Len(span') /\ j \in 1 .. Len(span') /\ \A k \in 1 .. i : k \in 1 .. L - 1
      BY <1>2, <1>3, <1>4, <1>5
    <3>2. span'[i] = w' /\ span'[j] = f'
      BY <1>3, <1>5, <1>6, <3>1
    <3>3. r' # Null => \E k \in 1 .. i : span'[k] = r'
      BY <1>3, <1>5, <1>6, <3>1
    <3> QED
      BY <1>3, <3>1, <3>2, <3>3 DEF Pointers
  <2>2. \A m \in 1 .. Len(span') - 1 : val'[span'[m]] \in Values
    <3> SUFFICES ASSUME NEW m \in 1 .. L - 2 PROVE val'[span'[m]] \in Values
      BY <1>2, <1>4, <1>5
    <3>1. m \in 1 .. L - 1
      BY <1>2
    <3> QED
      BY <1>2, <1>5, <1>6, <3>1 DEF InUse
  <2>3. Prefetched' <=> Prefetched
    BY <1>6 DEF Prefetched
  <2> QED
    BY <1>2, <1>6, <2>1, <2>2, <2>3 DEF InUse
<1> QED
  BY <1>1, <1>5, <1>7, <1>8 DEF Inv

(* A step that leaves the queue alone.                                      *)
LEMMA QueueStays ==
  ASSUME QueueInv, UNCHANGED queueVars
  PROVE  QueueInv' /\ UNCHANGED <<Front, val, span>>
<1> USE DEF queueVars, readerEnd, writerEnd, links
<1>1. UNCHANGED <<Front, Back, End, val, span, next, prev, live, spare, Linked>>
  BY DEF Front, Back, End, Linked
<1>2. \A i : At(i)' = At(i)
  BY <1>1 DEF At
<1>3. QueueTypeOK'
  BY <1>1 DEF QueueInv, QueueTypeOK
<1>4. Ordered'
  BY <1>1, <1>2 DEF QueueInv, Ordered, Follows
<1>5. ChunksOwned'
  BY <1>1 DEF QueueInv, ChunksOwned
<1> QED
  BY <1>1, <1>3, <1>4, <1>5 DEF QueueInv

(* The pointers of a pipe in use, in words that have no choice in them.     *)
LEMMA PointersAre ==
  ASSUME Inv, Constructed
  PROVE  \E i, j \in 1 .. Len(span) :
           /\ span[i] = w /\ span[j] = f /\ i <= j /\ w # Null /\ f # Null
           /\ w = Front => i = 1
           /\ r # Null => \E k \in 1 .. i : span[k] = r
<1>1. PICK i \in 1 .. Len(span), j \in 1 .. Len(span) :
        /\ span[i] = w /\ span[j] = f /\ i <= j
        /\ r # Null => \E k \in 1 .. i : span[k] = r
  BY Ends DEF InUse, Pointers
<1>2. w = Front => i = 1
  <2>1. 1 \in 1 .. Len(span) /\ Front = span[1]
    BY Ends
  <2> QED
    BY <1>1, <2>1, Ends
<1>3. w # Null /\ f # Null
  BY <1>1, Ends
<1> QED
  BY <1>1, <1>2, <1>3

(* Sending: w moves up to f.                                                *)
LEMMA SendKeeps ==
  ASSUME Inv, Constructed, UNCHANGED <<queueVars, f, r, reader, signal, client, got, writes>>,
         w' = f, c' = f,
         \/ writer = "idle" /\ writer' = "idle" /\ c = w
         \/ writer' = "wake"
  PROVE  Inv'
<1>1. /\ InUse /\ TypeOK /\ QueueInv /\ QueueInv' /\ UNCHANGED <<Front, val, span>>
  BY QueueStays, Ends DEF Inv
<1>2. PICK i \in 1 .. Len(span), j \in 1 .. Len(span) :
        /\ span[i] = w /\ span[j] = f /\ i <= j /\ w # Null /\ f # Null
        /\ r # Null => \E k \in 1 .. i : span[k] = r
  BY PointersAre
<1>3. TypeOK'
  BY <1>1 DEF TypeOK, QueueInv
<1>4. Pointers'
  <2>1. \A k \in 1 .. i : k \in 1 .. j
    BY <1>2
  <2> QED
    BY <1>1, <1>2, <2>1 DEF Pointers
<1>5. Prefetched' <=> Prefetched
  BY <1>1 DEF Prefetched
<1>6. InUse'
  BY <1>1, <1>2, <1>4, <1>5 DEF InUse
<1>7. Constructed'
  BY DEF Constructed
<1> QED
  BY <1>1, <1>3, <1>6, <1>7 DEF Inv

LEMMA FlushKeeps == ASSUME Inv, Flush PROVE Inv'
<1>1. Constructed
  BY DEF Flush, Constructed
<1>2. CASE c = w
  BY <1>1, <1>2, SendKeeps DEF Flush
<1>3. CASE c # w
  <2>1. UNCHANGED <<queueVars, w, f, r, c, reader, signal, client, got, writes>> /\ writer' = "flushSet"
    BY <1>3 DEF Flush
  <2>2. InUse /\ TypeOK /\ QueueInv /\ QueueInv' /\ UNCHANGED <<Front, val, span>>
    BY <1>1, <2>1, QueueStays, Ends DEF Inv
  <2>3. c = Null
    BY <1>3, <2>2 DEF InUse
  <2>4. TypeOK'
    BY <2>1, <2>2 DEF TypeOK, QueueInv
  <2>5. InUse'
    BY <2>1, <2>2, <2>3 DEF InUse, Pointers, Prefetched
  <2> QED
    BY <2>1, <2>2, <2>4, <2>5 DEF Inv, Constructed
<1> QED
  BY <1>2, <1>3

(* Waking and falling asleep.                                               *)
LEMMA WakingKeeps ==
  ASSUME Inv, Wake \/ NotifyAsleep \/ Finish \/ Awaken \/ Wait \/ Poll
  PROVE  Inv'
<1> USE DEF Wake, NotifyAsleep, Finish, Notify, Awaken, Wait, Poll
<1>1. /\ UNCHANGED <<queueVars, w, f, r, c, client, got, writes>>
      /\ Constructed /\ Constructed'
  BY DEF Inv, Unused, Constructed
<1>2. InUse /\ TypeOK /\ QueueInv /\ QueueInv' /\ UNCHANGED <<Front, val, span>>
  BY <1>1, QueueStays, Ends DEF Inv
<1>3. TypeOK'
  <2>1. signal' \in BOOLEAN
    BY <1>2 DEF TypeOK
  <2>2. writer' \in {"construct", "idle", "flushSet", "wake", "done"}
    BY <1>2 DEF TypeOK
  <2>3. reader' \in {"none", "idle", "copy", "pop", "asleep", "waiting"}
    BY <1>2 DEF TypeOK
  <2> QED
    BY <1>1, <1>2, <2>1, <2>2, <2>3 DEF TypeOK, QueueInv
<1>4. InUse'
  <2>1. Pointers' /\ (Prefetched' <=> Prefetched)
    BY <1>1, <1>2 DEF InUse, Pointers, Prefetched
  <2>2. writer' = "flushSet" => writer = "flushSet"
    OBVIOUS
  <2>3. reader' \in {"copy", "pop"} => reader \in {"copy", "pop"}
    OBVIOUS
  <2>4. client = "latch" /\ reader' = "asleep" => c = Null \/ signal' \/ writer' = "wake"
    BY <1>2 DEF InUse
  <2>5. reader' # "none"
    BY <1>2 DEF InUse
  <2> QED
    BY <1>1, <1>2, <2>1, <2>2, <2>3, <2>4, <2>5 DEF InUse
<1> QED
  BY <1>1, <1>2, <1>3, <1>4 DEF Inv

(* Prefetching: r moves up to w, or c becomes null.                         *)
LEMMA CheckReadKeeps ==
  ASSUME Inv, NEW then \in {"copy", "idle"}, CheckRead(then)
  PROVE  Inv'
<1>1. /\ UNCHANGED <<queueVars, w, f, writer, signal, client, got, writes>>
      /\ Constructed /\ Constructed' /\ reader = "idle"
  BY DEF CheckRead, Inv, Unused, Constructed
<1>2. InUse /\ TypeOK /\ QueueInv /\ QueueInv' /\ UNCHANGED <<Front, val, span>>
  BY <1>1, QueueStays, Ends DEF Inv
<1>3. PICK i \in 1 .. Len(span), j \in 1 .. Len(span) :
        /\ span[i] = w /\ span[j] = f /\ i <= j /\ w # Null /\ f # Null
        /\ r # Null => \E k \in 1 .. i : span[k] = r
  BY <1>1, PointersAre
<1>4. /\ reader' \in {"copy", "idle", "asleep"}
      /\ r' \in {r, c} /\ c' \in {c, Null}
      /\ reader' = "asleep" => c' = Null
      /\ reader' \in {"copy", "pop"} => Prefetched'
  BY <1>1, <1>2 DEF CheckRead, Prefetched
<1>5. TypeOK'
  BY <1>1, <1>2, <1>4 DEF TypeOK, QueueInv
<1>6. Pointers'
  <2>1. ASSUME r' # Null PROVE \E k \in 1 .. i : span[k] = r'
    <3>1. CASE r' = r
      BY <1>3, <2>1, <3>1
    <3>2. CASE r' = c
      <4>1. r' = w
        BY <1>2, <2>1, <3>2 DEF InUse
      <4>2. i \in 1 .. i
        BY <1>3
      <4> QED
        BY <1>3, <4>1, <4>2
    <3> QED
      BY <1>4, <3>1, <3>2
  <2> QED
    BY <1>1, <1>2, <1>3, <2>1 DEF Pointers
<1>7. c' = Null => w' = Front' /\ ~Prefetched'
  <2>1. CASE Prefetched
    BY <1>1, <1>2, <2>1 DEF CheckRead, InUse
  <2>2. CASE ~Prefetched /\ c = Front
    <3>1. c # Null
      BY <1>1, <2>2, Ends, <1>2 DEF InUse
    <3> QED
      BY <1>1, <1>2, <2>2, <3>1 DEF CheckRead, InUse, Prefetched
  <2>3. CASE ~Prefetched /\ c # Front
    BY <1>1, <1>2, <2>3 DEF CheckRead, InUse, Prefetched
  <2> QED
    BY <2>1, <2>2, <2>3
<1>8. InUse'
  BY <1>1, <1>2, <1>4, <1>6, <1>7 DEF InUse
<1> QED
  BY <1>1, <1>2, <1>5, <1>8 DEF Inv

(* A reader that goes on with an item has one: r is past the front.         *)
LEMMA ItemsAhead ==
  ASSUME Inv, Constructed, reader \in {"copy", "pop"}
  PROVE  \E i, j, k \in 1 .. Len(span) :
           /\ span[i] = w /\ span[j] = f /\ span[k] = r /\ 2 <= k /\ k <= i /\ i <= j
           /\ r # Null /\ c = w /\ w # Null
<1>1. PICK i \in 1 .. Len(span), j \in 1 .. Len(span) :
        /\ span[i] = w /\ span[j] = f /\ i <= j /\ w # Null /\ f # Null
        /\ r # Null => \E k \in 1 .. i : span[k] = r
  BY PointersAre
<1>2. InUse /\ Prefetched /\ Front = span[1] /\ r # Null /\ r # Front /\ c = w
  BY Ends DEF InUse, Prefetched
<1>3. PICK k \in 1 .. i : span[k] = r
  BY <1>1, <1>2
<1>4. k \in 1 .. Len(span) /\ 2 <= k /\ k <= i
  BY <1>1, <1>2, <1>3
<1> QED
  BY <1>1, <1>2, <1>3, <1>4

LEMMA CopyItemKeeps == ASSUME Inv, CopyItem PROVE Inv'
<1>1. /\ UNCHANGED <<queueVars, w, f, r, c, writer, signal, client, writes>>
      /\ Constructed /\ Constructed' /\ reader = "copy" /\ reader' = "pop"
  BY DEF CopyItem, Inv, Unused, Constructed
<1>2. InUse /\ TypeOK /\ QueueInv /\ QueueInv' /\ UNCHANGED <<Front, val, span>>
  BY <1>1, QueueStays, Ends DEF Inv
<1>3. got' \in Values
  <2>1. 1 \in 1 .. Len(span) - 1
    BY <1>1, ItemsAhead, Ends
  <2> QED
    BY <1>1, <1>2, <2>1, Ends DEF CopyItem, InUse
<1>4. TypeOK'
  BY <1>1, <1>2, <1>3 DEF TypeOK, QueueInv
<1>5. InUse'
  BY <1>1, <1>2 DEF InUse, Pointers, Prefetched
<1> QED
  BY <1>1, <1>2, <1>4, <1>5 DEF Inv

LEMMA PopItemKeeps == ASSUME Inv, PopItem PROVE Inv'
<1> DEFINE L == Len(span)
<1>1. /\ UNCHANGED <<w, f, r, c, val, writer, signal, client, got, writes>>
      /\ Constructed /\ Constructed' /\ reader = "pop" /\ reader' = "idle" /\ Pop
  BY DEF PopItem, Inv, Unused, Constructed, Pop
<1>2. InUse /\ TypeOK /\ QueueInv /\ L \in Nat /\ span # <<>>
  BY <1>1, Ends DEF Inv
<1>3. QueueInv' /\ Len(span') = L - 1 /\ \A m \in 1 .. L - 1 : span'[m] = span[m + 1]
  BY <1>1, <1>2, PopKeeps
<1>4. PICK i \in 1 .. L, j \in 1 .. L, k \in 1 .. L :
        /\ span[i] = w /\ span[j] = f /\ span[k] = r /\ 2 <= k /\ k <= i /\ i <= j
        /\ c = w /\ w # Null
  BY <1>1, ItemsAhead
<1>5. TypeOK'
  BY <1>1, <1>2, <1>3 DEF TypeOK, QueueInv
<1>6. Pointers'
  <2>1. /\ i - 1 \in 1 .. L - 1 /\ j - 1 \in 1 .. L - 1 /\ k - 1 \in 1 .. L - 1
        /\ (i - 1) + 1 = i /\ (j - 1) + 1 = j /\ (k - 1) + 1 = k
        /\ k - 1 \in 1 .. i - 1 /\ i - 1 <= j - 1
    BY <1>2, <1>4
  <2>2. span'[i - 1] = w' /\ span'[j - 1] = f' /\ span'[k - 1] = r'
    BY <1>1, <1>3, <1>4, <2>1
  <2> QED
    BY <1>3, <2>1, <2>2 DEF Pointers
<1>7. \A m \in 1 .. Len(span') - 1 : val'[span'[m]] \in Values
  <2> SUFFICES ASSUME NEW m \in 1 .. L - 2 PROVE val'[span'[m]] \in Values
    BY <1>2, <1>3
  <2>1. m \in 1 .. L - 1 /\ m + 1 \in 1 .. L - 1
    BY <1>2
  <2> QED
    BY <1>1, <1>2, <1>3, <2>1 DEF InUse
<1>8. InUse'
  BY <1>1, <1>2, <1>4, <1>6, <1>7 DEF InUse
<1> QED
  BY <1>1, <1>3, <1>5, <1>8 DEF Inv

LEMMA InvNext == Inv /\ [Next]_vars => Inv'
<1> SUFFICES ASSUME Inv, [Next]_vars PROVE Inv'
  OBVIOUS
<1>1. CASE UNCHANGED vars
  <2>1. QueueInv' /\ UNCHANGED <<Front, val, span>>
    BY <1>1, QueueStays DEF Inv, vars
  <2>2. TypeOK'
    BY <1>1, <2>1 DEF Inv, QueueInv, TypeOK, vars, control
  <2>3. (IF Constructed THEN InUse ELSE Unused)'
    BY <1>1, <2>1 DEF Inv, InUse, Unused, Constructed, Pointers, Prefetched, vars, control
  <2> QED
    BY <2>1, <2>2, <2>3 DEF Inv
<1>2. CASE FlushSet
  <2>1. Constructed
    BY <1>2 DEF FlushSet, Constructed
  <2> QED
    BY <1>2, <2>1, SendKeeps DEF FlushSet
<1>3. ASSUME Read \/ Probe PROVE Inv'
  BY <1>3, CheckReadKeeps DEF Read, Probe
<1> QED
  BY <1>1, <1>2, <1>3, ConstructKeeps, WriteKeeps, UnwriteKeeps, FlushKeeps, WakingKeeps,
     CopyItemKeeps, PopItemKeeps DEF Next, WriterStep, ReaderStep

(* In every reachable state the addresses from front to back are linked in  *)
(* order, every chunk is accounted for, and r, w, f and c point to places   *)
(* in that order.                                                           *)
THEOREM Invariance == Spec => []Inv
  BY InvInit, InvNext, PTL DEF Spec

-----------------------------------------------------------------------------
(* What follows from the invariant                                          *)

(* Pointers point to addresses, chunks and items stay in their types, and   *)
(* each side of the pipe is at one of its steps.                            *)
THEOREM TypeCorrect == Spec => []TypeOK
<1>1. Inv => TypeOK
  BY DEF Inv
<1> QED
  BY <1>1, Invariance, PTL

(* No chunk is leaked, freed twice or used again while it holds items.      *)
THEOREM ChunksAccountedFor == Spec => []ChunksOwned
<1>1. Inv => ChunksOwned
  BY DEF Inv, QueueInv
<1> QED
  BY <1>1, Invariance, PTL

(* The pipe may compare addresses to compare places, although the same      *)
(* chunks are used over and over: no address comes twice between front and  *)
(* back, and r, w and f point to places there, in this order, once the      *)
(* constructor is through; r may be null instead.                           *)
THEOREM PlacesAreAddresses == Spec => [](AddressesInOrder /\ (Constructed => Pointers))
<1>1. Inv => AddressesInOrder
  <2> SUFFICES ASSUME Inv PROVE AddressesInOrder
    OBVIOUS
  <2> DEFINE all == Append(span, End)
             L == Len(span)
  <2>1. QueueTypeOK /\ Ordered
    BY DEF Inv, QueueInv
  <2>2. L \in Nat /\ Len(all) = L + 1 /\ \A i \in 1 .. L + 1 : all[i] = At(i)
    BY <2>1 DEF QueueTypeOK, At
  <2>3. \A i, j \in 1 .. Len(all) : all[i] = all[j] => i = j
    BY <2>1, <2>2, AllDifferent
  <2>4. ASSUME NEW i \in 1 .. L
        PROVE  all[i + 1] = IF all[i][2] + 1 # N
                            THEN <<all[i][1], all[i][2] + 1>>
                            ELSE <<next[all[i][1]], 0>>
    <3>1. i \in 1 .. L + 1 /\ i + 1 \in 1 .. L + 1
      BY <2>2
    <3>2. At(i + 1) = <<At(i + 1)[1], At(i + 1)[2]>>
      BY <2>1, <3>1, QueueShape, AddressParts
    <3> QED
      BY <2>1, <2>2, <3>1, <3>2 DEF Ordered, Follows
  <2>5. span # <<>> => span[1] = Front /\ span[L] = Back
    BY <2>1, <2>2 DEF Ordered, At, QueueTypeOK
  <2> QED
    BY <2>2, <2>3, <2>4, <2>5 DEF AddressesInOrder
<1>2. Inv => (Constructed => Pointers)
  BY DEF Inv, InUse
<1> QED
  BY <1>1, <1>2, Invariance, PTL

-----------------------------------------------------------------------------
(* The items as sequences                                                   *)

Contents == {val[span[m]] : m \in Int}

ItemsAtMeaning ==
  \A a, b \in Int : b >= a - 1 =>
    /\ ItemsAt(a, b) \in Seq(Contents)
    /\ Len(ItemsAt(a, b)) = b - a + 1
    /\ \A m \in a .. b, k \in 1 .. b - a + 1 : m = a + k - 1 => ItemsAt(a, b)[k] = val[span[m]]

LEMMA ItemsAtMeans == ItemsAtMeaning
<1> SUFFICES ASSUME NEW a \in Int, NEW b \in Int, b >= a - 1
             PROVE  /\ ItemsAt(a, b) \in Seq(Contents)
                    /\ Len(ItemsAt(a, b)) = b - a + 1
                    /\ \A m \in a .. b, k \in 1 .. b - a + 1 :
                         m = a + k - 1 => ItemsAt(a, b)[k] = val[span[m]]
  BY DEF ItemsAtMeaning
<1>1. b - a + 1 \in Nat
  OBVIOUS
<1>2. ItemsAt(a, b) \in [1 .. b - a + 1 -> Contents]
  BY DEF ItemsAt, Contents
<1>3. ItemsAt(a, b) \in Seq(Contents)
  BY <1>1, <1>2, SeqDef
<1>4. Len(ItemsAt(a, b)) = b - a + 1
  BY <1>1, <1>2, <1>3, LenProperties
<1> QED
  BY <1>3, <1>4 DEF ItemsAt

LEMMA NoItems == ASSUME NEW a \in Int PROVE ItemsAt(a, a - 1) = <<>>
<1>1. ItemsAt(a, a - 1) \in Seq(Contents) /\ Len(ItemsAt(a, a - 1)) = 0
  BY ItemsAtMeans DEF ItemsAtMeaning
<1> QED
  BY <1>1, EmptySeq

(* Where the three stretches of items begin and end, by the places of w and *)
(* f: the stream from first, then from i, j and to n.                       *)
Split(first, i, j, n) ==
  /\ first = (IF reader = "pop" THEN 2 ELSE 1)
  /\ n = Len(span) - 1
  /\ 1 <= i /\ i <= j /\ j <= n + 1
  /\ span[i] = w /\ span[j] = f

Stretches ==
  /\ Constructed =>
       \A first, i, j, n \in Int : Split(first, i, j, n) =>
         /\ Stream = ItemsAt(first, i - 1)
         /\ Complete = ItemsAt(i, j - 1)
         /\ Open = ItemsAt(j, n)
  /\ ~Constructed => Stream = <<>> /\ Complete = <<>> /\ Open = <<>>

(* The CHOOSE of Place has one choice only.                                 *)
LEMMA StretchesMean == Inv => Stretches
<1> SUFFICES ASSUME Inv, Constructed,
                    NEW first \in Int, NEW i \in Int, NEW j \in Int, NEW n \in Int,
                    Split(first, i, j, n)
             PROVE  /\ Stream = ItemsAt(first, i - 1)
                    /\ Complete = ItemsAt(i, j - 1)
                    /\ Open = ItemsAt(j, n)
  BY DEF Stretches, Stream, Complete, Open
<1>1. i \in 1 .. Len(span) /\ j \in 1 .. Len(span) /\ span[i] = w /\ span[j] = f
  BY Ends DEF Split
<1>2. Place(w) = i /\ Place(f) = j
  BY <1>1, Ends DEF Place
<1> QED
  BY <1>2 DEF Stream, Complete, Open, Split

(* Every pipe in use can be split, and nobody reads past w.                 *)
LEMMA SplitExists ==
  ASSUME Inv, Constructed
  PROVE  \E first, i, j, n \in Int :
           Split(first, i, j, n) /\ first \in {1, 2} /\ first <= i /\ (w = Front => i = 1)
<1>1. PICK i \in 1 .. Len(span), j \in 1 .. Len(span) :
        span[i] = w /\ span[j] = f /\ i <= j /\ (w = Front => i = 1)
  BY PointersAre
<1>2. reader = "pop" => i >= 2
  <2> SUFFICES ASSUME reader = "pop" PROVE i >= 2
    OBVIOUS
  <2>1. PICK h \in 1 .. Len(span), k \in 1 .. Len(span) : span[h] = w /\ 2 <= k /\ k <= h
    BY ItemsAhead
  <2>2. h = i
    BY <1>1, <2>1, Ends
  <2> QED
    BY <2>1, <2>2
<1>3. PICK first \in {1, 2} : first = (IF reader = "pop" THEN 2 ELSE 1)
  OBVIOUS
<1>4. PICK n \in Int : n = Len(span) - 1 /\ Len(span) = n + 1
  BY Ends
<1>5. Split(first, i, j, n)
  BY <1>1, <1>3, <1>4 DEF Split
<1>6. first <= i /\ first \in Int
  BY <1>1, <1>2, <1>3
<1> QED
  BY <1>1, <1>3, <1>5, <1>6

(* All this holds in the state after a step as well.                        *)
LEMMA ItemsNext ==
  /\ ItemsAtMeaning'
  /\ \A a \in Int : ItemsAt(a, a - 1)' = <<>>
  /\ Inv' => Stretches'
<1>1. ItemsAtMeaning' /\ (Inv' => Stretches')
  BY ItemsAtMeans, StretchesMean, PTL
<1>2. ASSUME NEW a \in Int PROVE ItemsAt(a, a - 1)' = <<>>
  <2>1. ItemsAt(a, a - 1)' \in Seq(Contents') /\ Len(ItemsAt(a, a - 1)') = 0
    BY <1>1 DEF ItemsAtMeaning
  <2> QED
    BY <2>1, EmptySeq
<1> QED
  BY <1>1, <1>2

(* With the latch, a reader that has been told there is nothing is called   *)
(* for whatever is flushed then: if nobody calls it, c is null, so w is the *)
(* front and there is nothing to read.                                      *)
THEOREM SleepersAreCalled == Spec => []SleeperIsCalled
<1>1. Inv => SleeperIsCalled
  <2> SUFFICES ASSUME Inv, reader = "asleep", Stream # <<>>, client = "latch"
               PROVE  signal \/ writer = "wake"
    BY DEF SleeperIsCalled
  <2>1. Constructed /\ Stretches
    BY StretchesMean DEF Stretches
  <2> SUFFICES ASSUME c = Null PROVE FALSE
    BY <2>1, Ends DEF InUse
  <2>2. PICK first \in Int, i \in Int, j \in Int, n \in Int :
          Split(first, i, j, n) /\ (w = Front => i = 1)
    BY <2>1, SplitExists
  <2>3. i = 1 /\ first = 1
    BY <2>1, <2>2, Ends DEF InUse, Split
  <2>4. Stream = ItemsAt(1, 1 - 1)
    BY <2>1, <2>2, <2>3 DEF Stretches
  <2> QED
    BY <2>4, NoItems
<1> QED
  BY <1>1, Invariance, PTL

-----------------------------------------------------------------------------
(* The pipe implements the abstract pipe                                    *)

LEMMA PipeInitially == Init => Abstract!PipeInit
<1> SUFFICES ASSUME Init PROVE Open = <<>> /\ Complete = <<>> /\ Stream = <<>> /\ got = NoValue
  BY DEF Abstract!PipeInit
<1>1. ~Constructed /\ got = NoValue
  BY DEF Init, Constructed
<1> QED
  BY <1>1 DEF Open, Complete, Stream

(* Values that have moved d places towards the front are the same items.    *)
LEMMA ItemsMoved ==
  ASSUME NEW a \in Int, NEW b \in Int, NEW d \in Int,
         \A m \in a .. b, n \in Int : n = m - d => val'[span'[n]] = val[span[m]]
  PROVE  ItemsAt(a - d, b - d)' = ItemsAt(a, b)
<1>1. (b - d) - (a - d) + 1 = b - a + 1
  OBVIOUS
<1>2. ASSUME NEW k \in 1 .. b - a + 1
      PROVE  val'[span'[(a - d) + k - 1]] = val[span[a + k - 1]]
  <2>1. a + k - 1 \in a .. b /\ (a - d) + k - 1 = (a + k - 1) - d
    OBVIOUS
  <2> QED
    BY <2>1
<1> QED
  BY <1>1, <1>2 DEF ItemsAt

LEMMA ItemsUnmoved ==
  ASSUME NEW a \in Int, NEW b \in Int, \A m \in a .. b : val'[span'[m]] = val[span[m]]
  PROVE  ItemsAt(a, b)' = ItemsAt(a, b)
<1>1. ASSUME NEW k \in 1 .. b - a + 1 PROVE val'[span'[a + k - 1]] = val[span[a + k - 1]]
  <2>1. a + k - 1 \in a .. b
    OBVIOUS
  <2> QED
    BY <2>1
<1> QED
  BY <1>1 DEF ItemsAt

(* Two stretches that meet are one.                                         *)
LEMMA ItemsJoin ==
  ASSUME NEW a \in Int, NEW m \in Int, NEW b \in Int, a <= m, m <= b + 1
  PROVE  ItemsAt(a, m - 1) \o ItemsAt(m, b) = ItemsAt(a, b)
<1> DEFINE p == ItemsAt(a, m - 1)
           q == ItemsAt(m, b)
           s == ItemsAt(a, b)
<1>1. /\ p \in Seq(Contents) /\ q \in Seq(Contents) /\ s \in Seq(Contents)
      /\ Len(p) = m - a /\ Len(q) = b - m + 1 /\ Len(s) = b - a + 1
  BY ItemsAtMeans DEF ItemsAtMeaning
<1>2. ASSUME NEW i \in 1 .. m - a PROVE s[i] = p[i]
  BY DEF ItemsAt
<1>3. ASSUME NEW i \in 1 .. b - m + 1 PROVE s[(m - a) + i] = q[i]
  <2>1. PICK n \in m .. b : n = m + i - 1
    OBVIOUS
  <2>2. (m - a) + i \in 1 .. b - a + 1 /\ n = a + ((m - a) + i) - 1 /\ n \in a .. b
    BY <2>1
  <2>3. q[i] = val[span[n]]
    BY <2>1 DEF ItemsAt
  <2>4. PICK k \in 1 .. b - a + 1 : k = (m - a) + i /\ n = a + k - 1
    BY <2>2
  <2>5. s[k] = val[span[n]]
    BY <2>2, <2>4 DEF ItemsAt
  <2> QED
    BY <2>3, <2>4, <2>5
<1>4. m - a \in Nat /\ b - m + 1 \in Nat /\ Len(s) = Len(p) + Len(q)
  BY <1>1
<1> HIDE DEF p, q, s
<1>5. s = p \o q
  <2>1. \A i \in 1 .. Len(p) : s[i] = p[i]
    BY <1>1, <1>2
  <2>2. \A i \in 1 .. Len(q) : s[Len(p) + i] = q[i]
    BY <1>1, <1>3
  <2>3. PICK C : p \in Seq(C) /\ q \in Seq(C) /\ s \in Seq(C)
    BY <1>1
  <2>4. Len(s) = Len(p) + Len(q)
    BY <1>4
  <2> QED
    BY <2>1, <2>2, <2>3, <2>4, IsConcat
<1> QED
  BY <1>5 DEF p, q, s

(* Nothing happens to the items, for whoever looks at the pipe from outside.*)
LEMMA QuietActionsStutter ==
  ASSUME Inv, Inv', UNCHANGED <<span, val, w, f, got>>, Constructed, Constructed',
         reader' = "pop" <=> reader = "pop"
  PROVE  UNCHANGED <<Open, Complete, Stream, got>>
<1>1. PICK first \in Int, i \in Int, j \in Int, n \in Int : Split(first, i, j, n)
  BY SplitExists
<1>2. Split(first, i, j, n)'
  BY <1>1 DEF Split
<1>3. /\ Stream = ItemsAt(first, i - 1) /\ Complete = ItemsAt(i, j - 1) /\ Open = ItemsAt(j, n)
  BY <1>1, StretchesMean DEF Stretches
<1>4. Stream' = ItemsAt(first, i - 1)' /\ Complete' = ItemsAt(i, j - 1)' /\ Open' = ItemsAt(j, n)'
  BY <1>2, ItemsNext DEF Stretches
<1>5. ASSUME NEW a \in Int, NEW b \in Int PROVE ItemsAt(a, b)' = ItemsAt(a, b)
  BY ItemsUnmoved
<1>6. i - 1 \in Int /\ j - 1 \in Int
  OBVIOUS
<1> QED
  BY <1>3, <1>4, <1>5, <1>6

LEMMA SplitUp ==
  ASSUME Inv, Constructed
  PROVE  \E first, i, j, n \in Int :
           /\ Split(first, i, j, n) /\ first \in {1, 2} /\ first <= i /\ i <= j /\ j <= n + 1
           /\ Stream = ItemsAt(first, i - 1)
           /\ Complete = ItemsAt(i, j - 1)
           /\ Open = ItemsAt(j, n)
<1>1. PICK first \in Int, i \in Int, j \in Int, n \in Int :
        Split(first, i, j, n) /\ first \in {1, 2} /\ first <= i
  BY SplitExists
<1>2. i <= j /\ j <= n + 1
  BY <1>1 DEF Split
<1> QED
  BY <1>1, <1>2, StretchesMean DEF Stretches

LEMMA SplitNext ==
  ASSUME Inv', Constructed', NEW first \in Int, NEW i \in Int, NEW j \in Int, NEW n \in Int,
         Split(first, i, j, n)'
  PROVE  /\ Stream' = ItemsAt(first, i - 1)'
         /\ Complete' = ItemsAt(i, j - 1)'
         /\ Open' = ItemsAt(j, n)'
  BY ItemsNext DEF Stretches

(* The terminator that the constructor pushes is no item.                   *)
LEMMA ConstructStutters ==
  ASSUME Inv, Inv', Construct PROVE UNCHANGED <<Open, Complete, Stream, got>>
<1>1. ~Constructed /\ Constructed' /\ span = <<>>
  BY DEF Construct, Constructed, Inv, Unused
<1>2. Open = <<>> /\ Complete = <<>> /\ Stream = <<>>
  BY <1>1, StretchesMean DEF Stretches
<1>3. Len(span') = 1 /\ span'[1] = End
  BY <1>1 DEF Construct, Push
<1>4. Split(1, 1, 1, 0)'
  BY <1>3 DEF Split, Construct
<1>5. Stream' = ItemsAt(1, 1 - 1)' /\ Complete' = ItemsAt(1, 1 - 1)' /\ Open' = ItemsAt(1, 0)'
  BY <1>1, <1>4, SplitNext
<1>6. ItemsAt(1, 1 - 1)' = <<>> /\ 1 - 1 = 0
  BY ItemsNext
<1> QED
  BY <1>2, <1>5, <1>6 DEF Construct

(* One more item at the end of a stretch.                                   *)
LEMMA ItemsGrow ==
  ASSUME NEW a \in Int, NEW n \in Int, NEW v, a <= n + 1,
         \A m \in a .. n : val'[span'[m]] = val[span[m]], val'[span'[n + 1]] = v
  PROVE  ItemsAt(a, n + 1)' = Append(ItemsAt(a, n), v)
<1>1. PICK C, p : p \in Seq(C) /\ p = ItemsAt(a, n) /\ Len(p) = n - a + 1
  <2>1. n >= a - 1
    OBVIOUS
  <2>2. ItemsAt(a, n) \in Seq(Contents) /\ Len(ItemsAt(a, n)) = n - a + 1
    BY <2>1, ItemsAtMeans DEF ItemsAtMeaning
  <2> QED
    BY <2>2
<1>2. PICK D, q : q \in Seq(D) /\ q = ItemsAt(a, n + 1)' /\ Len(q) = (n + 1) - a + 1
  <2>1. PICK b \in Int : b = n + 1 /\ b >= a - 1
    OBVIOUS
  <2>2. ItemsAt(a, b)' \in Seq(Contents') /\ Len(ItemsAt(a, b)') = b - a + 1
    BY <2>1, ItemsNext DEF ItemsAtMeaning
  <2> QED
    BY <2>1, <2>2
<1>3. \A k \in 1 .. Len(p) : q[k] = p[k]
  <2> SUFFICES ASSUME NEW k \in 1 .. n - a + 1 PROVE q[k] = p[k]
    BY <1>1
  <2>1. PICK m \in a .. n : m = a + k - 1
    OBVIOUS
  <2>2. k \in 1 .. (n + 1) - a + 1
    OBVIOUS
  <2>3. p[k] = val[span[m]]
    BY <1>1, <2>1 DEF ItemsAt
  <2>4. q[k] = val'[span'[m]]
    BY <1>2, <2>1, <2>2 DEF ItemsAt
  <2> QED
    BY <2>1, <2>3, <2>4
<1>4. q[Len(p) + 1] = v
  <2>1. PICK k \in 1 .. (n + 1) - a + 1 : k = Len(p) + 1 /\ a + k - 1 = n + 1
    BY <1>1
  <2>2. q[k] = val'[span'[n + 1]]
    BY <1>2, <2>1 DEF ItemsAt
  <2> QED
    BY <2>1, <2>2
<1>5. Len(q) = Len(p) + 1
  BY <1>1, <1>2
<1>6. q = Append(p, v)
  BY <1>1, <1>2, <1>3, <1>4, <1>5, IsAppend
<1> QED
  BY <1>1, <1>2, <1>6

(* write writes the item before the terminator; a complete one makes those  *)
(* before it complete.                                                      *)
LEMMA WriteRefines ==
  ASSUME Inv, Inv', NEW v \in Values, NEW incomplete \in BOOLEAN, Write(v, incomplete)
  PROVE  Abstract!PipeNext
<1>1. Constructed /\ Constructed' /\ QueueTypeOK
  BY DEF Write, Constructed, Inv, QueueInv
<1>2. PICK first \in Int, i \in Int, j \in Int, n \in Int :
        /\ Split(first, i, j, n) /\ first \in {1, 2} /\ first <= i /\ i <= j /\ j <= n + 1
        /\ Stream = ItemsAt(first, i - 1)
        /\ Complete = ItemsAt(i, j - 1)
        /\ Open = ItemsAt(j, n)
  BY <1>1, SplitUp
<1>3. /\ Len(span) = n + 1 /\ 1 <= i /\ n \in Nat /\ span \in Seq(Addresses)
      /\ Back = span[n + 1] /\ Back \in Addresses
      /\ \A m \in 1 .. n : span[m] # Back /\ span[m] \in Addresses
  <2>1. Len(span) = n + 1 /\ 1 <= i
    BY <1>1, <1>2, Ends DEF Split
  <2>2. n \in Nat /\ n + 1 \in 1 .. Len(span) /\ \A m \in 1 .. n : m \in 1 .. Len(span) /\ m # n + 1
    BY <1>2, <2>1
  <2> QED
    BY <1>1, <2>1, <2>2, Ends DEF QueueTypeOK
<1>4. /\ Len(span') = n + 2 /\ span'[n + 2] = End
      /\ \A m \in 1 .. n + 1 : span'[m] = span[m]
  BY <1>3 DEF Write, Push
<1>5. /\ \A m \in 1 .. n : val'[span'[m]] = val[span[m]]
      /\ val'[span'[n + 1]] = v
  BY <1>1, <1>3, <1>4 DEF Write, QueueTypeOK
<1>6. first <= n + 1 /\ i <= n + 1 /\ n + 1 \in Int /\ n + 2 \in Int
  BY <1>2
<1>7. ASSUME NEW a \in Int, NEW b \in Int, 1 <= a, b <= n PROVE ItemsAt(a, b)' = ItemsAt(a, b)
  BY <1>5, <1>7, ItemsUnmoved
<1>8. ASSUME NEW a \in Int, 1 <= a, a <= n + 1
      PROVE  ItemsAt(a, n + 1)' = Append(ItemsAt(a, n), v)
  <2>1. \A m \in a .. n : val'[span'[m]] = val[span[m]]
    BY <1>5, <1>8
  <2> QED
    BY <1>5, <1>8, <2>1, ItemsGrow
<1>9. UNCHANGED <<w, reader, got>>
  BY DEF Write
<1>10. CASE incomplete
  <2>1. Split(first, i, j, n + 1)'
    BY <1>2, <1>3, <1>4, <1>9, <1>10 DEF Split, Write
  <2>2. /\ Stream' = ItemsAt(first, i - 1)' /\ Complete' = ItemsAt(i, j - 1)'
        /\ Open' = ItemsAt(j, n + 1)'
    BY <1>1, <1>6, <2>1, SplitNext
  <2>3. Stream' = Stream /\ Complete' = Complete
    BY <1>2, <1>3, <1>7, <2>2
  <2>4. Open' = Append(Open, v)
    BY <1>2, <1>3, <1>8, <2>2
  <2> QED
    BY <1>9, <2>3, <2>4 DEF Abstract!PipeNext, Abstract!WriteOpen
<1>11. CASE ~incomplete
  <2>1. f' = End
    BY <1>11 DEF Write
  <2>2. Split(first, i, n + 2, n + 1)'
    BY <1>2, <1>3, <1>4, <1>9, <2>1 DEF Split
  <2>3. /\ Stream' = ItemsAt(first, i - 1)' /\ Complete' = ItemsAt(i, (n + 2) - 1)'
        /\ Open' = ItemsAt(n + 2, n + 1)'
    BY <1>1, <1>6, <2>2, SplitNext
  <2>4. Stream' = Stream
    BY <1>2, <1>3, <1>7, <2>3
  <2>5. Complete' = Append(ItemsAt(i, n), v)
    <3>1. (n + 2) - 1 = n + 1
      OBVIOUS
    <3> QED
      BY <1>3, <1>6, <1>8, <2>3, <3>1
  <2>6. Complete \o Open = ItemsAt(i, n)
    BY <1>2, ItemsJoin
  <2>7. Open' = <<>>
    <3>1. n + 1 = (n + 2) - 1
      OBVIOUS
    <3> QED
      BY <1>6, <2>3, <3>1, ItemsNext
  <2> QED
    BY <1>9, <2>4, <2>5, <2>6, <2>7 DEF Abstract!PipeNext, Abstract!WriteComplete
<1> QED
  BY <1>10, <1>11

(* unwrite takes back the last item, an incomplete one: f is not past it.   *)
LEMMA UnwriteRefines == ASSUME Inv, Inv', Unwrite PROVE Abstract!TakeBack
<1>1. Constructed /\ Constructed' /\ QueueInv /\ reader' = reader
  BY DEF Unwrite, Constructed, Inv, control
<1>2. PICK first \in Int, i \in Int, j \in Int, n \in Int :
        /\ Split(first, i, j, n) /\ first \in {1, 2} /\ first <= i /\ i <= j /\ j <= n + 1
        /\ Stream = ItemsAt(first, i - 1)
        /\ Complete = ItemsAt(i, j - 1)
        /\ Open = ItemsAt(j, n)
  BY <1>1, SplitUp
<1>3. Len(span) = n + 1 /\ 1 <= i /\ span[j] = f /\ Back = span[n + 1] /\ f # Back
  BY <1>1, <1>2, Ends DEF Split, Unwrite
<1>4. j <= n /\ n \in Nat /\ Len(span) >= 2
  BY <1>2, <1>3
<1>5. Len(span') = n /\ \A m \in 1 .. n : span'[m] = span[m]
  BY <1>1, <1>3, <1>4, UnpushKeeps DEF Unwrite
<1>6. UNCHANGED <<val, w, f, got>>
  BY DEF Unwrite, control
<1>7. Split(first, i, j, n - 1)'
  BY <1>1, <1>2, <1>3, <1>4, <1>5, <1>6 DEF Split
<1>8. /\ Stream' = ItemsAt(first, i - 1)' /\ Complete' = ItemsAt(i, j - 1)'
      /\ Open' = ItemsAt(j, n - 1)'
  BY <1>1, <1>7, SplitNext
<1>9. ASSUME NEW a \in Int, NEW b \in Int, 1 <= a, b <= n PROVE ItemsAt(a, b)' = ItemsAt(a, b)
  BY <1>5, <1>6, <1>9, ItemsUnmoved
<1>10. Stream' = Stream /\ Complete' = Complete /\ Open' = ItemsAt(j, n - 1)
  BY <1>2, <1>3, <1>4, <1>8, <1>9
<1>11. Open # <<>> /\ Open' = SubSeq(Open, 1, Len(Open) - 1)
  <2>1. PICK b \in Int : b = n - 1 /\ b >= j - 1 /\ n >= j - 1 /\ b - j + 1 = (n - j + 1) - 1
    BY <1>4
  <2>2. PICK C, p, q : /\ p \in Seq(C) /\ q \in Seq(C) /\ p = Open /\ q = Open'
                       /\ Len(p) = n - j + 1 /\ Len(q) = b - j + 1
    <3>1. ItemsAt(j, n) \in Seq(Contents) /\ Len(ItemsAt(j, n)) = n - j + 1
      BY <2>1, ItemsAtMeans DEF ItemsAtMeaning
    <3>2. ItemsAt(j, b) \in Seq(Contents) /\ Len(ItemsAt(j, b)) = b - j + 1
      BY <2>1, ItemsAtMeans DEF ItemsAtMeaning
    <3> QED
      BY <1>2, <1>10, <2>1, <3>1, <3>2
  <2>3. ASSUME NEW k \in 1 .. Len(q) PROVE q[k] = p[k]
    <3>1. PICK m \in j .. b : m = j + k - 1
      BY <2>1, <2>2
    <3>2. k \in 1 .. b - j + 1 /\ k \in 1 .. n - j + 1
      BY <2>1, <2>2
    <3>3. q = ItemsAt(j, b) /\ p = ItemsAt(j, n)
      BY <1>2, <1>10, <2>1, <2>2
    <3>4. q[k] = val[span[m]] /\ p[k] = val[span[m]]
      BY <3>1, <3>2, <3>3 DEF ItemsAt
    <3> QED
      BY <3>4
  <2>4. p # <<>> /\ Len(q) = Len(p) - 1
    BY <1>4, <2>1, <2>2
  <2>5. q = SubSeq(p, 1, Len(p) - 1)
    BY <2>2, <2>3, <2>4, IsFront
  <2> QED
    BY <2>2, <2>4, <2>5
<1> QED
  BY <1>6, <1>10, <1>11 DEF Abstract!TakeBack

(* A flush that reaches w sends the complete items, whether or not it finds *)
(* the reader asleep.                                                       *)
LEMMA SendRefines ==
  ASSUME Inv, Inv', Constructed, Constructed', UNCHANGED <<queueVars, f, reader, got>>, w' = f
  PROVE  Abstract!SendBatch
<1>1. UNCHANGED <<span, val>>
  BY DEF queueVars
<1>2. PICK first \in Int, i \in Int, j \in Int, n \in Int :
        /\ Split(first, i, j, n) /\ first \in {1, 2} /\ first <= i /\ i <= j /\ j <= n + 1
        /\ Stream = ItemsAt(first, i - 1)
        /\ Complete = ItemsAt(i, j - 1)
        /\ Open = ItemsAt(j, n)
  BY SplitUp
<1>3. Split(first, j, j, n)'
  BY <1>1, <1>2 DEF Split
<1>4. /\ Stream' = ItemsAt(first, j - 1)' /\ Complete' = ItemsAt(j, j - 1)'
      /\ Open' = ItemsAt(j, n)'
  BY <1>3, SplitNext
<1>5. ASSUME NEW a \in Int, NEW b \in Int PROVE ItemsAt(a, b)' = ItemsAt(a, b)
  BY <1>1, ItemsUnmoved
<1>6. Stream' = ItemsAt(first, j - 1) /\ Open' = Open
  <2>1. j - 1 \in Int
    OBVIOUS
  <2> QED
    BY <1>2, <1>4, <1>5, <2>1
<1>7. Stream \o Complete = ItemsAt(first, j - 1)
  <2>1. PICK b \in Int : b = j - 1 /\ i <= b + 1
    BY <1>2
  <2>2. ItemsAt(first, i - 1) \o ItemsAt(i, b) = ItemsAt(first, b)
    BY <1>2, <2>1, ItemsJoin
  <2> QED
    BY <1>2, <2>1, <2>2
<1>8. Complete' = <<>>
  BY <1>4, ItemsNext
<1> QED
  BY <1>6, <1>7, <1>8 DEF Abstract!SendBatch

(* read copies the front item, the first of those flushed.                  *)
LEMMA CopyItemRefines == ASSUME Inv, Inv', CopyItem PROVE Abstract!Receive
<1>1. /\ UNCHANGED <<queueVars, w, f, r, c, writer, signal, client, writes>>
      /\ Constructed /\ Constructed' /\ reader = "copy" /\ reader' = "pop" /\ got' = val[Front]
  BY DEF CopyItem, Inv, Unused, Constructed
<1>2. UNCHANGED <<span, val>> /\ Front = span[1]
  BY <1>1, Ends DEF queueVars
<1>3. PICK first \in Int, i \in Int, j \in Int, n \in Int :
        /\ Split(first, i, j, n) /\ first \in {1, 2} /\ first <= i /\ i <= j /\ j <= n + 1
        /\ Stream = ItemsAt(first, i - 1)
        /\ Complete = ItemsAt(i, j - 1)
        /\ Open = ItemsAt(j, n)
  BY <1>1, SplitUp
<1>4. first = 1 /\ i >= 2
  <2>1. PICK h \in 1 .. Len(span), k \in 1 .. Len(span) : span[h] = w /\ 2 <= k /\ k <= h
    BY <1>1, ItemsAhead
  <2>2. i \in 1 .. Len(span) /\ span[i] = w
    BY <1>1, <1>3, Ends DEF Split
  <2>3. h = i
    BY <1>1, <2>1, <2>2, Ends
  <2> QED
    BY <1>1, <1>3, <2>1, <2>3 DEF Split
<1>5. Split(2, i, j, n)'
  BY <1>1, <1>2, <1>3 DEF Split
<1>6. Stream' = ItemsAt(2, i - 1)' /\ Complete' = ItemsAt(i, j - 1)' /\ Open' = ItemsAt(j, n)'
  BY <1>1, <1>5, SplitNext
<1>7. ASSUME NEW a \in Int, NEW b \in Int PROVE ItemsAt(a, b)' = ItemsAt(a, b)
  BY <1>2, ItemsUnmoved
<1>8. PICK b \in Int : b = i - 1 /\ b >= 1
  BY <1>4
<1>9. Stream' = ItemsAt(2, b) /\ Stream = ItemsAt(1, b) /\ Complete' = Complete /\ Open' = Open
  <2>1. j - 1 \in Int
    OBVIOUS
  <2> QED
    BY <1>3, <1>4, <1>6, <1>7, <1>8, <2>1
<1>10. PICK C, p, q : /\ p \in Seq(C) /\ q \in Seq(C) /\ p = Stream /\ q = Stream'
                      /\ Len(p) = b /\ Len(q) = b - 1
  <2>1. ItemsAt(1, b) \in Seq(Contents) /\ Len(ItemsAt(1, b)) = b
    BY <1>8, ItemsAtMeans DEF ItemsAtMeaning
  <2>2. ItemsAt(2, b) \in Seq(Contents) /\ Len(ItemsAt(2, b)) = b - 1
    BY <1>8, ItemsAtMeans DEF ItemsAtMeaning
  <2> QED
    BY <1>9, <2>1, <2>2
<1>11. ASSUME NEW k \in 1 .. b PROVE p[k] = val[span[k]]
  <2>1. k \in 1 .. b - 1 + 1 /\ 1 + k - 1 = k
    BY <1>8
  <2> QED
    BY <1>9, <1>10, <2>1 DEF ItemsAt
<1>12. ASSUME NEW k \in 1 .. b - 1 PROVE q[k] = val[span[k + 1]]
  <2>1. k \in 1 .. b - 2 + 1 /\ 2 + k - 1 = k + 1
    BY <1>8
  <2> QED
    BY <1>9, <1>10, <2>1 DEF ItemsAt
<1>13. q = Tail(p)
  <2>1. \A k \in 1 .. Len(q) : q[k] = p[k + 1]
    <3> SUFFICES ASSUME NEW k \in 1 .. b - 1 PROVE q[k] = p[k + 1]
      BY <1>10
    <3>1. k + 1 \in 1 .. b
      BY <1>8
    <3> QED
      BY <1>11, <1>12, <3>1
  <2>2. p # <<>> /\ Len(q) = Len(p) - 1
    BY <1>8, <1>10
  <2> QED
    BY <1>10, <2>1, <2>2, IsTail
<1>14. p # <<>> /\ Head(p) = val[span[1]]
  <2>1. 1 \in 1 .. b /\ Head(p) = p[1]
    BY <1>8, <1>10
  <2> QED
    BY <1>8, <1>10, <1>11, <2>1
<1> QED
  BY <1>1, <1>2, <1>9, <1>10, <1>13, <1>14 DEF Abstract!Receive

(* The item read has left the stream; popping it moves the others up.       *)
LEMMA PopItemStutters == ASSUME Inv, Inv', PopItem PROVE UNCHANGED <<Open, Complete, Stream, got>>
<1>1. /\ UNCHANGED <<w, f, r, c, val, writer, signal, client, got, writes>>
      /\ Constructed /\ Constructed' /\ reader = "pop" /\ reader' = "idle" /\ Pop
  BY DEF PopItem, Inv, Unused, Constructed, Pop
<1>2. QueueInv /\ Len(span) \in Nat /\ span # <<>>
  BY <1>1, Ends DEF Inv
<1>3. PICK first \in Int, i \in Int, j \in Int, n \in Int :
        /\ Split(first, i, j, n) /\ first \in {1, 2} /\ first <= i /\ i <= j /\ j <= n + 1
        /\ Stream = ItemsAt(first, i - 1)
        /\ Complete = ItemsAt(i, j - 1)
        /\ Open = ItemsAt(j, n)
  BY <1>1, SplitUp
<1>4. first = 2 /\ Len(span) = n + 1
  BY <1>1, <1>2, <1>3 DEF Split
<1>5. Len(span') = n /\ \A m \in 1 .. n : span'[m] = span[m + 1]
  BY <1>1, <1>2, <1>4, PopKeeps
<1>6. Split(1, i - 1, j - 1, n - 1)'
  <2>1. i - 1 \in 1 .. n /\ j - 1 \in 1 .. n /\ (i - 1) + 1 = i /\ (j - 1) + 1 = j
    BY <1>3, <1>4
  <2> QED
    BY <1>1, <1>3, <1>4, <1>5, <2>1 DEF Split
<1>7. /\ Stream' = ItemsAt(1, (i - 1) - 1)' /\ Complete' = ItemsAt(i - 1, (j - 1) - 1)'
      /\ Open' = ItemsAt(j - 1, n - 1)'
  BY <1>1, <1>6, SplitNext
<1>8. ASSUME NEW a \in Int, NEW b \in Int, 2 <= a, b <= n
      PROVE  ItemsAt(a - 1, b - 1)' = ItemsAt(a, b)
  <2>1. PICK d \in Int : d = 1
    OBVIOUS
  <2>2. ASSUME NEW m \in a .. b, NEW k \in Int, k = m - d
        PROVE  val'[span'[k]] = val[span[m]]
    BY <1>1, <1>4, <1>5, <1>8, <2>1, <2>2
  <2>3. ItemsAt(a - d, b - d)' = ItemsAt(a, b)
    BY <2>2, ItemsMoved
  <2> QED
    BY <2>1, <2>3
<1>9. Stream' = Stream
  <2>1. i - 1 \in Int /\ i - 1 <= n /\ 2 - 1 = 1
    BY <1>3
  <2> QED
    BY <1>3, <1>4, <1>7, <1>8, <2>1
<1>10. Complete' = Complete
  <2>1. j - 1 \in Int /\ j - 1 <= n /\ 2 <= i
    BY <1>3, <1>4
  <2> QED
    BY <1>3, <1>7, <1>8, <2>1
<1>11. Open' = Open
  <2>1. 2 <= j
    BY <1>3, <1>4
  <2> QED
    BY <1>3, <1>7, <1>8, <2>1
<1> QED
  BY <1>1, <1>9, <1>10, <1>11

LEMMA StepsRefine == Inv /\ Inv' /\ [Next]_vars => [Abstract!PipeNext]_(Abstract!pipeVars)
<1> SUFFICES ASSUME Inv, Inv', [Next]_vars
             PROVE  Abstract!PipeNext \/ UNCHANGED <<Open, Complete, Stream, got>>
  BY DEF Abstract!pipeVars
<1>1. CASE Construct
  BY <1>1, ConstructStutters
<1>2. ASSUME NEW v \in Values, NEW incomplete \in BOOLEAN, Write(v, incomplete)
      PROVE  Abstract!PipeNext
  BY <1>2, WriteRefines
<1>3. CASE Unwrite
  BY <1>3, UnwriteRefines DEF Abstract!PipeNext
<1>4. CASE Flush
  <2>1. Constructed /\ Constructed'
    BY <1>4 DEF Flush, Constructed
  <2>2. CASE c = w
    BY <1>4, <2>1, <2>2, SendRefines DEF Flush, Abstract!PipeNext
  <2>3. CASE c # w
    BY <1>4, <2>1, <2>3, QuietActionsStutter DEF Flush, queueVars
  <2> QED
    BY <2>2, <2>3
<1>5. CASE FlushSet
  <2>1. Constructed /\ Constructed'
    BY <1>5 DEF FlushSet, Constructed
  <2> QED
    BY <1>5, <2>1, SendRefines DEF FlushSet, Abstract!PipeNext
<1>6. CASE CopyItem
  BY <1>6, CopyItemRefines DEF Abstract!PipeNext
<1>7. CASE PopItem
  BY <1>7, PopItemStutters
<1>8. CASE Wake \/ NotifyAsleep \/ Finish \/ Awaken \/ Wait \/ Poll
  <2> USE DEF Wake, NotifyAsleep, Finish, Notify, Awaken, Wait, Poll
  <2>1. /\ UNCHANGED <<span, val, w, f, got>> /\ Constructed /\ Constructed'
        /\ reader' = "pop" <=> reader = "pop"
    BY <1>8 DEF Inv, Unused, Constructed, queueVars
  <2> QED
    BY <2>1, QuietActionsStutter
<1>9. CASE Read \/ Probe
  <2>1. PICK then \in {"copy", "idle"} : CheckRead(then)
    BY <1>9 DEF Read, Probe
  <2>2. /\ UNCHANGED <<span, val, w, f, got>> /\ Constructed /\ Constructed'
        /\ reader' = "pop" <=> reader = "pop"
    BY <2>1 DEF CheckRead, Inv, Unused, Constructed, queueVars
  <2> QED
    BY <2>2, QuietActionsStutter
<1>10. CASE UNCHANGED vars
  BY <1>10 DEF vars, queueVars, control, Open, Complete, Stream, ItemsAt, Place, Constructed
<1> QED
  BY <1>1, <1>2, <1>3, <1>4, <1>5, <1>6, <1>7, <1>8, <1>9, <1>10 DEF Next, WriterStep, ReaderStep

(* What is read is what was written and not taken back, in order, batch by  *)
(* batch: every step of the pipe is one of the abstract pipe, or none.      *)
THEOREM Refinement == Spec => ImplementsPipe
  BY PipeInitially, StepsRefine, Invariance, PTL
     DEF Spec, ImplementsPipe, Abstract!PipeSpec
=============================================================================
