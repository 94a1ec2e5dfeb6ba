------------------------------ MODULE DataLemmas ------------------------------
(* Facts about sequences and numbers that the proofs of several modules     *)
(* share.                                                                   *)
EXTENDS Sequences, Integers, SequenceTheorems, FiniteSetTheorems, TLAPS

-----------------------------------------------------------------------------
(* Sequences                                                                *)

(* A sequence with one more element at its end is the result of Append.     *)
LEMMA IsAppend ==
  ASSUME NEW S, NEW T, NEW p \in Seq(S), NEW q \in Seq(T), NEW e,
         Len(q) = Len(p) + 1, q[Len(p) + 1] = e,
         \A i \in 1 .. Len(p) : q[i] = p[i]
  PROVE  q = Append(p, e)
<1> DEFINE U == S \cup T \cup {e}
<1>1. p \in Seq(U) /\ q \in Seq(U)
  BY SeqMonotonic
<1>2. /\ Append(p, e) \in Seq(U) /\ Len(Append(p, e)) = Len(p) + 1
      /\ \A i \in 1 .. Len(p) + 1 : Append(p, e)[i] = IF i <= Len(p) THEN p[i] ELSE e
  BY <1>1
<1>3. Len(p) \in Nat
  BY LenProperties
<1> QED
  BY <1>1, <1>2, <1>3, SeqEqual

(* A sequence with the first element missing is the result of Tail.         *)
LEMMA IsTail ==
  ASSUME NEW S, NEW T, NEW p \in Seq(S), NEW q \in Seq(T), p # <<>>,
         Len(q) = Len(p) - 1, \A i \in 1 .. Len(q) : q[i] = p[i + 1]
  PROVE  q = Tail(p)
<1> DEFINE U == S \cup T
<1>1. p \in Seq(U) /\ q \in Seq(U)
  BY SeqMonotonic
<1>2. /\ Tail(p) \in Seq(U) /\ Len(Tail(p)) = Len(p) - 1
      /\ \A i \in 1 .. Len(Tail(p)) : Tail(p)[i] = p[i + 1]
  BY <1>1, HeadTailProperties
<1> QED
  BY <1>1, <1>2, SeqEqual

(* A sequence that begins like one and goes on like another is their        *)
(* concatenation.                                                           *)
LEMMA IsConcat ==
  ASSUME NEW S, NEW p \in Seq(S), NEW q \in Seq(S), NEW s \in Seq(S),
         Len(s) = Len(p) + Len(q), \A i \in 1 .. Len(p) : s[i] = p[i],
         \A i \in 1 .. Len(q) : s[Len(p) + i] = q[i]
  PROVE  s = p \o q
<1>1. /\ p \o q \in Seq(S) /\ Len(p \o q) = Len(p) + Len(q)
      /\ \A i \in 1 .. Len(p) + Len(q) : (p \o q)[i] = IF i <= Len(p) THEN p[i] ELSE q[i - Len(p)]
  BY ConcatProperties
<1>2. Len(p) \in Nat /\ Len(q) \in Nat
  BY LenProperties
<1>3. ASSUME NEW i \in 1 .. Len(s) PROVE s[i] = (p \o q)[i]
  <2>1. CASE i <= Len(p)
    BY <1>1, <1>2, <2>1
  <2>2. CASE i > Len(p)
    <3>1. i - Len(p) \in 1 .. Len(q) /\ Len(p) + (i - Len(p)) = i
      BY <1>2, <2>2
    <3>2. s[Len(p) + (i - Len(p))] = q[i - Len(p)]
      BY <3>1
    <3> QED
      BY <1>1, <1>2, <2>2, <3>1, <3>2
  <2> QED
    BY <1>2, <2>1, <2>2
<1> QED
  BY <1>1, <1>3, SeqEqual

(* A sequence with the last element missing.                                *)
LEMMA IsFront ==
  ASSUME NEW S, NEW T, NEW p \in Seq(S), NEW q \in Seq(T), p # <<>>,
         Len(q) = Len(p) - 1, \A i \in 1 .. Len(q) : q[i] = p[i]
  PROVE  q = SubSeq(p, 1, Len(p) - 1)
<1> DEFINE U == S \cup T
<1>1. p \in Seq(U) /\ q \in Seq(U) /\ Len(p) \in Nat
  BY SeqMonotonic
<1>2. \A i \in 1 .. Len(p) - 1 : p[i] \in U
  BY <1>1
<1>3. /\ SubSeq(p, 1, Len(p) - 1) \in Seq(U)
      /\ Len(SubSeq(p, 1, Len(p) - 1)) = IF 1 <= Len(p) - 1 THEN (Len(p) - 1) - 1 + 1 ELSE 0
      /\ \A i \in 1 .. (Len(p) - 1) - 1 + 1 : SubSeq(p, 1, Len(p) - 1)[i] = p[1 + i - 1]
  <2>1. 1 \in Int /\ Len(p) - 1 \in Int
    BY <1>1
  <2> HIDE DEF U
  <2> QED
    BY <1>2, <2>1, SubSeqProperties
<1>4. Len(q) = Len(SubSeq(p, 1, Len(p) - 1)) /\ Len(q) \in Nat
  BY <1>1, <1>3
<1>5. ASSUME NEW i \in 1 .. Len(q) PROVE q[i] = SubSeq(p, 1, Len(p) - 1)[i]
  <2>1. i \in 1 .. (Len(p) - 1) - 1 + 1 /\ 1 + i - 1 = i
    BY <1>1, <1>4
  <2> QED
    BY <1>3, <2>1
<1> HIDE DEF U
<1> QED
  BY <1>1, <1>3, <1>4, <1>5, SeqEqual

-----------------------------------------------------------------------------
(* Induction.  The library's induction theorems have an operator as a       *)
(* parameter; with a set in its place the provers can use them.  Of two     *)
(* intervals from 1, the shorter one is a strict subset: so a set of        *)
(* numbers has a least element because finite subsets are well-founded.     *)

(* Induction from a number to the next.                                     *)
LEMMA SetInduction ==
  ASSUME NEW S \in SUBSET Nat, 0 \in S, \A n \in S : n + 1 \in S
  PROVE  Nat \subseteq S
<1> SUFFICES ASSUME NEW m \in Nat, m \notin S PROVE FALSE
  OBVIOUS
<1> DEFINE Below == {1 .. n : n \in Nat \ S}
<1>1. Below \subseteq FiniteSubsetsOf(Nat) /\ Below # {}
  <2>1. ASSUME NEW n \in Nat PROVE 1 .. n \in SUBSET Nat /\ IsFiniteSet(1 .. n)
    BY FS_Interval
  <2> QED
    BY <2>1 DEF FiniteSubsetsOf
<1>2. PICK x \in Below : \A y \in Below : <<y, x>> \notin StrictSubsetOrdering(Nat)
  <2> HIDE DEF Below
  <2> QED
    BY <1>1, WFMin, FS_StrictSubsetOrderingWellFounded
<1>3. PICK n \in Nat \ S : x = 1 .. n
  OBVIOUS
<1>4. n # 0 /\ n - 1 \in Nat \ S
  BY <1>3
<1>5. 1 .. n - 1 \in Below
  BY <1>4
<1>6. <<1 .. n - 1, 1 .. n>> \in StrictSubsetOrdering(Nat)
  <2>1. n \in 1 .. n /\ n \notin 1 .. n - 1 /\ 1 .. n - 1 \subseteq 1 .. n /\ 1 .. n \subseteq Nat
    BY <1>4
  <2> QED
    BY <2>1 DEF StrictSubsetOrdering
<1> QED
  BY <1>2, <1>3, <1>5, <1>6

(* Induction from all smaller numbers.                                      *)
LEMMA StrongInduction ==
  ASSUME NEW S \in SUBSET Nat, \A n \in Nat : (\A m \in 0 .. n - 1 : m \in S) => n \in S
  PROVE  Nat \subseteq S
<1> DEFINE T == {n \in Nat : \A m \in 0 .. n : m \in S}
<1>1. T \in SUBSET Nat /\ 0 \in T
  OBVIOUS
<1>2. ASSUME NEW n \in T PROVE n + 1 \in T
  OBVIOUS
<1>3. Nat \subseteq T
  <2> HIDE DEF T
  <2> QED
    BY <1>1, <1>2, SetInduction
<1> QED
  BY <1>3

(* A set of numbers has a least one.                                        *)
LEMMA LeastNumber ==
  ASSUME NEW S \in SUBSET Nat, S # {}
  PROVE  \E m \in S : \A n \in S : m <= n
<1> SUFFICES ASSUME \A m \in S : \E n \in S : ~(m <= n) PROVE FALSE
  OBVIOUS
<1>1. ASSUME NEW n \in Nat, \A m \in 0 .. n - 1 : m \in Nat \ S PROVE n \in Nat \ S
  BY <1>1
<1>2. Nat \subseteq Nat \ S
  <2> DEFINE T == Nat \ S
  <2>1. T \in SUBSET Nat /\ \A n \in Nat : (\A m \in 0 .. n - 1 : m \in T) => n \in T
    BY <1>1
  <2> HIDE DEF T
  <2>2. Nat \subseteq T
    BY <2>1, StrongInduction
  <2> QED
    BY <2>2 DEF T
<1> QED
  BY <1>2

-----------------------------------------------------------------------------
(* Division with remainder                                                  *)

(* This is the only use of the definitions of % and \div.                   *)
LEMMA DivMod ==
  ASSUME NEW n \in Nat \ {0}, NEW i \in Nat
  PROVE  /\ i = n * (i \div n) + (i % n)
         /\ i \div n \in Nat
         /\ i % n \in 0 .. n - 1
  OBVIOUS

(* Multiples of a number are at least that number apart.                    *)
LEMMA MultiplesApart ==
  ASSUME NEW n \in Nat, NEW j \in Nat, NEW k \in Nat, j < k
  PROVE  n * j + n <= n * k
<1>1. PICK d \in Nat : k = j + 1 + d
  BY k - j - 1 \in Nat
<1>2. n * k = n * j + n + n * d
  BY <1>1
<1>3. n * d >= 0
  OBVIOUS
<1> QED
  BY <1>1, <1>2, <1>3

(* Quotient and remainder are unique.                                       *)
LEMMA DivModUnique ==
  ASSUME NEW n \in Nat \ {0}, NEW q \in Nat, NEW r \in 0 .. n - 1,
         NEW i, i = n * q + r
  PROVE  i \div n = q /\ i % n = r
<1> DEFINE p == i \div n
           s == i % n
<1>1. i \in Nat /\ n * q \in Nat
  OBVIOUS
<1>2. i = n * p + s /\ p \in Nat /\ s \in 0 .. n - 1
  BY <1>1, DivMod
<1>3. n * p \in Nat
  BY <1>2
<1> HIDE DEF p, s
<1>4. ~(p < q) /\ ~(q < p)
  BY <1>1, <1>2, <1>3, MultiplesApart
<1>5. p = q
  BY <1>2, <1>4
<1>6. s = r
  BY <1>1, <1>2, <1>3, <1>5
<1> QED
  BY <1>5, <1>6 DEF p, s

(* One more.                                                                *)
LEMMA DivModNext ==
  ASSUME NEW n \in Nat \ {0}, NEW i \in Nat
  PROVE  IF (i % n) + 1 # n
         THEN (i + 1) % n = (i % n) + 1 /\ (i + 1) \div n = i \div n
         ELSE (i + 1) % n = 0 /\ (i + 1) \div n = (i \div n) + 1
<1> DEFINE q == i \div n
           r == i % n
<1>1. i = n * q + r /\ q \in Nat /\ r \in 0 .. n - 1
  BY DivMod
<1> HIDE DEF q, r
<1> DEFINE p == q + 1
           z == 0
<1>2. p = q + 1 /\ p \in Nat /\ n * q \in Nat /\ n * p = n * q + n /\ z = 0
  BY <1>1
<1> HIDE DEF p, z
<1>3. CASE r + 1 # n
  <2>1. r + 1 \in 0 .. n - 1 /\ i + 1 = n * q + (r + 1)
    BY <1>1, <1>2, <1>3
  <2>2. (i + 1) % n = r + 1 /\ (i + 1) \div n = q
    BY <1>1, <2>1, DivModUnique
  <2> QED
    BY <1>3, <2>2, Zenon DEF q, r
<1>4. CASE r + 1 = n
  <2>1. z \in 0 .. n - 1 /\ i + 1 = n * p + z
    BY <1>1, <1>2, <1>4
  <2>2. p \in Nat
    BY <1>2
  <2>3. (i + 1) % n = z /\ (i + 1) \div n = p
    BY <2>1, <2>2, DivModUnique
  <2> QED
    BY <1>2, <1>4, <2>3, Zenon DEF q, r
<1> QED
  BY <1>3, <1>4 DEF r

(* One lap more.                                                            *)
LEMMA DivModLap ==
  ASSUME NEW n \in Nat \ {0}, NEW i \in Nat
  PROVE  (i + n) % n = i % n /\ (i + n) \div n = (i \div n) + 1
<1> DEFINE q == i \div n
           r == i % n
<1>1. i = n * q + r /\ q \in Nat /\ r \in 0 .. n - 1
  BY DivMod
<1> HIDE DEF q, r
<1> DEFINE p == q + 1
<1>2. p = q + 1 /\ p \in Nat /\ n * p = n * q + n
  BY <1>1
<1> HIDE DEF p
<1>3. i + n = n * p + r
  BY <1>1, <1>2
<1>4. p \in Nat /\ r \in 0 .. n - 1
  BY <1>1, <1>2
<1>5. (i + n) % n = r /\ (i + n) \div n = p
  BY <1>3, <1>4, DivModUnique
<1> QED
  BY <1>2, <1>5, Zenon DEF q, r

(* Different numbers with one remainder are at least a lap apart.           *)
LEMMA LapApart ==
  ASSUME NEW n \in Nat \ {0}, NEW i \in Nat, NEW j \in Nat, i < j, i % n = j % n
  PROVE  i + n <= j
<1> DEFINE p == i \div n
           q == j \div n
           r == j % n
<1>1. /\ i = n * p + r /\ p \in Nat
      /\ j = n * q + r /\ q \in Nat /\ r \in 0 .. n - 1
  BY DivMod
<1>2. n * p \in Nat /\ n * q \in Nat
  BY <1>1
<1> HIDE DEF p, q, r
<1>3. p < q
  <2>1. ~(q < p) /\ q # p
    BY <1>1, <1>2, MultiplesApart
  <2> QED
    BY <1>1, <2>1
<1> QED
  BY <1>1, <1>2, <1>3, MultiplesApart
=============================================================================
