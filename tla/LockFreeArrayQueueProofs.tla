----------------------- MODULE LockFreeArrayQueueProofs -----------------------
(***************************************************************************)
(* Safety of LockFreeArrayQueue for any number of threads and any size     *)
(* that is a power of two: although threads hold indices of several laps,  *)
(* a slot has one of them, calls spin only for calls in progress, and the  *)
(* queue is a FIFO queue.                                                  *)
(***************************************************************************)
EXTENDS LockFreeArrayQueue, DataLemmas, TLAPS

-----------------------------------------------------------------------------
(* The operator &: its recursive definition defines a function, and with a  *)
(* mask one below a power of two it is the remainder.                       *)

(* The equation of And, for the masks up to n.                              *)
Row(g, m) == [i \in Nat |-> IF m = 0 THEN 0 ELSE 2 * g[m \div 2][i \div 2] + (m % 2) * (i % 2)]
IsAnd(g, n) == \A m \in 0 .. n : g[m] = Row(g, m)

(* The row of a mask depends on the row of half the mask only.              *)
LEMMA Half ==
  ASSUME NEW n \in Nat, n # 0
  PROVE  n \div 2 \in 0 .. n - 1
  OBVIOUS

LEMMA RowLocal ==
  ASSUME NEW m \in Nat, NEW g, NEW h, m # 0 => g[m \div 2] = h[m \div 2]
  PROVE  Row(g, m) = Row(h, m)
  BY DEF Row

(* So rows up to n exist,                                                   *)
LEMMA AndUpTo == \A n \in Nat : \E g : IsAnd(g, n)
<1> DEFINE S == {n \in Nat : \E g : IsAnd(g, n)}
<1>1. 0 \in S
  <2> DEFINE g == [m \in {0} |-> [i \in Nat |-> 0]]
  <2>1. g[0] = Row(g, 0)
    BY DEF Row
  <2> HIDE DEF g
  <2>2. IsAnd(g, 0)
    BY <2>1 DEF IsAnd
  <2> QED
    BY <2>2
<1>2. ASSUME NEW n \in S PROVE n + 1 \in S
  <2>1. PICK g : IsAnd(g, n)
    OBVIOUS
  <2> DEFINE h == [m \in 0 .. n + 1 |-> IF m = n + 1 THEN Row(g, n + 1) ELSE g[m]]
  <2>2. ASSUME NEW m \in 0 .. n + 1 PROVE h[m] = Row(h, m)
    <3>1. m # 0 => g[m \div 2] = h[m \div 2]
      <4>1. m # 0 => m \div 2 \in 0 .. n
        BY Half
      <4> QED
        BY <4>1
    <3>2. Row(g, m) = Row(h, m)
      <4> HIDE DEF h
      <4> QED BY <3>1, RowLocal
    <3>3. m # n + 1 => g[m] = Row(g, m)
      BY <2>1 DEF IsAnd
    <3> QED
      BY <3>2, <3>3
  <2> HIDE DEF h
  <2>3. IsAnd(h, n + 1)
    BY <2>2 DEF IsAnd
  <2> QED
    BY <2>3
<1>3. Nat \subseteq S
  <2>1. S \in SUBSET Nat
    OBVIOUS
  <2> HIDE DEF S
  <2> QED
    BY <1>1, <1>2, <2>1, SetInduction
<1> QED
  BY <1>3

(* are the same however they are found,                                     *)
LEMMA AndUnique ==
  ASSUME NEW g, NEW h, NEW n \in Nat, IsAnd(g, n), IsAnd(h, n)
  PROVE  \A m \in 0 .. n : g[m] = h[m]
<1> DEFINE S == {k \in Nat : \A m \in 0 .. k : m <= n => g[m] = h[m]}
<1>1. 0 \in S
  <2>1. g[0] = Row(g, 0) /\ h[0] = Row(h, 0)
    BY DEF IsAnd
  <2>2. Row(g, 0) = Row(h, 0)
    BY RowLocal
  <2> QED
    BY <2>1, <2>2
<1>2. ASSUME NEW k \in S PROVE k + 1 \in S
  <2>1. k + 1 <= n => g[k + 1] = h[k + 1]
    <3>1. k + 1 <= n => g[(k + 1) \div 2] = h[(k + 1) \div 2]
      BY Half
    <3>2. k + 1 <= n => Row(g, k + 1) = Row(h, k + 1)
      BY <3>1, RowLocal
    <3> QED
      BY <3>2 DEF IsAnd
  <2> QED
    BY <2>1
<1>3. Nat \subseteq S
  <2>1. S \in SUBSET Nat
    OBVIOUS
  <2> HIDE DEF S
  <2> QED
    BY <1>1, <1>2, <2>1, SetInduction
<1> QED
  BY <1>3

(* and together they are And, which thus satisfies its equation.            *)
LEMMA AndEquation == And = [m \in Nat |-> Row(And, m)]
<1> DEFINE g == [n \in Nat |-> (CHOOSE h : IsAnd(h, n))[n]]
<1>1. ASSUME NEW n \in Nat PROVE IsAnd(CHOOSE h : IsAnd(h, n), n)
  BY AndUpTo
<1>2. ASSUME NEW n \in Nat PROVE g[n] = Row(g, n)
  <2> DEFINE h == CHOOSE h : IsAnd(h, n)
  <2>1. IsAnd(h, n) /\ h[n] = Row(h, n)
    BY <1>1 DEF IsAnd
  <2>2. n # 0 => g[n \div 2] = h[n \div 2]
    <3> DEFINE k == n \div 2
               j == CHOOSE j : IsAnd(j, k)
    <3> SUFFICES ASSUME n # 0 PROVE g[k] = h[k]
      OBVIOUS
    <3>1. k \in 0 .. n
      BY Half
    <3>2. IsAnd(j, k)
      BY <3>1, <1>1
    <3>3. IsAnd(h, k)
      BY <2>1, <3>1 DEF IsAnd
    <3>4. g[k] = j[k]
      BY <3>1
    <3> HIDE DEF j, h, k
    <3>5. j[k] = h[k]
      BY <3>1, <3>2, <3>3, AndUnique
    <3> QED
      BY <3>4, <3>5
  <2>3. g[n] = h[n]
    OBVIOUS
  <2> HIDE DEF g, h
  <2> QED
    BY <2>1, <2>2, <2>3, RowLocal
<1>3. g = [n \in Nat |-> Row(g, n)]
  BY <1>2
<1> HIDE DEF g
<1>4. \E f : f = [n \in Nat |-> Row(f, n)]
  BY <1>3
<1> QED
  BY <1>4 DEF And, Row

LEMMA Unfold ==
  ASSUME NEW f, NEW m \in Nat, f = [n \in Nat |-> Row(f, n)]
  PROVE  f[m] = Row(f, m)
<1> DEFINE R(n) == Row(f, n)
<1>1. f = [n \in Nat |-> R(n)]
  OBVIOUS
<1> HIDE DEF R
<1>2. f[m] = R(m)
  BY <1>1
<1> QED
  BY <1>2 DEF R
(* One digit of an and.                                                     *)
LEMMA AndStep ==
  ASSUME NEW m \in Nat, NEW i \in Nat
  PROVE  And[m][i] = IF m = 0 THEN 0 ELSE 2 * And[m \div 2][i \div 2] + (m % 2) * (i % 2)
<1> DEFINE R == Row(And, m)
<1>1. And[m] = Row(And, m)
  BY AndEquation, Unfold
<1> QED
  BY <1>1 DEF Row

(* An and is not more than the mask.                                        *)
LEMMA AndBound == \A m, i \in Nat : And[m][i] \in 0 .. m
<1> DEFINE S == {m \in Nat : \A i \in Nat : And[m][i] \in 0 .. m}
<1>1. ASSUME NEW m \in Nat, \A k \in 0 .. m - 1 : k \in S, NEW i \in Nat
      PROVE  And[m][i] \in 0 .. m
  <2>1. CASE m = 0
    BY <2>1, AndStep
  <2>2. CASE m # 0
    <3>1. /\ m \div 2 \in 0 .. m - 1 /\ i \div 2 \in Nat
          /\ m = 2 * (m \div 2) + (m % 2) /\ m % 2 \in {0, 1} /\ i % 2 \in {0, 1}
      BY <2>2
    <3>2. And[m \div 2][i \div 2] \in 0 .. m \div 2
      BY <3>1, <1>1
    <3>3. (m % 2) * (i % 2) \in 0 .. m % 2
      BY <3>1
    <3>4. And[m][i] = 2 * And[m \div 2][i \div 2] + (m % 2) * (i % 2)
      BY <2>2, AndStep
    <3> QED
      BY <3>1, <3>2, <3>3, <3>4
  <2> QED
    BY <2>1, <2>2
<1>2. Nat \subseteq S
  <2>1. S \in SUBSET Nat
    OBVIOUS
  <2>2. ASSUME NEW m \in Nat, \A k \in 0 .. m - 1 : k \in S PROVE m \in S
    BY <1>1, <2>2
  <2> HIDE DEF S
  <2> QED
    BY <2>1, <2>2, StrongInduction
<1> QED
  BY <1>2

(* A number and itself.                                                     *)
LEMMA AndSelf == \A m \in Nat : And[m][m] = m
<1> DEFINE S == {m \in Nat : And[m][m] = m}
<1>1. ASSUME NEW m \in Nat, \A k \in 0 .. m - 1 : k \in S
      PROVE  And[m][m] = m
  <2>1. CASE m = 0
    BY <2>1, AndStep
  <2>2. CASE m # 0
    <3>1. m \div 2 \in 0 .. m - 1 /\ m = 2 * (m \div 2) + (m % 2) /\ m % 2 \in {0, 1}
      BY <2>2
    <3>2. And[m \div 2][m \div 2] = m \div 2
      BY <3>1, <1>1
    <3>3. And[m][m] = 2 * And[m \div 2][m \div 2] + (m % 2) * (m % 2)
      BY <2>2, AndStep
    <3>4. (m % 2) * (m % 2) = m % 2
      BY <3>1
    <3> QED
      BY <3>1, <3>2, <3>3, <3>4
  <2> QED
    BY <2>1, <2>2
<1>2. Nat \subseteq S
  <2>1. S \in SUBSET Nat
    OBVIOUS
  <2>2. ASSUME NEW m \in Nat, \A k \in 0 .. m - 1 : k \in S PROVE m \in S
    BY <1>1, <2>2
  <2> HIDE DEF S
  <2> QED
    BY <2>1, <2>2, StrongInduction
<1> QED
  BY <1>2

(* A mask one below a power of two takes the remainder.                     *)
LEMMA AndMask ==
  \A m \in Nat : And[m][m + 1] = 0 => \A i \in Nat : And[m][i] = i % (m + 1)
<1> DEFINE S == {m \in Nat : And[m][m + 1] = 0 => \A i \in Nat : And[m][i] = i % (m + 1)}
<1>1. ASSUME NEW m \in Nat, \A k \in 0 .. m - 1 : k \in S, And[m][m + 1] = 0, NEW i \in Nat
      PROVE  And[m][i] = i % (m + 1)
  <2>1. CASE m = 0
    BY <2>1, AndStep
  <2>2. CASE m # 0
    <3> DEFINE k == m \div 2
               h == i \div 2
               b == i % 2
    <3>1. k \in 0 .. m - 1 /\ m = 2 * k + (m % 2) /\ m % 2 \in {0, 1}
      BY <2>2
    <3>2. h \in Nat /\ i = 2 * h + b /\ b \in {0, 1}
      OBVIOUS
    <3>3. And[m][i] = 2 * And[k][h] + (m % 2) * b
      BY <2>2, AndStep
    <3>4. And[m][m + 1] = 2 * And[k][(m + 1) \div 2] + (m % 2) * ((m + 1) % 2)
      <4>1. m + 1 \in Nat
        OBVIOUS
      <4> QED
        BY <2>2, <4>1, AndStep
    <3>5. m % 2 = 1
      <4> SUFFICES ASSUME m % 2 = 0 PROVE FALSE
        BY <3>1
      <4>1. (m + 1) \div 2 = k
        OBVIOUS
      <4>2. And[k][k] = k
        BY <3>1, AndSelf
      <4>3. (m % 2) * ((m + 1) % 2) = 0
        OBVIOUS
      <4> QED
        BY <1>1, <2>2, <3>1, <3>4, <4>1, <4>2, <4>3
    <3>6. (m + 1) \div 2 = k + 1 /\ (m + 1) % 2 = 0 /\ m = 2 * k + 1
      BY <3>5
    <3>7. And[k][k + 1] = 0
      <4>1. And[k][k + 1] \in Nat
        BY <3>1, AndBound
      <4> QED
        BY <1>1, <3>4, <3>6, <4>1, <3>5
    <3>8. And[k][h] = h % (k + 1)
      BY <3>1, <3>2, <3>7, <1>1
    <3>9. /\ h = (k + 1) * (h \div (k + 1)) + (h % (k + 1))
          /\ h \div (k + 1) \in Nat /\ h % (k + 1) \in 0 .. k
      <4>1. k + 1 \in Nat \ {0}
        BY <3>1
      <4>2. (k + 1) - 1 = k
        BY <3>1
      <4> HIDE DEF k, h
      <4> QED
        BY <3>2, <4>1, <4>2, DivMod
    <3> DEFINE q == h \div (k + 1)
               r == h % (k + 1)
    <3>10. (m + 1) * q = 2 * ((k + 1) * q)
      BY <3>1, <3>6, <3>9
    <3>11. And[m][i] = 2 * r + b
      BY <3>2, <3>3, <3>5, <3>8, <3>9
    <3>12. i = (m + 1) * q + (2 * r + b) /\ 2 * r + b \in 0 .. m
      <4>1. (k + 1) * q \in Nat
        BY <3>1, <3>9
      <4> HIDE DEF q, r, k, h, b
      <4> QED
        BY <3>1, <3>2, <3>6, <3>9, <3>10, <4>1 DEF q, r
    <3> HIDE DEF q, r, k, h, b
    <3> QED
      BY <3>9, <3>11, <3>12, DivModUnique DEF q
  <2> QED
    BY <2>1, <2>2
<1>2. Nat \subseteq S
  <2>1. S \in SUBSET Nat
    OBVIOUS
  <2>2. ASSUME NEW m \in Nat, \A k \in 0 .. m - 1 : k \in S PROVE m \in S
    BY <1>1, <2>2
  <2> HIDE DEF S
  <2> QED
    BY <2>1, <2>2, StrongInduction
<1> QED
  BY <1>2

-----------------------------------------------------------------------------
(* Slots.  After this section TransIndex is not expanded any more.          *)

LEMMA SlotType == \A i \in Nat : TransIndex(i) \in Slots
<1>1. Size - 1 \in Nat
  BY SizeAssumption
<1> QED
  BY <1>1, AndBound DEF TransIndex, Slots

(* With any other size, indices less than a lap apart share slots.          *)
LEMMA SlotIsRemainder ==
  ASSUME SizeIsPowerOfTwo, NEW i \in Nat
  PROVE  TransIndex(i) = i % Size
<1>1. Size - 1 \in Nat /\ (Size - 1) + 1 = Size
  BY SizeAssumption
<1> QED
  BY <1>1, AndMask DEF TransIndex, SizeIsPowerOfTwo

LEMMA SlotNextLap ==
  ASSUME SizeIsPowerOfTwo, NEW i \in Nat
  PROVE  TransIndex(i + Size) = TransIndex(i)
<1>1. Size \in Nat \ {0} /\ i + Size \in Nat
  BY SizeAssumption
<1> QED
  BY <1>1, SlotIsRemainder, DivModLap

LEMMA SlotLap ==
  ASSUME SizeIsPowerOfTwo, NEW i \in Nat, NEW j \in Nat, i < j, TransIndex(i) = TransIndex(j)
  PROVE  i + Size <= j
<1>1. Size \in Nat \ {0}
  BY SizeAssumption
<1> QED
  BY <1>1, SlotIsRemainder, LapApart

-----------------------------------------------------------------------------
(* What holds whatever the size is: types, and the bounds of the indices.   *)

LEMMA BoundedInit == Init => Bounded
<1> SUFFICES ASSUME Init PROVE Bounded
  OBVIOUS
<1> USE DEF Init
<1>1. TypeOK
  BY SizeAssumption DEF TypeOK, Labels
<1> QED
  BY <1>1, SizeAssumption DEF Bounded, Claims, Pushing, Popping

LEMMA BoundedNext == Bounded /\ [Next]_vars => Bounded'
<1> SUFFICES ASSUME Bounded, [Next]_vars PROVE Bounded'
  OBVIOUS
<1> USE SizeAssumption, SlotType
    DEF Bounded, Claims, TypeOK, Labels, Pushing, Popping, Goto, Return, IsFull, IsEmpty
<1>1. CASE UNCHANGED vars
  BY <1>1 DEF vars
<1>2. ASSUME NEW t \in Threads, NEW v \in Offers[t], PushCall(t, v) PROVE Bounded'
  <2>1. v \in Values
    BY OffersAssumption
  <2> QED
    BY <1>2, <2>1 DEF PushCall
<1>3. ASSUME NEW t \in Threads, PushRetry(t) PROVE Bounded'
  BY <1>3 DEF PushRetry
<1>4. ASSUME NEW t \in Threads, PushLoadRead(t) PROVE Bounded'
  BY <1>4 DEF PushLoadRead
<1>5. ASSUME NEW t \in Threads, PushCas(t) PROVE Bounded'
  BY <1>5 DEF PushCas
<1>6. ASSUME NEW t \in Threads, PushWait(t) PROVE Bounded'
  BY <1>6 DEF PushWait
<1>7. ASSUME NEW t \in Threads, PushStore(t) PROVE Bounded'
  BY <1>7 DEF PushStore
<1>8. ASSUME NEW t \in Threads, PushMark(t) PROVE Bounded'
  BY <1>8 DEF PushMark
<1>9. ASSUME NEW t \in Threads, PopCall(t) PROVE Bounded'
  BY <1>9 DEF PopCall
<1>10. ASSUME NEW t \in Threads, PopRetry(t) PROVE Bounded'
  BY <1>10 DEF PopRetry
<1>11. ASSUME NEW t \in Threads, PopLoadRead(t) PROVE Bounded'
  BY <1>11 DEF PopLoadRead
<1>12. ASSUME NEW t \in Threads, PopCas(t) PROVE Bounded'
  BY <1>12 DEF PopCas
<1>13. ASSUME NEW t \in Threads, PopWait(t) PROVE Bounded'
  BY <1>13 DEF PopWait
<1>14. ASSUME NEW t \in Threads, PopMove(t) PROVE Bounded'
  BY <1>14 DEF PopMove
<1>15. ASSUME NEW t \in Threads, PopMark(t) PROVE Bounded'
  BY <1>15 DEF PopMark
<1>16. ASSUME NEW t \in Threads, NEW v \in Offers[t], PushLock(t, v) PROVE Bounded'
  <2>1. v \in Values
    BY OffersAssumption
  <2> QED
    BY <1>16, <2>1 DEF PushLock
<1>17. ASSUME NEW t \in Threads, PopLock(t) PROVE Bounded'
  BY <1>17 DEF PopLock
<1> QED
  BY <1>1, <1>2, <1>3, <1>4, <1>5, <1>6, <1>7, <1>8, <1>9, <1>10, <1>11, <1>12, <1>13, <1>14,
     <1>15, <1>16, <1>17 DEF Next, Push, Pop, Continue

(* Types, in every reachable state and with any size.                       *)
THEOREM TypeCorrect == Spec => []TypeOK
<1>1. Bounded => TypeOK
  BY DEF Bounded
<1> QED
  BY <1>1, BoundedInit, BoundedNext, PTL DEF Spec

(* A push that fails does so while the queue is full, with any size, and a  *)
(* pop that fails, while it is empty or has just been pushed to.            *)
THEOREM FailuresJustified == Spec => FailsForAReason
<1>1. Bounded /\ [Next]_vars =>
        [\A t \in Threads :
           /\ pc[t] = "pushLoadRead" /\ pc'[t] = "idle" => writeIndex - readIndex = Size
           /\ pc[t] = "popLoadRead" /\ pc'[t] = "idle"
                => writeIndex = readIndex \/ writeIndex > idx[t]]_vars
  <2> SUFFICES ASSUME Bounded, Next, NEW t \in Threads,
                      pc[t] \in {"pushLoadRead", "popLoadRead"}, pc'[t] = "idle"
               PROVE  IF pc[t] = "pushLoadRead"
                      THEN writeIndex - readIndex = Size
                      ELSE writeIndex = readIndex \/ writeIndex > idx[t]
    OBVIOUS
  <2> USE DEF Bounded, TypeOK
  <2>1. PushLoadRead(t) \/ PopLoadRead(t)
    BY DEF Next, Push, Pop, Continue, Goto, Return, PushCall, PushRetry, PushLoadRead, PushCas,
           PushWait, PushStore, PushMark, PopCall, PopRetry, PopLoadRead, PopCas, PopWait, PopMove,
           PopMark, PushLock, PopLock
  <2>2. CASE PushLoadRead(t)
    BY <2>2, SizeAssumption DEF PushLoadRead, IsFull, Goto
  <2>3. CASE PopLoadRead(t)
    BY <2>3 DEF PopLoadRead, IsEmpty, Goto
  <2> QED
    BY <2>1, <2>2, <2>3
<1> QED
  BY <1>1, BoundedInit, BoundedNext, PTL DEF Spec, FailsForAReason

-----------------------------------------------------------------------------
(* The marks, when the size is a power of two.                              *)

(* Two indices of one slot.                                                 *)
LEMMA SameSlot ==
  ASSUME SizeIsPowerOfTwo, NEW i \in Nat, NEW j \in Nat, TransIndex(i) = TransIndex(j)
  PROVE  i = j \/ i + Size <= j \/ j + Size <= i
<1>1. CASE i < j
  BY <1>1, SlotLap
<1>2. CASE j < i
  BY <1>2, SlotLap
<1> QED
  BY <1>1, <1>2

(* An index that is not past its push waits in the slot for its turn, or    *)
(* for that of an earlier index.                                            *)
LEMMA MarkBelow ==
  ASSUME Inv, mode = "E_CAS", SizeIsPowerOfTwo, NEW i \in Nat, ~Pushed(i)
  PROVE  Mark(i) = 0 \/ (i >= Size /\ -(i - Size + 1) <= Mark(i) /\ Mark(i) <= i - Size + 1)
<1> DEFINE s == TransIndex(i)
<1>1. s \in Slots
  BY SlotType
<1>2. ASSUME active[s] # 0 PROVE i >= Size /\ -(i - Size + 1) <= active[s] /\ active[s] <= i - Size + 1
  <2>1. PICK j \in 0 .. writeIndex - 1 : TransIndex(j) = s /\ active[s] \in {j + 1, -(j + 1)}
    BY <1>1, <1>2 DEF Inv, Marks
  <2>2. j \in Nat /\ j < i
    BY <2>1 DEF Pushed, Mark, Inv, Bounded, TypeOK
  <2>3. j + Size <= i
    BY <2>1, <2>2, SlotLap
  <2> QED
    BY <2>1, <2>2, <2>3, SizeAssumption
<1> QED
  BY <1>2 DEF Mark

(* A step that moves no claim in or out and no mark.                        *)
LEMMA QuietKeeps ==
  ASSUME Inv, Bounded', UNCHANGED <<mode, writeIndex, readIndex, active>>,
         NEW t \in Threads, NEW l \in Labels, Goto(t, l),
         \A u \in Threads \ {t} : idx'[u] = idx[u],
         \/ {pc[t], l} \cap (Pushing \cup Popping) = {}
         \/ idx'[t] = idx[t] /\ {pc[t], l} \subseteq Pushing
         \/ idx'[t] = idx[t] /\ {pc[t], l} \subseteq Popping,
         l \in {"pushStore", "pushMark"} => Mark(idx[t]) = TurnOfPush(idx[t]),
         l \in {"popMove", "popMark"} => Mark(idx[t]) = idx[t] + 1
  PROVE  Inv'
<1> USE DEF Inv
<1>1. /\ \A u \in Threads \ {t} : pc'[u] = pc[u]
      /\ pc'[t] = l
  BY DEF Goto, Bounded, TypeOK
<1>2. \A i : Mark(i)' = Mark(i) /\ Pushed(i)' = Pushed(i) /\ Popped(i)' = Popped(i)
  BY DEF Mark, Pushed, Popped
<1>3. \A u \in Threads : \A i : /\ Holds(u, i, Pushing)' <=> Holds(u, i, Pushing)
                                /\ Holds(u, i, Popping)' <=> Holds(u, i, Popping)
  BY <1>1 DEF Holds, Pushing, Popping
<1>4. Turns'
  <2>1. ASSUME NEW u \in Threads, pc'[u] \in {"pushStore", "pushMark"}
        PROVE  Mark(idx[u])' = TurnOfPush(idx[u])'
    <3>1. idx'[u] = idx[u] /\ Mark(idx[u]) = TurnOfPush(idx[u])
      BY <1>1, <2>1 DEF Turns, Pushing, Popping
    <3> QED
      BY <1>2, <3>1 DEF Mark, TurnOfPush
  <2>2. ASSUME NEW u \in Threads, pc'[u] \in {"popMove", "popMark"}
        PROVE  Mark(idx[u])' = idx'[u] + 1
    <3>1. idx'[u] = idx[u] /\ Mark(idx[u]) = idx[u] + 1
      BY <1>1, <2>2 DEF Turns, Pushing, Popping
    <3> QED
      BY <1>2, <3>1 DEF Mark
  <2>3. ASSUME NEW u \in Threads, NEW v \in Threads \ {u}
        PROVE  /\ {pc'[u], pc'[v]} \subseteq Pushing => idx'[u] # idx'[v]
               /\ {pc'[u], pc'[v]} \subseteq Popping => idx'[u] # idx'[v]
    <3>1. \A x \in Threads : /\ pc'[x] \in Pushing => pc[x] \in Pushing /\ idx'[x] = idx[x]
                             /\ pc'[x] \in Popping => pc[x] \in Popping /\ idx'[x] = idx[x]
      BY <1>1 DEF Pushing, Popping
    <3>2. u \in Threads /\ v \in Threads
      OBVIOUS
    <3>3. ASSUME pc'[u] \in Pushing, pc'[v] \in Pushing PROVE idx'[u] # idx'[v]
      <4>1. pc[u] \in Pushing /\ pc[v] \in Pushing /\ idx'[u] = idx[u] /\ idx'[v] = idx[v]
        BY <3>1, <3>2, <3>3
      <4> QED
        BY <4>1 DEF Turns
    <3>4. ASSUME pc'[u] \in Popping, pc'[v] \in Popping PROVE idx'[u] # idx'[v]
      <4>1. pc[u] \in Popping /\ pc[v] \in Popping /\ idx'[u] = idx[u] /\ idx'[v] = idx[v]
        BY <3>1, <3>2, <3>4
      <4> QED
        BY <4>1 DEF Turns
    <3> QED
      BY <3>3, <3>4
  <2> QED
    BY <2>1, <2>2, <2>3 DEF Turns
<1>5. mode = "E_CAS" => Marks'
  BY <1>2, <1>3 DEF Marks
<1> QED
  BY <1>4, <1>5

(* A push or a pop takes the next index: nobody has held it before.         *)
LEMMA PushCasKeeps ==
  ASSUME Inv, Bounded', NEW t \in Threads, PushCas(t), writeIndex = idx[t]
  PROVE  Inv'
<1> USE DEF Inv, Bounded, TypeOK
<1>1. /\ pc[t] = "pushCas" /\ pc'[t] = "pushWait" /\ \A u \in Threads \ {t} : pc'[u] = pc[u]
      /\ writeIndex' = writeIndex + 1 /\ idx[t] = writeIndex
      /\ UNCHANGED <<mode, readIndex, active, idx>>
  BY DEF PushCas, Goto
<1>2. \A i : Mark(i)' = Mark(i) /\ Pushed(i)' = Pushed(i) /\ Popped(i)' = Popped(i)
  BY <1>1 DEF Mark, Pushed, Popped
<1>3. \A u \in Threads, i \in Int :
        /\ Holds(u, i, Pushing)' <=> Holds(u, i, Pushing) \/ (u = t /\ i = writeIndex)
        /\ Holds(u, i, Popping)' <=> Holds(u, i, Popping)
  BY <1>1 DEF Holds, Pushing, Popping
<1>4. Turns'
  <2>1. ASSUME NEW u \in Threads, pc'[u] \in {"pushStore", "pushMark"}
        PROVE  Mark(idx[u])' = TurnOfPush(idx[u])'
    <3>1. Mark(idx[u]) = TurnOfPush(idx[u])
      BY <1>1, <2>1 DEF Turns
    <3> QED
      BY <1>1, <3>1 DEF Mark, TurnOfPush
  <2>2. ASSUME NEW u \in Threads, pc'[u] \in {"popMove", "popMark"}
        PROVE  Mark(idx[u])' = idx'[u] + 1
    <3>1. Mark(idx[u]) = idx[u] + 1
      BY <1>1, <2>2 DEF Turns
    <3> QED
      BY <1>1, <3>1 DEF Mark
  <2>3. ASSUME NEW u \in Threads, NEW v \in Threads \ {u}
        PROVE  /\ {pc'[u], pc'[v]} \subseteq Pushing => idx'[u] # idx'[v]
               /\ {pc'[u], pc'[v]} \subseteq Popping => idx'[u] # idx'[v]
    <3>1. \A x \in Threads \ {t} : pc'[x] \in Pushing => idx[x] # writeIndex
      BY <1>1 DEF Claims
    <3>2. pc'[t] \notin Popping
      BY <1>1 DEF Popping
    <3> QED
      BY <1>1, <3>1, <3>2 DEF Turns
  <2> QED
    BY <2>1, <2>2, <2>3 DEF Turns
<1>5. ~Pushed(writeIndex) /\ ~Popped(writeIndex)
  BY SlotType DEF Pushed, Popped, Mark
<1>6. mode = "E_CAS" => Marks'
  <2> SUFFICES ASSUME Marks PROVE Marks'
    BY <1>1
  <2>1. ASSUME NEW s \in Slots, active[s] # 0
        PROVE  \E i \in 0 .. writeIndex' - 1 : TransIndex(i) = s /\ active[s] \in {i + 1, -(i + 1)}
    BY <1>1, <2>1 DEF Marks
  <2>2. ASSUME NEW i \in 0 .. writeIndex' - 1
        PROVE  Pushed(i)' <=> \A u \in Threads : ~Holds(u, i, Pushing)'
    <3>1. CASE i = writeIndex
      BY <1>2, <1>3, <1>5, <3>1
    <3>2. CASE i # writeIndex
      <4>1. i \in 0 .. writeIndex - 1
        BY <1>1, <3>2
      <4> QED
        BY <1>2, <1>3, <3>2, <4>1 DEF Marks
    <3> QED
      BY <3>1, <3>2
  <2>3. ASSUME NEW i \in 0 .. readIndex' - 1
        PROVE  Popped(i)' <=> \A u \in Threads : ~Holds(u, i, Popping)'
    BY <1>1, <1>2, <1>3 DEF Marks
  <2>4. ASSUME NEW i \in readIndex' .. writeIndex' - 1 PROVE ~Popped(i)'
    <3>1. CASE i = writeIndex
      BY <1>2, <1>5, <3>1
    <3>2. CASE i # writeIndex
      <4>1. i \in readIndex .. writeIndex - 1
        BY <1>1, <3>2
      <4> QED
        BY <1>2, <4>1 DEF Marks
    <3> QED
      BY <3>1, <3>2
  <2> QED
    BY <1>1, <2>1, <2>2, <2>3, <2>4 DEF Marks
<1> QED
  BY <1>1, <1>4, <1>6

LEMMA PopCasKeeps ==
  ASSUME Inv, Bounded', NEW t \in Threads, PopCas(t), readIndex = idx[t]
  PROVE  Inv'
<1> USE DEF Inv, Bounded, TypeOK
<1>1. /\ pc[t] = "popCas" /\ pc'[t] = "popWait" /\ \A u \in Threads \ {t} : pc'[u] = pc[u]
      /\ readIndex' = readIndex + 1 /\ idx[t] = readIndex /\ readIndex < writeIndex
      /\ UNCHANGED <<mode, writeIndex, active, idx>>
  BY DEF PopCas, Goto, Claims
<1>2. \A i : Mark(i)' = Mark(i) /\ Pushed(i)' = Pushed(i) /\ Popped(i)' = Popped(i)
  BY <1>1 DEF Mark, Pushed, Popped
<1>3. \A u \in Threads, i \in Int :
        /\ Holds(u, i, Popping)' <=> Holds(u, i, Popping) \/ (u = t /\ i = readIndex)
        /\ Holds(u, i, Pushing)' <=> Holds(u, i, Pushing)
  BY <1>1 DEF Holds, Pushing, Popping
<1>4. Turns'
  <2>1. ASSUME NEW u \in Threads, pc'[u] \in {"pushStore", "pushMark"}
        PROVE  Mark(idx[u])' = TurnOfPush(idx[u])'
    <3>1. Mark(idx[u]) = TurnOfPush(idx[u])
      BY <1>1, <2>1 DEF Turns
    <3> QED
      BY <1>1, <3>1 DEF Mark, TurnOfPush
  <2>2. ASSUME NEW u \in Threads, pc'[u] \in {"popMove", "popMark"}
        PROVE  Mark(idx[u])' = idx'[u] + 1
    <3>1. Mark(idx[u]) = idx[u] + 1
      BY <1>1, <2>2 DEF Turns
    <3> QED
      BY <1>1, <3>1 DEF Mark
  <2>3. ASSUME NEW u \in Threads, NEW v \in Threads \ {u}
        PROVE  /\ {pc'[u], pc'[v]} \subseteq Pushing => idx'[u] # idx'[v]
               /\ {pc'[u], pc'[v]} \subseteq Popping => idx'[u] # idx'[v]
    <3>1. \A x \in Threads \ {t} : pc'[x] \in Popping => idx[x] # readIndex
      BY <1>1 DEF Claims
    <3>2. pc'[t] \notin Pushing
      BY <1>1 DEF Pushing
    <3> QED
      BY <1>1, <3>1, <3>2 DEF Turns
  <2> QED
    BY <2>1, <2>2, <2>3 DEF Turns
<1>5. mode = "E_CAS" => Marks'
  <2> SUFFICES ASSUME Marks PROVE Marks'
    BY <1>1
  <2>1. ASSUME NEW i \in 0 .. readIndex' - 1
        PROVE  Popped(i)' <=> \A u \in Threads : ~Holds(u, i, Popping)'
    <3>1. CASE i = readIndex
      <4>1. ~Popped(i)
        BY <1>1, <3>1 DEF Marks
      <4> QED
        BY <1>2, <1>3, <3>1, <4>1
    <3>2. CASE i # readIndex
      <4>1. i \in 0 .. readIndex - 1
        BY <1>1, <3>2
      <4> QED
        BY <1>2, <1>3, <3>2, <4>1 DEF Marks
    <3> QED
      BY <3>1, <3>2
  <2>2. ASSUME NEW i \in 0 .. writeIndex' - 1
        PROVE  Pushed(i)' <=> \A u \in Threads : ~Holds(u, i, Pushing)'
    BY <1>1, <1>2, <1>3 DEF Marks
  <2>3. ASSUME NEW i \in readIndex' .. writeIndex' - 1 PROVE ~Popped(i)'
    BY <1>1, <1>2 DEF Marks
  <2>4. ASSUME NEW s \in Slots, active[s] # 0
        PROVE  \E i \in 0 .. writeIndex' - 1 : TransIndex(i) = s /\ active[s] \in {i + 1, -(i + 1)}
    BY <1>1, <2>4 DEF Marks
  <2> QED
    BY <1>1, <2>1, <2>2, <2>3, <2>4 DEF Marks
<1> QED
  BY <1>1, <1>4, <1>5

(* The push of index i ends: of all indices, this alone is past its push    *)
(* now that was not before.                                                 *)
LEMMA PushMarkKeeps ==
  ASSUME SizeIsPowerOfTwo, Inv, Bounded', NEW t \in Threads, PushMark(t)
  PROVE  Inv'
<1> USE DEF Inv, Bounded, TypeOK
<1> DEFINE i == idx[t]
           s == TransIndex(i)
<1>1. /\ pc[t] = "pushMark" /\ pc'[t] = "idle"
      /\ \A u \in Threads \ {t} : pc'[u] = pc[u] /\ idx'[u] = idx[u]
      /\ UNCHANGED <<mode, writeIndex, readIndex>>
      /\ mode = "E_CAS"
  BY DEF PushMark, Goto, Return
<1>2. /\ i \in Nat /\ i < writeIndex /\ s \in Slots
      /\ active[s] = TurnOfPush(i)
  BY <1>1, SlotType DEF Claims, Turns, Mark, Pushing
<1>3. /\ active'[s] = i + 1
      /\ \A r \in Slots \ {s} : active'[r] = active[r]
  BY <1>2 DEF PushMark
<1> HIDE DEF i, s
<1>4. ASSUME NEW j \in Nat
      PROVE  /\ Pushed(j)' <=> Pushed(j) \/ j = i
             /\ Popped(j)' <=> Popped(j)
  <2>1. CASE TransIndex(j) # s
    BY <1>3, <2>1, SlotType DEF s, Pushed, Popped, Mark
  <2>2. CASE TransIndex(j) = s
    <3>1. Mark(j) = TurnOfPush(i) /\ Mark(j)' = i + 1
      BY <1>2, <1>3, <2>2 DEF Mark
    <3>2. i = j \/ i + Size <= j \/ j + Size <= i
      BY <1>2, <2>2, SameSlot DEF s
    <3> QED
      BY <1>2, <3>1, <3>2, SizeAssumption DEF Pushed, Popped, TurnOfPush
  <2> QED
    BY <2>1, <2>2
<1>5. ASSUME NEW u \in Threads, NEW j \in Int
      PROVE  /\ Holds(u, j, Pushing)' <=> Holds(u, j, Pushing) /\ u # t
             /\ Holds(u, j, Popping)' <=> Holds(u, j, Popping)
  BY <1>1 DEF Holds, Pushing, Popping
<1>6. \A u \in Threads \ {t} : ~Holds(u, i, Pushing)
  BY <1>1 DEF Holds, Turns, Pushing, i
<1>7. ASSUME NEW u \in Threads \ {t}, pc[u] \in {"pushStore", "pushMark", "popMove", "popMark"}
      PROVE  TransIndex(idx[u]) # s
  <2> SUFFICES ASSUME TransIndex(idx[u]) = s PROVE FALSE
    OBVIOUS
  <2>1. Mark(idx[u]) = TurnOfPush(i) /\ idx[u] \in Nat
    BY <1>2 DEF Mark
  <2>2. CASE pc[u] \in {"pushStore", "pushMark"}
    <3>1. TurnOfPush(idx[u]) = TurnOfPush(i) /\ idx[u] # i
      BY <1>6, <2>1, <2>2 DEF Turns, Holds, Pushing
    <3>2. i + Size <= idx[u] \/ idx[u] + Size <= i
      BY <1>2, <2>1, <3>1, SameSlot DEF s
    <3> QED
      BY <1>2, <2>1, <3>1, <3>2, SizeAssumption DEF TurnOfPush
  <2>3. CASE pc[u] \in {"popMove", "popMark"}
    <3>1. Mark(idx[u]) = idx[u] + 1
      BY <2>3 DEF Turns
    <3> QED
      BY <1>2, <2>1, <3>1, SizeAssumption DEF TurnOfPush
  <2> QED
    BY <1>7, <2>2, <2>3
<1>8. Turns'
  <2>1. ASSUME NEW u \in Threads, pc'[u] \in {"pushStore", "pushMark"}
        PROVE  Mark(idx[u])' = TurnOfPush(idx[u])'
    <3>1. u # t /\ idx'[u] = idx[u] /\ Mark(idx[u]) = TurnOfPush(idx[u])
      BY <1>1, <2>1 DEF Turns
    <3>2. active'[TransIndex(idx[u])] = active[TransIndex(idx[u])]
      BY <1>1, <1>3, <1>7, <2>1, <3>1, SlotType
    <3> QED
      BY <3>1, <3>2 DEF Mark, TurnOfPush
  <2>2. ASSUME NEW u \in Threads, pc'[u] \in {"popMove", "popMark"}
        PROVE  Mark(idx[u])' = idx'[u] + 1
    <3>1. u # t /\ idx'[u] = idx[u] /\ Mark(idx[u]) = idx[u] + 1
      BY <1>1, <2>2 DEF Turns
    <3>2. active'[TransIndex(idx[u])] = active[TransIndex(idx[u])]
      BY <1>1, <1>3, <1>7, <2>2, <3>1, SlotType
    <3> QED
      BY <3>1, <3>2 DEF Mark
  <2>3. ASSUME NEW u \in Threads, NEW v \in Threads \ {u}
        PROVE  /\ {pc'[u], pc'[v]} \subseteq Pushing => idx'[u] # idx'[v]
               /\ {pc'[u], pc'[v]} \subseteq Popping => idx'[u] # idx'[v]
    <3>1. pc'[t] \notin Pushing \cup Popping
      BY <1>1 DEF Pushing, Popping
    <3> QED
      BY <1>1, <3>1 DEF Turns
  <2> QED
    BY <2>1, <2>2, <2>3 DEF Turns
<1>9. Marks'
  <2>1. ASSUME NEW r \in Slots, active'[r] # 0
        PROVE  \E j \in 0 .. writeIndex' - 1 : TransIndex(j) = r /\ active'[r] \in {j + 1, -(j + 1)}
    <3>1. CASE r = s
      BY <1>1, <1>2, <1>3, <3>1 DEF s
    <3>2. CASE r # s
      BY <1>1, <1>3, <2>1, <3>2 DEF Marks
    <3> QED
      BY <3>1, <3>2
  <2>2. ASSUME NEW j \in 0 .. writeIndex' - 1
        PROVE  Pushed(j)' <=> \A u \in Threads : ~Holds(u, j, Pushing)'
    <3>1. j \in Nat /\ (Pushed(j) <=> \A u \in Threads : ~Holds(u, j, Pushing))
      BY <1>1 DEF Marks
    <3>2. CASE j = i
      BY <1>4, <1>5, <1>6, <3>1, <3>2
    <3>3. CASE j # i
      <4>1. ~Holds(t, j, Pushing)
        BY <3>3 DEF Holds, i
      <4> QED
        BY <1>4, <1>5, <3>1, <3>3, <4>1
    <3> QED
      BY <3>2, <3>3
  <2>3. ASSUME NEW j \in 0 .. readIndex' - 1
        PROVE  Popped(j)' <=> \A u \in Threads : ~Holds(u, j, Popping)'
    <3>1. j \in Nat /\ (Popped(j) <=> \A u \in Threads : ~Holds(u, j, Popping))
      BY <1>1 DEF Marks
    <3> QED
      BY <1>4, <1>5, <3>1
  <2>4. ASSUME NEW j \in readIndex' .. writeIndex' - 1 PROVE ~Popped(j)'
    <3>1. j \in Nat /\ ~Popped(j)
      BY <1>1 DEF Marks
    <3> QED
      BY <1>4, <3>1
  <2> QED
    BY <2>1, <2>2, <2>3, <2>4 DEF Marks
<1> QED
  BY <1>8, <1>9

(* The pop of index i ends, and with it the lap of its slot.                *)
LEMMA PopMarkKeeps ==
  ASSUME SizeIsPowerOfTwo, Inv, Bounded', NEW t \in Threads, PopMark(t)
  PROVE  Inv'
<1> USE DEF Inv, Bounded, TypeOK
<1> DEFINE i == idx[t]
           s == TransIndex(i)
<1>1. /\ pc[t] = "popMark" /\ pc'[t] = "idle"
      /\ \A u \in Threads \ {t} : pc'[u] = pc[u] /\ idx'[u] = idx[u]
      /\ UNCHANGED <<mode, writeIndex, readIndex>>
      /\ mode = "E_CAS"
  BY DEF PopMark, Goto, Return
<1>2. /\ i \in Nat /\ i < writeIndex /\ s \in Slots
      /\ active[s] = i + 1
  BY <1>1, SlotType DEF Claims, Turns, Mark, Popping
<1>3. /\ active'[s] = -(i + 1)
      /\ \A r \in Slots \ {s} : active'[r] = active[r]
  BY <1>2 DEF PopMark
<1> HIDE DEF i, s
<1>4. ASSUME NEW j \in Nat
      PROVE  /\ Popped(j)' <=> Popped(j) \/ j = i
             /\ Pushed(j)' <=> Pushed(j)
  <2>1. CASE TransIndex(j) # s
    BY <1>3, <2>1, SlotType DEF s, Pushed, Popped, Mark
  <2>2. CASE TransIndex(j) = s
    <3>1. Mark(j) = i + 1 /\ Mark(j)' = -(i + 1)
      BY <1>2, <1>3, <2>2 DEF Mark
    <3>2. i = j \/ i + Size <= j \/ j + Size <= i
      BY <1>2, <2>2, SameSlot DEF s
    <3> QED
      BY <1>2, <3>1, <3>2, SizeAssumption DEF Pushed, Popped
  <2> QED
    BY <2>1, <2>2
<1>5. ASSUME NEW u \in Threads, NEW j \in Int
      PROVE  /\ Holds(u, j, Popping)' <=> Holds(u, j, Popping) /\ u # t
             /\ Holds(u, j, Pushing)' <=> Holds(u, j, Pushing)
  BY <1>1 DEF Holds, Pushing, Popping
<1>6. \A u \in Threads \ {t} : ~Holds(u, i, Popping)
  BY <1>1 DEF Holds, Turns, Popping, i
<1>7. ASSUME NEW u \in Threads \ {t}, pc[u] \in {"pushStore", "pushMark", "popMove", "popMark"}
      PROVE  TransIndex(idx[u]) # s
  <2> SUFFICES ASSUME TransIndex(idx[u]) = s PROVE FALSE
    OBVIOUS
  <2>1. Mark(idx[u]) = i + 1 /\ idx[u] \in Nat
    BY <1>2 DEF Mark
  <2>2. CASE pc[u] \in {"pushStore", "pushMark"}
    BY <1>2, <2>1, <2>2, SizeAssumption DEF Turns, TurnOfPush
  <2>3. CASE pc[u] \in {"popMove", "popMark"}
    <3>1. idx[u] + 1 = i + 1
      BY <2>1, <2>3 DEF Turns
    <3>2. idx[u] = i
      BY <1>2, <2>1, <3>1
    <3> QED
      BY <1>6, <2>3, <3>2 DEF Holds, Popping
  <2> QED
    BY <1>7, <2>2, <2>3
<1>8. Turns'
  <2>1. ASSUME NEW u \in Threads, pc'[u] \in {"pushStore", "pushMark"}
        PROVE  Mark(idx[u])' = TurnOfPush(idx[u])'
    <3>1. u # t /\ idx'[u] = idx[u] /\ Mark(idx[u]) = TurnOfPush(idx[u])
      BY <1>1, <2>1 DEF Turns
    <3>2. active'[TransIndex(idx[u])] = active[TransIndex(idx[u])]
      BY <1>1, <1>3, <1>7, <2>1, <3>1, SlotType
    <3> QED
      BY <3>1, <3>2 DEF Mark, TurnOfPush
  <2>2. ASSUME NEW u \in Threads, pc'[u] \in {"popMove", "popMark"}
        PROVE  Mark(idx[u])' = idx'[u] + 1
    <3>1. u # t /\ idx'[u] = idx[u] /\ Mark(idx[u]) = idx[u] + 1
      BY <1>1, <2>2 DEF Turns
    <3>2. active'[TransIndex(idx[u])] = active[TransIndex(idx[u])]
      BY <1>1, <1>3, <1>7, <2>2, <3>1, SlotType
    <3> QED
      BY <3>1, <3>2 DEF Mark
  <2>3. ASSUME NEW u \in Threads, NEW v \in Threads \ {u}
        PROVE  /\ {pc'[u], pc'[v]} \subseteq Pushing => idx'[u] # idx'[v]
               /\ {pc'[u], pc'[v]} \subseteq Popping => idx'[u] # idx'[v]
    <3>1. pc'[t] \notin Pushing \cup Popping
      BY <1>1 DEF Pushing, Popping
    <3> QED
      BY <1>1, <3>1 DEF Turns
  <2> QED
    BY <2>1, <2>2, <2>3 DEF Turns
<1>9. i < readIndex
  BY <1>1 DEF Claims, Popping, i
<1>10. Marks'
  <2>1. ASSUME NEW r \in Slots, active'[r] # 0
        PROVE  \E j \in 0 .. writeIndex' - 1 : TransIndex(j) = r /\ active'[r] \in {j + 1, -(j + 1)}
    <3>1. CASE r = s
      BY <1>1, <1>2, <1>3, <3>1 DEF s
    <3>2. CASE r # s
      BY <1>1, <1>3, <2>1, <3>2 DEF Marks
    <3> QED
      BY <3>1, <3>2
  <2>2. ASSUME NEW j \in 0 .. writeIndex' - 1
        PROVE  Pushed(j)' <=> \A u \in Threads : ~Holds(u, j, Pushing)'
    <3>1. j \in Nat /\ (Pushed(j) <=> \A u \in Threads : ~Holds(u, j, Pushing))
      BY <1>1 DEF Marks
    <3> QED
      BY <1>4, <1>5, <3>1
  <2>3. ASSUME NEW j \in 0 .. readIndex' - 1
        PROVE  Popped(j)' <=> \A u \in Threads : ~Holds(u, j, Popping)'
    <3>1. j \in Nat /\ (Popped(j) <=> \A u \in Threads : ~Holds(u, j, Popping))
      BY <1>1 DEF Marks
    <3>2. CASE j = i
      BY <1>4, <1>5, <1>6, <3>1, <3>2
    <3>3. CASE j # i
      <4>1. ~Holds(t, j, Popping)
        BY <3>3 DEF Holds, i
      <4> QED
        BY <1>4, <1>5, <3>1, <3>3, <4>1
    <3> QED
      BY <3>2, <3>3
  <2>4. ASSUME NEW j \in readIndex' .. writeIndex' - 1 PROVE ~Popped(j)'
    <3>1. j \in Nat /\ ~Popped(j) /\ j # i
      BY <1>1, <1>9 DEF Marks
    <3> QED
      BY <1>4, <3>1
  <2> QED
    BY <2>1, <2>2, <2>3, <2>4 DEF Marks
<1> QED
  BY <1>8, <1>10

LEMMA InvInit == Init => Inv
<1> SUFFICES ASSUME Init PROVE Inv
  OBVIOUS
<1>1. Bounded
  BY BoundedInit
<1>2. Turns
  BY DEF Turns, Init, Pushing, Popping
<1>3. Marks
  BY SizeAssumption DEF Init, Marks
<1> QED
  BY <1>1, <1>2, <1>3 DEF Inv

LEMMA InvNext == SizeIsPowerOfTwo /\ Inv /\ [Next]_vars => Inv'
<1> SUFFICES ASSUME SizeIsPowerOfTwo, Inv, [Next]_vars PROVE Inv'
  OBVIOUS
<1>1. Bounded'
  BY BoundedNext DEF Inv
<1>2. CASE UNCHANGED vars
  BY <1>2 DEF vars, Inv, Bounded, TypeOK, Claims, Turns, Marks, Mark, Pushed, Popped, Holds, TurnOfPush
<1>3. ASSUME NEW t \in Threads, NEW v \in Offers[t], PushLock(t, v) PROVE Inv'
  <2>1. mode' = "lock" /\ \A u \in Threads : pc'[u] = "idle"
    BY <1>3 DEF Inv, Bounded, PushLock
  <2> QED
    BY <1>1, <2>1 DEF Inv, Turns, Pushing, Popping
<1>4. ASSUME NEW t \in Threads, PopLock(t) PROVE Inv'
  <2>1. mode' = "lock" /\ \A u \in Threads : pc'[u] = "idle"
    BY <1>4 DEF Inv, Bounded, PopLock
  <2> QED
    BY <1>1, <2>1 DEF Inv, Turns, Pushing, Popping
<1>5. ASSUME NEW t \in Threads, NEW l \in Labels, Goto(t, l),
             {pc[t], l} \cap (Pushing \cup Popping) = {},
             UNCHANGED <<mode, writeIndex, readIndex, active>>,
             \A u \in Threads \ {t} : idx'[u] = idx[u]
      PROVE  Inv'
  <2>1. l \notin {"pushStore", "pushMark", "popMove", "popMark"}
    BY <1>5 DEF Pushing, Popping
  <2> QED
    BY <1>1, <1>5, <2>1, QuietKeeps
<1> USE DEF Labels, Pushing, Popping, Return
<1>6. ASSUME NEW t \in Threads, NEW v \in Offers[t], PushCall(t, v) PROVE Inv'
  <2>1. Goto(t, "pushLoadRead") /\ \A u \in Threads \ {t} : idx'[u] = idx[u]
    BY <1>6 DEF PushCall, Inv, Bounded, TypeOK
  <2> QED
    BY <1>5, <1>6, <2>1 DEF PushCall
<1>7. ASSUME NEW t \in Threads, PushRetry(t) PROVE Inv'
  <2>1. Goto(t, "pushLoadRead") /\ \A u \in Threads \ {t} : idx'[u] = idx[u]
    BY <1>7 DEF PushRetry, Inv, Bounded, TypeOK
  <2> QED
    BY <1>5, <1>7, <2>1 DEF PushRetry
<1>8. ASSUME NEW t \in Threads, PushLoadRead(t) PROVE Inv'
  <2>1. PICK l \in {"idle", "pushCas"} : Goto(t, l)
    BY <1>8 DEF PushLoadRead
  <2>2. \A u \in Threads \ {t} : idx'[u] = idx[u]
    BY <1>8 DEF PushLoadRead, Inv, Bounded, TypeOK
  <2> QED
    BY <1>5, <1>8, <2>1, <2>2 DEF PushLoadRead
<1>9. ASSUME NEW t \in Threads, PushCas(t) PROVE Inv'
  <2>1. CASE writeIndex = idx[t]
    BY <1>1, <1>9, <2>1, PushCasKeeps
  <2>2. CASE writeIndex # idx[t]
    <3>1. Goto(t, "pushRetry") /\ UNCHANGED <<mode, writeIndex, readIndex, active, idx>>
      BY <1>9, <2>2 DEF PushCas
    <3> QED
      BY <1>5, <1>9, <3>1 DEF PushCas
  <2> QED
    BY <2>1, <2>2
<1>10. ASSUME NEW t \in Threads, PushWait(t) PROVE Inv'
  <2>1. Goto(t, "pushStore") /\ Mark(idx[t]) = TurnOfPush(idx[t])
    BY <1>10 DEF PushWait, Mark
  <2> QED
    BY <1>1, <1>10, <2>1, QuietKeeps DEF PushWait
<1>11. ASSUME NEW t \in Threads, PushStore(t) PROVE Inv'
  <2>1. Goto(t, "pushMark") /\ Mark(idx[t]) = TurnOfPush(idx[t])
    BY <1>11 DEF PushStore, Inv, Turns
  <2> QED
    BY <1>1, <1>11, <2>1, QuietKeeps DEF PushStore
<1>12. ASSUME NEW t \in Threads, PopCall(t) PROVE Inv'
  <2>1. Goto(t, "popLoadRead") /\ \A u \in Threads \ {t} : idx'[u] = idx[u]
    BY <1>12 DEF PopCall, Inv, Bounded, TypeOK
  <2> QED
    BY <1>5, <1>12, <2>1 DEF PopCall
<1>13. ASSUME NEW t \in Threads, PopRetry(t) PROVE Inv'
  <2>1. Goto(t, "popLoadRead") /\ \A u \in Threads \ {t} : idx'[u] = idx[u]
    BY <1>13 DEF PopRetry, Inv, Bounded, TypeOK
  <2> QED
    BY <1>5, <1>13, <2>1 DEF PopRetry
<1>14. ASSUME NEW t \in Threads, PopLoadRead(t) PROVE Inv'
  <2>1. PICK l \in {"idle", "popCas"} : Goto(t, l)
    BY <1>14 DEF PopLoadRead
  <2>2. \A u \in Threads \ {t} : idx'[u] = idx[u]
    BY <1>14 DEF PopLoadRead, Inv, Bounded, TypeOK
  <2> QED
    BY <1>5, <1>14, <2>1, <2>2 DEF PopLoadRead
<1>15. ASSUME NEW t \in Threads, PopCas(t) PROVE Inv'
  <2>1. CASE readIndex = idx[t]
    BY <1>1, <1>15, <2>1, PopCasKeeps
  <2>2. CASE readIndex # idx[t]
    <3>1. Goto(t, "popRetry") /\ UNCHANGED <<mode, writeIndex, readIndex, active, idx>>
      BY <1>15, <2>2 DEF PopCas
    <3> QED
      BY <1>5, <1>15, <3>1 DEF PopCas
  <2> QED
    BY <2>1, <2>2
<1>16. ASSUME NEW t \in Threads, PopWait(t) PROVE Inv'
  <2>1. Goto(t, "popMove") /\ Mark(idx[t]) = idx[t] + 1
    BY <1>16 DEF PopWait, Mark
  <2> QED
    BY <1>1, <1>16, <2>1, QuietKeeps DEF PopWait
<1>17. ASSUME NEW t \in Threads, PopMove(t) PROVE Inv'
  <2>1. Goto(t, "popMark") /\ Mark(idx[t]) = idx[t] + 1
    BY <1>17 DEF PopMove, Inv, Turns
  <2> QED
    BY <1>1, <1>17, <2>1, QuietKeeps DEF PopMove
<1>18. ASSUME NEW t \in Threads, PushMark(t) \/ PopMark(t) PROVE Inv'
  BY <1>1, <1>18, PushMarkKeeps, PopMarkKeeps
<1> QED
  BY <1>2, <1>3, <1>4, <1>6, <1>7, <1>8, <1>9, <1>10, <1>11, <1>12, <1>13, <1>14, <1>15, <1>16,
     <1>17, <1>18 DEF Next, Push, Pop, Continue

(* In every reachable state the mark of a slot tells which index was there  *)
(* last and whether its push and its pop are over, and the calls in         *)
(* progress hold indices of their own, if the mask is a remainder.          *)
THEOREM Invariance ==
  ASSUME SizeIsPowerOfTwo
  PROVE  Spec => []Inv
<1>1. Inv /\ [Next]_vars => Inv'
  BY InvNext
<1> QED
  BY <1>1, InvInit, PTL DEF Spec

(* A call that has not ended has its slot to itself, whatever lap the other *)
(* calls are in.                                                            *)
THEOREM MutualExclusion ==
  ASSUME SizeIsPowerOfTwo
  PROVE  Spec => []SlotExclusive
<1>1. Inv => SlotExclusive
  <2> SUFFICES ASSUME Inv, NEW t \in Threads, NEW u \in Threads, t # u,
                      {pc[t], pc[u]} \subseteq (Pushing \cup Popping) \ {"pushWait", "popWait"},
                      TransIndex(idx[t]) = TransIndex(idx[u])
               PROVE  FALSE
    BY DEF SlotExclusive
  <2> USE SizeAssumption DEF TurnOfPush
  <2>1. idx[t] \in Nat /\ idx[u] \in Nat /\ Mark(idx[t]) = Mark(idx[u])
    BY DEF Mark, Inv, Bounded, TypeOK
  <2>2. idx[t] = idx[u] \/ idx[t] + Size <= idx[u] \/ idx[u] + Size <= idx[t]
    BY <2>1, SameSlot
  <2>3. \A r \in {t, u} : \/ /\ pc[r] \in {"pushStore", "pushMark"}
                             /\ Mark(idx[r]) = TurnOfPush(idx[r])
                          \/ /\ pc[r] \in {"popMove", "popMark"}
                             /\ Mark(idx[r]) = idx[r] + 1
    BY DEF Inv, Turns, Pushing, Popping
  <2>4. CASE pc[t] \in {"pushStore", "pushMark"} /\ pc[u] \in {"pushStore", "pushMark"}
    <3>1. idx[t] # idx[u]
      BY <2>4 DEF Inv, Turns, Pushing
    <3> QED
      BY <2>1, <2>2, <2>3, <2>4, <3>1
  <2>5. CASE pc[t] \in {"popMove", "popMark"} /\ pc[u] \in {"popMove", "popMark"}
    <3>1. idx[t] # idx[u]
      BY <2>5 DEF Inv, Turns, Popping
    <3> QED
      BY <2>1, <2>3, <2>5, <3>1
  <2> QED
    BY <2>1, <2>3, <2>4, <2>5
<1> QED
  BY <1>1, Invariance, PTL

(* Whatever a call spins for, another call is about to bring it about.      *)
THEOREM NobodySpinsAlone ==
  ASSUME SizeIsPowerOfTwo
  PROVE  Spec => []SpinsForAPeer
<1>1. ASSUME Inv, NEW t \in Threads, pc[t] = "pushWait", Mark(idx[t]) # TurnOfPush(idx[t])
      PROVE  \E u \in Threads : pc[u] \in Popping /\ idx[u] = idx[t] - Size
  <2> DEFINE i == idx[t]
             k == i - Size
  <2>1. mode = "E_CAS" /\ i \in 0 .. writeIndex - 1 /\ Holds(t, i, Pushing)
    BY <1>1 DEF Inv, Bounded, TypeOK, Claims, Pushing, Holds
  <2>2. ~Pushed(i)
    BY <1>1, <2>1 DEF Inv, Marks
  <2>3. Mark(i) = 0 \/ (i >= Size /\ -(k + 1) <= Mark(i) /\ Mark(i) <= k + 1)
    <3> HIDE DEF i
    <3> QED
      BY <1>1, <2>1, <2>2, MarkBelow
  <2>4. k \in 0 .. readIndex - 1 /\ i = k + Size /\ Mark(i) # -(k + 1)
    BY <1>1, <2>1, <2>3, SizeAssumption DEF TurnOfPush, Inv, Bounded, TypeOK
  <2>5. Mark(k) = Mark(i)
    <3> HIDE DEF i, k
    <3> QED
      BY <2>4, SlotNextLap DEF Mark
  <2>6. ~Popped(k)
    <3>1. k \in Nat /\ Mark(i) \in Int
      BY <1>1, <2>1, <2>4, SlotType DEF Mark, Inv, Bounded, TypeOK
    <3> HIDE DEF k
    <3> QED
      BY <2>3, <2>4, <2>5, <3>1 DEF Popped
  <2>7. \E u \in Threads : Holds(u, k, Popping)
    <3> HIDE DEF k
    <3> QED
      BY <1>1, <2>1, <2>4, <2>6 DEF Inv, Marks
  <2> QED
    BY <2>7 DEF Holds
<1>2. ASSUME Inv, NEW t \in Threads, pc[t] = "popWait", Mark(idx[t]) # idx[t] + 1
      PROVE  \E u \in Threads : pc[u] \in Pushing /\ idx[u] = idx[t]
  <2> DEFINE i == idx[t]
  <2>1. mode = "E_CAS" /\ i \in 0 .. readIndex - 1 /\ i \in 0 .. writeIndex - 1 /\ Holds(t, i, Popping)
    BY <1>2 DEF Inv, Bounded, TypeOK, Claims, Popping, Holds
  <2>2. ~Popped(i)
    BY <1>2, <2>1 DEF Inv, Marks
  <2>3. Mark(i) \in Int
    BY <1>2, <2>1, SlotType DEF Mark, Inv, Bounded, TypeOK
  <2>4. ~Pushed(i)
    BY <1>2, <2>1, <2>2, <2>3 DEF Pushed, Popped
  <2> HIDE DEF i
  <2>5. \E u \in Threads : Holds(u, i, Pushing)
    BY <1>2, <2>1, <2>4 DEF Inv, Marks
  <2> QED
    BY <2>5 DEF Holds, i
<1>3. Inv => SpinsForAPeer
  BY <1>1, <1>2 DEF SpinsForAPeer, Mark
<1> QED
  BY <1>3, Invariance, PTL

-----------------------------------------------------------------------------
(* The queue implements the abstract FIFO queue                             *)

(* The items that are in the queue.                                         *)
ItemsRange == {Item(readIndex + k - 1) : k \in 1 .. writeIndex - readIndex}

(* Items is the sequence it is meant to be.                                 *)
ItemsShape ==
  /\ Items \in Seq(ItemsRange)
  /\ Len(Items) = writeIndex - readIndex
  /\ \A k \in 1 .. writeIndex - readIndex, i \in Nat : i = readIndex + k - 1 => Items[k] = Item(i)

LEMMA ItemsHaveShape == TypeOK => ItemsShape
<1> SUFFICES ASSUME TypeOK PROVE ItemsShape
  OBVIOUS
<1>1. writeIndex - readIndex \in Nat
  BY DEF TypeOK
<1>2. Items \in [1 .. writeIndex - readIndex -> ItemsRange]
  BY DEF Items, ItemsRange
<1>3. Items \in Seq(ItemsRange)
  BY <1>1, <1>2, SeqDef
<1>4. Len(Items) = writeIndex - readIndex
  BY <1>1, <1>2, <1>3, LenProperties
<1> QED
  BY <1>3, <1>4 DEF Items, ItemsShape

(* Thread t holds index i and has not yet stored its item.                  *)
Stores(t, i) == Holds(t, i, {"pushWait", "pushStore"})

(* An item is the argument of the push about to store it, if there is one,  *)
(* and the element in its slot otherwise.                                   *)
ItemsMeaning ==
  \A i \in Nat :
    /\ \A t \in Threads : Stores(t, i) => Item(i) = arg[t]
    /\ (\A t \in Threads : ~Stores(t, i)) => Item(i) = element[TransIndex(i)]

(* The CHOOSE of Item has one choice only.                                  *)
LEMMA ItemsMean == Inv => ItemsMeaning
<1> SUFFICES ASSUME Inv, NEW i \in Nat
             PROVE  /\ \A t \in Threads : Stores(t, i) => Item(i) = arg[t]
                    /\ (\A t \in Threads : ~Stores(t, i)) => Item(i) = element[TransIndex(i)]
  BY DEF ItemsMeaning
<1> DEFINE Storing == {t \in Threads : pc[t] \in {"pushWait", "pushStore"} /\ idx[t] = i}
<1>1. Item(i) = IF Storing # {} THEN arg[CHOOSE t \in Storing : TRUE] ELSE element[TransIndex(i)]
  BY DEF Item
<1>2. ASSUME NEW t \in Threads, Stores(t, i) PROVE Item(i) = arg[t]
  <2>1. t \in Storing
    BY <1>2 DEF Stores, Holds
  <2>2. \A u \in Storing : u = t
    BY <1>2 DEF Stores, Holds, Inv, Turns, Pushing
  <2> HIDE DEF Storing
  <2> QED
    BY <1>1, <2>1, <2>2
<1>3. ASSUME \A t \in Threads : ~Stores(t, i) PROVE Item(i) = element[TransIndex(i)]
  BY <1>1, <1>3 DEF Stores, Holds
<1> QED
  BY <1>2, <1>3

(* A thread whose pop has still to move its item has it all the same.       *)
TakenMeaning ==
  /\ Taken = [t \in Threads |-> Taken[t]]
  /\ \A t \in Threads :
       /\ \A i \in Nat : Holds(t, i, {"popWait", "popMove"}) => Taken[t] = Item(i)
       /\ pc[t] \notin {"popWait", "popMove"} => Taken[t] = res[t]

LEMMA TakenMeans == TakenMeaning
  BY DEF TakenMeaning, Taken, Holds

(* All this holds in the state after a step as well.                        *)
LEMMA ItemsNext == Inv' => ItemsShape' /\ ItemsMeaning' /\ TakenMeaning'
<1>1. Inv => TypeOK
  BY DEF Inv, Bounded
<1> QED
  BY <1>1, ItemsHaveShape, ItemsMean, TakenMeans, PTL

LEMMA FifoInitially == Init => Abstract!FifoInit
<1> SUFFICES ASSUME Init PROVE Items = <<>> /\ Taken = [t \in Threads |-> NoValue]
  BY DEF Abstract!FifoInit
<1>1. Items = <<>>
  BY DEF Init, Items
<1>2. Taken = [t \in Threads |-> NoValue]
  BY DEF Init, Taken
<1> QED
  BY <1>1, <1>2

(* The item of an index lives on where the same pushes are still to store   *)
(* it, or else its slot is not written.                                     *)
LEMMA ItemKept ==
  ASSUME ItemsMeaning, ItemsMeaning', NEW i \in Nat,
         \A u \in Threads : Stores(u, i)' <=> Stores(u, i),
         \A u \in Threads : Stores(u, i) => arg'[u] = arg[u],
         \/ \E u \in Threads : Stores(u, i)
         \/ element'[TransIndex(i)] = element[TransIndex(i)]
  PROVE  Item(i)' = Item(i)
<1>1. CASE \E u \in Threads : Stores(u, i)
  BY <1>1 DEF ItemsMeaning
<1>2. CASE \A u \in Threads : ~Stores(u, i)
  BY <1>2 DEF ItemsMeaning
<1> QED
  BY <1>1, <1>2

(* A step that moves no counter and changes no item leaves the queue alone. *)
LEMMA ItemsKept ==
  ASSUME UNCHANGED <<writeIndex, readIndex>>, TypeOK,
         \A i \in readIndex .. writeIndex - 1 : Item(i)' = Item(i)
  PROVE  Items' = Items
  BY DEF Items, TypeOK

(* An item that joins the others at the end.                                *)
LEMMA ItemAppended ==
  ASSUME Inv, Inv', NEW v \in Values,
         writeIndex' = writeIndex + 1, readIndex' = readIndex, writeIndex - readIndex < Size,
         \A i \in readIndex .. writeIndex - 1 : Item(i)' = Item(i),
         \A i \in Nat : i = writeIndex => Item(i)' = v,
         Taken' = Taken
  PROVE  Abstract!Enq(v)
<1>1. /\ ItemsShape /\ ItemsShape' /\ writeIndex \in Nat /\ readIndex \in 0 .. writeIndex
  BY ItemsHaveShape, ItemsNext DEF Inv, Bounded, TypeOK
<1>2. Len(Items') = Len(Items) + 1 /\ Len(Items) = writeIndex - readIndex
  BY <1>1 DEF ItemsShape
<1>3. Items'[Len(Items) + 1] = v
  BY <1>1, <1>2 DEF ItemsShape
<1>4. ASSUME NEW k \in 1 .. Len(Items) PROVE Items'[k] = Items[k]
  <2>1. PICK i \in readIndex .. writeIndex - 1 : i = readIndex + k - 1
    BY <1>1, <1>2
  <2>2. /\ i \in Nat /\ k \in 1 .. writeIndex' - readIndex' /\ i = readIndex' + k - 1
        /\ k \in 1 .. writeIndex - readIndex
    BY <1>1, <1>2, <2>1
  <2>3. Items'[k] = Item(i)' /\ Items[k] = Item(i)
    BY <1>1, <2>1, <2>2 DEF ItemsShape
  <2> QED
    BY <2>1, <2>3
<1>5. Items' = Append(Items, v)
  <2>1. Items \in Seq(ItemsRange) /\ Items' \in Seq(ItemsRange')
    BY <1>1 DEF ItemsShape
  <2> QED
    BY <1>2, <1>3, <1>4, <2>1, IsAppend
<1> QED
  BY <1>2, <1>5 DEF Abstract!Enq

(* The oldest item goes to thread t.                                        *)
LEMMA ItemRemoved ==
  ASSUME Inv, Inv', NEW t \in Threads,
         writeIndex' = writeIndex, readIndex' = readIndex + 1, readIndex < writeIndex,
         \A i \in Nat : Item(i)' = Item(i),
         Taken' = [Taken EXCEPT ![t] = Item(readIndex)]
  PROVE  Abstract!Deq(t)
<1>1. ItemsShape /\ ItemsShape' /\ writeIndex \in Nat /\ readIndex \in 0 .. writeIndex
  BY ItemsHaveShape, ItemsNext DEF Inv, Bounded, TypeOK
<1>2. Len(Items') = Len(Items) - 1 /\ Len(Items) = writeIndex - readIndex
  BY <1>1 DEF ItemsShape
<1>3. Items # <<>> /\ Head(Items) = Item(readIndex)
  BY <1>1 DEF ItemsShape
<1>4. ASSUME NEW k \in 1 .. Len(Items') PROVE Items'[k] = Items[k + 1]
  <2>1. PICK i \in Nat : i = readIndex + k
    BY <1>1
  <2>2. k \in 1 .. writeIndex' - readIndex' /\ i = readIndex' + k - 1
    BY <1>1, <1>2, <2>1
  <2>3. k + 1 \in 1 .. writeIndex - readIndex /\ i = readIndex + (k + 1) - 1
    BY <1>1, <1>2, <2>1
  <2>4. Items'[k] = Item(i)' /\ Items[k + 1] = Item(i)
    BY <1>1, <2>2, <2>3 DEF ItemsShape
  <2> QED
    BY <2>4
<1>5. Items' = Tail(Items)
  <2>1. Items \in Seq(ItemsRange) /\ Items' \in Seq(ItemsRange')
    BY <1>1 DEF ItemsShape
  <2> QED
    BY <1>2, <1>3, <1>4, <2>1, IsTail
<1> QED
  BY <1>3, <1>5 DEF Abstract!Deq

(* A step that neither takes part in the queue's counters nor stores.       *)
LEMMA QuietActionsStutter ==
  ASSUME Inv, Inv', NEW t \in Threads,
         \/ \E v \in Offers[t] : PushCall(t, v)
         \/ PushRetry(t) \/ PushLoadRead(t) \/ PushWait(t) \/ PushMark(t)
         \/ PopCall(t) \/ PopRetry(t) \/ PopLoadRead(t) \/ PopWait(t) \/ PopMove(t) \/ PopMark(t)
         \/ PushCas(t) /\ writeIndex # idx[t]
         \/ PopCas(t) /\ readIndex # idx[t]
  PROVE  UNCHANGED <<Items, Taken>>
<1> USE DEF PushCall, PushRetry, PushLoadRead, PushWait, PushMark, PopCall, PopRetry, PopLoadRead,
            PopWait, PopMove, PopMark, PushCas, PopCas, Goto, Return
<1>1. UNCHANGED <<writeIndex, readIndex, element>> /\ TypeOK /\ TypeOK'
  BY DEF Inv, Bounded
<1>2. \A u \in Threads, i \in Nat : Stores(u, i)' <=> Stores(u, i)
  BY <1>1 DEF Stores, Holds, TypeOK
<1>3. \A u \in Threads, i \in Nat : Stores(u, i) => arg'[u] = arg[u]
  BY <1>1 DEF Stores, Holds, TypeOK
<1>4. \A i \in Nat : Item(i)' = Item(i)
  BY <1>1, <1>2, <1>3, ItemsMean, ItemsNext, ItemKept
<1>5. Items' = Items
  <2>1. \A i \in readIndex .. writeIndex - 1 : i \in Nat
    BY <1>1 DEF TypeOK
  <2> QED
    BY <1>1, <1>4, <2>1, ItemsKept
<1>6. Taken' = Taken
  <2> SUFFICES ASSUME NEW u \in Threads PROVE Taken'[u] = Taken[u]
    BY TakenMeans, ItemsNext DEF TakenMeaning
  <2>1. CASE u = t /\ PopMove(t)
    <3>1. idx[t] \in Nat /\ idx[t] \in 0 .. writeIndex - 1 /\ mode = "E_CAS" /\ Pushed(idx[t])
      BY <2>1, SizeAssumption DEF Inv, Bounded, TypeOK, Claims, Turns, Pushed, Popping
    <3>2. \A x \in Threads : ~Stores(x, idx[t])
      BY <3>1 DEF Inv, Marks, Stores, Holds, Pushing
    <3>3. Item(idx[t]) = element[TransIndex(idx[t])]
      BY <3>1, <3>2, ItemsMean DEF ItemsMeaning
    <3>4. Taken[t] = Item(idx[t])
      BY <2>1, <3>1, TakenMeans DEF TakenMeaning, Holds
    <3>5. Taken'[t] = res'[t] /\ res'[t] = element[TransIndex(idx[t])]
      BY <1>1, <2>1, ItemsNext DEF TakenMeaning, TypeOK
    <3> QED
      BY <2>1, <3>3, <3>4, <3>5
  <2>2. CASE ~(u = t /\ PopMove(t))
    <3>1. pc'[u] \in {"popWait", "popMove"} <=> pc[u] \in {"popWait", "popMove"}
      BY <1>1, <2>2 DEF TypeOK
    <3>2. res'[u] = res[u]
      BY <1>1, <2>2 DEF TypeOK
    <3>3. pc[u] \in {"popWait", "popMove"} => idx'[u] = idx[u] /\ idx[u] \in Nat
      BY <1>1, <2>2 DEF TypeOK
    <3> QED
      BY <1>4, <3>1, <3>2, <3>3, TakenMeans, ItemsNext DEF TakenMeaning, Holds
  <2> QED
    BY <2>1, <2>2
<1> QED
  BY <1>5, <1>6

(* A step that stores nothing new and leaves the results alone: the items   *)
(* that the pops in progress hold decide.                                   *)
LEMMA TakenKept ==
  ASSUME Inv, Inv', UNCHANGED <<idx, res>>,
         \A u \in Threads : pc'[u] \in {"popWait", "popMove"} <=> pc[u] \in {"popWait", "popMove"},
         \A u \in Threads, i \in Nat : Holds(u, i, {"popWait", "popMove"}) => Item(i)' = Item(i)
  PROVE  Taken' = Taken
<1> SUFFICES ASSUME NEW u \in Threads PROVE Taken'[u] = Taken[u]
  BY TakenMeans, ItemsNext DEF TakenMeaning
<1> QED
  BY TakenMeans, ItemsNext DEF TakenMeaning, Holds, Inv, Bounded, TypeOK

(* The compare-and-swap on m_nWriteIndex appends the argument.              *)
LEMMA PushCasEnqueues ==
  ASSUME Inv, Inv', NEW t \in Threads, PushCas(t), writeIndex = idx[t]
  PROVE  Abstract!FifoNext
<1> USE DEF Inv, Bounded, TypeOK
<1>1. /\ pc[t] = "pushCas" /\ pc'[t] = "pushWait" /\ \A u \in Threads \ {t} : pc'[u] = pc[u]
      /\ writeIndex' = writeIndex + 1 /\ writeIndex - readIndex < Size /\ arg[t] \in Values
      /\ UNCHANGED <<readIndex, element, idx, arg, res>>
  BY SizeAssumption DEF PushCas, Goto, Claims
<1>2. \A u \in Threads, i \in Nat : Stores(u, i)' <=> Stores(u, i) \/ (u = t /\ i = writeIndex)
  BY <1>1 DEF Stores, Holds
<1>3. \A i \in 0 .. writeIndex - 1 : Item(i)' = Item(i)
  <2> SUFFICES ASSUME NEW i \in 0 .. writeIndex - 1 PROVE Item(i)' = Item(i)
    OBVIOUS
  <2>1. i \in Nat /\ i # writeIndex
    OBVIOUS
  <2> QED
    BY <1>1, <1>2, <2>1, ItemsMean, ItemsNext, ItemKept
<1>4. \A i \in Nat : i = writeIndex => Item(i)' = arg[t]
  BY <1>1, <1>2, ItemsNext DEF ItemsMeaning
<1>5. Taken' = Taken
  <2>1. \A u \in Threads, i \in Nat : Holds(u, i, {"popWait", "popMove"}) => i \in 0 .. writeIndex - 1
    BY DEF Claims, Holds, Popping
  <2>2. \A u \in Threads : pc'[u] \in {"popWait", "popMove"} <=> pc[u] \in {"popWait", "popMove"}
    BY <1>1
  <2> QED
    BY <1>1, <1>3, <2>1, <2>2, TakenKept
<1>6. Abstract!Enq(arg[t])
  BY <1>1, <1>3, <1>4, <1>5, ItemAppended
<1> QED
  BY <1>1, <1>6 DEF Abstract!FifoNext

(* The compare-and-swap on m_nReadIndex takes the oldest item, which may    *)
(* still have to be stored.                                                 *)
LEMMA PopCasDequeues ==
  ASSUME Inv, Inv', NEW t \in Threads, PopCas(t), readIndex = idx[t]
  PROVE  Abstract!FifoNext
<1> USE DEF Inv, Bounded, TypeOK
<1>1. /\ pc[t] = "popCas" /\ pc'[t] = "popWait" /\ \A u \in Threads \ {t} : pc'[u] = pc[u]
      /\ readIndex' = readIndex + 1 /\ readIndex < writeIndex
      /\ UNCHANGED <<writeIndex, element, idx, arg, res>>
  BY DEF PopCas, Goto, Claims
<1>2. \A u \in Threads, i \in Nat : Stores(u, i)' <=> Stores(u, i)
  BY <1>1 DEF Stores, Holds
<1>3. \A i \in Nat : Item(i)' = Item(i)
  BY <1>1, <1>2, ItemsMean, ItemsNext, ItemKept
<1>4. Taken' = [Taken EXCEPT ![t] = Item(readIndex)]
  <2>1. Taken'[t] = Item(readIndex)
    BY <1>1, <1>3, ItemsNext DEF TakenMeaning, Holds
  <2>2. ASSUME NEW u \in Threads \ {t} PROVE Taken'[u] = Taken[u]
    BY <1>1, <1>3, TakenMeans, ItemsNext DEF TakenMeaning, Holds
  <2> QED
    BY <2>1, <2>2, TakenMeans, ItemsNext DEF TakenMeaning
<1>5. Abstract!Deq(t)
  BY <1>1, <1>3, <1>4, ItemRemoved
<1> QED
  BY <1>5 DEF Abstract!FifoNext

(* The element stored is the item it was before.  Of the other indices of   *)
(* the slot, the earlier ones are past their pops, and the pushes of the    *)
(* later ones wait.                                                         *)
LEMMA PushStoreStutters ==
  ASSUME SizeIsPowerOfTwo, Inv, Inv', NEW t \in Threads, PushStore(t)
  PROVE  UNCHANGED <<Items, Taken>>
<1> USE DEF Inv, Bounded, TypeOK
<1> DEFINE i == idx[t]
           s == TransIndex(i)
<1>1. /\ pc[t] = "pushStore" /\ pc'[t] = "pushMark" /\ \A u \in Threads \ {t} : pc'[u] = pc[u]
      /\ UNCHANGED <<writeIndex, readIndex, active, idx, arg, res>>
      /\ mode = "E_CAS" /\ Marks
      /\ i \in 0 .. writeIndex - 1 /\ s \in Slots
      /\ element'[s] = arg[t] /\ \A r \in Slots \ {s} : element'[r] = element[r]
      /\ Mark(i) = TurnOfPush(i) /\ TurnOfPush(i) \in Int
  BY SlotType, SizeAssumption DEF PushStore, Goto, Claims, Turns, Pushing, TurnOfPush
<1>2. \A u \in Threads, j \in Nat : Stores(u, j)' <=> Stores(u, j) /\ u # t
  BY <1>1 DEF Stores, Holds
<1>3. \A u \in Threads : Stores(u, i) => u = t
  BY <1>1 DEF Stores, Holds, Turns, Pushing
<1>4. Stores(t, i) /\ i \in Nat
  BY <1>1 DEF Stores, Holds
<1> HIDE DEF i
<1>5. ASSUME NEW j \in 0 .. writeIndex - 1, ~Popped(j) PROVE Item(j)' = Item(j)
  <2>1. j \in Nat
    OBVIOUS
  <2>2. CASE j = i
    BY <1>1, <1>2, <1>3, <1>4, <2>1, <2>2, ItemsMean, ItemsNext DEF ItemsMeaning
  <2>3. CASE j # i
    <3>1. \A u \in Threads : Stores(u, j)' <=> Stores(u, j)
      BY <1>2, <2>1, <2>3 DEF Stores, Holds, i
    <3>2. CASE TransIndex(j) # s
      BY <1>1, <2>1, <3>1, <3>2, SlotType, ItemsMean, ItemsNext, ItemKept
    <3>3. CASE TransIndex(j) = s
      <4>1. Mark(j) = TurnOfPush(i)
        BY <1>1, <3>3 DEF Mark
      <4>2. i + Size <= j \/ j + Size <= i
        BY <1>4, <2>1, <2>3, <3>3, SameSlot
      <4>3. i + Size <= j
        BY <1>4, <1>5, <2>1, <4>1, <4>2, SizeAssumption DEF Popped, TurnOfPush
      <4>4. ~Pushed(j) /\ Mark(j) # TurnOfPush(j)
        BY <1>4, <2>1, <4>1, <4>3, SizeAssumption DEF Pushed, TurnOfPush
      <4>5. PICK u \in Threads : Holds(u, j, Pushing)
        BY <1>1, <4>4 DEF Marks
      <4>6. Stores(u, j)
        BY <4>4, <4>5 DEF Stores, Holds, Pushing, Turns
      <4> QED
        BY <1>1, <2>1, <3>1, <4>6, ItemsMean, ItemsNext, ItemKept
    <3> QED
      BY <3>2, <3>3
  <2> QED
    BY <2>2, <2>3
<1>6. Items' = Items
  <2>1. ASSUME NEW j \in readIndex .. writeIndex - 1 PROVE Item(j)' = Item(j)
    BY <1>1, <1>5 DEF Marks
  <2> QED
    BY <1>1, <2>1, ItemsKept
<1>7. Taken' = Taken
  <2>1. ASSUME NEW u \in Threads, NEW j \in Nat, Holds(u, j, {"popWait", "popMove"})
        PROVE  Item(j)' = Item(j)
    <3>1. j \in 0 .. readIndex - 1 /\ Holds(u, j, Popping)
      BY <2>1 DEF Claims, Holds, Popping
    <3>2. ~Popped(j)
      BY <1>1, <3>1 DEF Marks
    <3> QED
      BY <1>5, <3>1, <3>2
  <2>2. \A u \in Threads : pc'[u] \in {"popWait", "popMove"} <=> pc[u] \in {"popWait", "popMove"}
    BY <1>1
  <2> QED
    BY <1>1, <2>1, <2>2, TakenKept
<1> QED
  BY <1>6, <1>7

(* Under the mutex a call is one step of the abstract queue.                *)
LEMMA LockedCallsTakeEffect ==
  ASSUME SizeIsPowerOfTwo, Inv, Inv', NEW t \in Threads,
         PopLock(t) \/ \E v \in Offers[t] : PushLock(t, v)
  PROVE  Abstract!FifoNext
<1> USE DEF Inv, Bounded, TypeOK
<1>1. \A u \in Threads : pc[u] = "idle" /\ pc'[u] = "idle"
  BY DEF PopLock, PushLock
<1>2. \A u \in Threads, i \in Nat : ~Stores(u, i) /\ ~Stores(u, i)'
  BY <1>1 DEF Stores, Holds
<1>3. \A i \in Nat : Item(i) = element[TransIndex(i)] /\ Item(i)' = element'[TransIndex(i)]
  BY <1>2, ItemsMean, ItemsNext DEF ItemsMeaning
<1>4. \A u \in Threads : Taken[u] = res[u] /\ Taken'[u] = res'[u]
  BY <1>1, TakenMeans, ItemsNext DEF TakenMeaning
<1>5. Taken = res /\ Taken' = res'
  BY <1>4, TakenMeans, ItemsNext DEF TakenMeaning
<1>6. CASE PopLock(t)
  <2>1. readIndex < writeIndex
    BY <1>6 DEF PopLock, IsEmpty
  <2>2. \A i \in Nat : Item(i)' = Item(i)
    BY <1>3, <1>6 DEF PopLock
  <2>3. Taken' = [Taken EXCEPT ![t] = Item(readIndex)]
    <3>1. Item(readIndex) = element[TransIndex(readIndex)]
      BY <1>3
    <3>2. res' = [res EXCEPT ![t] = element[TransIndex(readIndex)]]
      BY <1>6 DEF PopLock
    <3> QED
      BY <1>5, <3>1, <3>2
  <2>4. Abstract!Deq(t)
    BY <1>6, <2>1, <2>2, <2>3, ItemRemoved DEF PopLock
  <2> QED
    BY <2>4 DEF Abstract!FifoNext
<1>7. ASSUME NEW v \in Offers[t], PushLock(t, v) PROVE Abstract!FifoNext
  <2>1. v \in Values
    BY OffersAssumption
  <2>2. writeIndex - readIndex < Size
    BY <1>7, SizeAssumption DEF PushLock, IsFull
  <2>3. ASSUME NEW i \in readIndex .. writeIndex - 1 PROVE Item(i)' = Item(i)
    <3>1. i \in Nat /\ i < writeIndex /\ writeIndex < i + Size
      BY <2>2, SizeAssumption
    <3>2. TransIndex(i) # TransIndex(writeIndex)
      BY <3>1, SlotLap, SizeAssumption
    <3> QED
      BY <1>3, <1>7, <3>1, <3>2, SlotType DEF PushLock
  <2>4. \A i \in Nat : i = writeIndex => Item(i)' = v
    BY <1>3, <1>7, SlotType DEF PushLock
  <2>5. Abstract!Enq(v)
    BY <1>5, <1>7, <2>1, <2>2, <2>3, <2>4, ItemAppended DEF PushLock
  <2> QED
    BY <2>1, <2>5 DEF Abstract!FifoNext
<1> QED
  BY <1>6, <1>7

(* In both modes, the queue is a bounded FIFO queue.                        *)
THEOREM Refinement ==
  ASSUME SizeIsPowerOfTwo
  PROVE  Spec => ImplementsFifo
<1>1. Inv /\ Inv' /\ [Next]_vars => [Abstract!FifoNext]_(<<Items, Taken>>)
  <2> SUFFICES ASSUME Inv, Inv', [Next]_vars
               PROVE  Abstract!FifoNext \/ UNCHANGED <<Items, Taken>>
    OBVIOUS
  <2>1. CASE UNCHANGED vars
    BY <2>1 DEF vars, Items, Taken, Item
  <2>2. ASSUME NEW t \in Threads, PushCas(t) PROVE Abstract!FifoNext \/ UNCHANGED <<Items, Taken>>
    BY <2>2, PushCasEnqueues, QuietActionsStutter
  <2>3. ASSUME NEW t \in Threads, PopCas(t) PROVE Abstract!FifoNext \/ UNCHANGED <<Items, Taken>>
    BY <2>3, PopCasDequeues, QuietActionsStutter
  <2>4. CASE Next
    BY <2>2, <2>3, <2>4, QuietActionsStutter, PushStoreStutters, LockedCallsTakeEffect
       DEF Next, Push, Pop, Continue
  <2> QED
    BY <2>1, <2>4
<1> QED
  BY <1>1, FifoInitially, InvInit, Invariance, PTL
     DEF Spec, ImplementsFifo, Abstract!FifoSpec, Abstract!fifoVars
=============================================================================
