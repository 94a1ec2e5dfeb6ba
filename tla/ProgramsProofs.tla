---------------------------- MODULE ProgramsProofs ----------------------------
(***************************************************************************)
(* Proofs about the two programs of MCPrograms.  Timer fires in order, for *)
(* any delays and any number of timers.  SharedPtr counts its owners and   *)
(* frees what has none, for any threads, handles and blocks.               *)
(***************************************************************************)
EXTENDS SharedPtr, Timer, DataLemmas

-----------------------------------------------------------------------------
(* Timer: the first timer                                                   *)

(* Before is an order of the timers, and two of them are always ordered.    *)
LEMMA BeforeOrders ==
  ASSUME TimerTypeOK, NEW x \in timers, NEW y \in timers
  PROVE  /\ x # y => Before(x, y) \/ Before(y, x)
         /\ ~(Before(x, y) /\ Before(y, x))
<1>1. x.due \in Int /\ y.due \in Int /\ x.id \in Int /\ y.id \in Int /\ (x.id = y.id => x = y)
  BY DEF TimerTypeOK
<1> QED
  BY <1>1 DEF Before

(* *map.begin() is there: of the timers that expire first, the oldest.      *)
LEMMA FirstIsFirst ==
  ASSUME TimerTypeOK, LateBy(LongAgo), timers # {}
  PROVE  /\ First \in timers
         /\ \A y \in timers : y # First => Before(First, y)
         /\ \A y \in timers : First.due <= y.due
<1>1. /\ LongAgo \in Int
      /\ \A x \in timers : x.due \in Int /\ x.due - LongAgo \in Nat /\ x.id \in Nat
  BY TimerAssumption DEF TimerTypeOK, LateBy, LongAgo
<1> DEFINE Dues == {x.due - LongAgo : x \in timers}
<1>2. PICK d \in Dues : \A e \in Dues : d <= e
  <2>1. Dues \in SUBSET Nat /\ Dues # {}
    BY <1>1
  <2> HIDE DEF Dues
  <2> QED
    BY <2>1, LeastNumber
<1> DEFINE Ids == {x.id : x \in {y \in timers : y.due - LongAgo = d}}
<1>3. PICK i \in Ids : \A j \in Ids : i <= j
  <2>1. Ids \in SUBSET Nat /\ Ids # {}
    BY <1>1
  <2> HIDE DEF Ids
  <2> QED
    BY <2>1, LeastNumber
<1>4. PICK x \in timers : x.due - LongAgo = d /\ x.id = i
  BY <1>3
<1>5. ASSUME NEW y \in timers, y # x PROVE Before(x, y) /\ x.due <= y.due
  <2>1. d <= y.due - LongAgo
    BY <1>2
  <2>2. y.due - LongAgo = d => i <= y.id
    BY <1>3
  <2>3. x.id # y.id
    BY <1>5 DEF TimerTypeOK
  <2> QED
    BY <1>1, <1>4, <2>1, <2>2, <2>3 DEF Before
<1>6. ASSUME NEW z \in timers, \A y \in timers \ {z} : Before(z, y) PROVE z = x
  BY <1>5, <1>6, BeforeOrders
<1>7. First = x
  BY <1>5, <1>6 DEF First
<1>8. x.due <= x.due
  BY <1>1
<1> QED
  BY <1>5, <1>7, <1>8

-----------------------------------------------------------------------------
(* Timer: the invariant                                                     *)

LEMMA TimerInvInit == TimerInit => TimerInv
  BY TimerAssumption
     DEF TimerInit, TimerInv, TimerTypeOK, InOrder, LateBy, LongAgo

LEMMA AddTimerKeeps == ASSUME TimerInv, NEW msec \in Delays, AddTimer(msec) PROVE TimerInv'
<1> DEFINE new == [due |-> msec, id |-> gid + 1]
<1>1. /\ TimerTypeOK /\ msec \in 0 .. MaxLate - 1 /\ MaxLate \in Nat /\ MaxTimers \in Nat
      /\ gid \in Nat /\ gid < MaxTimers
      /\ new.due = msec /\ new.id = gid + 1 /\ new \in [due : Int, id : 1 .. gid + 1]
  BY TimerAssumption DEF TimerInv, TimerTypeOK, AddTimer
<1>2. timers' = timers \cup {new} /\ gid' = gid + 1 /\ UNCHANGED <<current, phase, timeout>>
  BY DEF AddTimer
<1>3. \A x \in timers : x.due \in Int /\ x.id \in 1 .. gid /\ x \in [due : Int, id : 1 .. gid + 1]
  BY <1>1 DEF TimerTypeOK
<1>4. current.due \in Int /\ current.id \in 0 .. gid /\ current \in [due : Int, id : 0 .. gid + 1]
  BY <1>1 DEF TimerTypeOK
<1> HIDE DEF new
<1>5. TimerTypeOK'
  <2>1. timers' \subseteq [due : Int, id : 1 .. gid']
    BY <1>1, <1>2, <1>3
  <2>2. ASSUME NEW x \in timers', NEW y \in timers', x.id = y.id PROVE x = y
    <3>1. \A z \in timers : z.id # gid + 1
      BY <1>1, <1>3
    <3> QED
      BY <1>1, <1>2, <2>2, <3>1 DEF TimerTypeOK
  <2> QED
    BY <1>1, <1>2, <1>4, <2>1, <2>2 DEF TimerTypeOK
<1>6. InOrder'
  <2>1. Before(current, new)
    BY <1>1, <1>4 DEF TimerInv, Before
  <2> QED
    BY <1>2, <2>1 DEF TimerInv, InOrder, Before
<1>7. ASSUME NEW n \in Int, n <= 0, LateBy(n) PROVE LateBy(n)'
  BY <1>1, <1>2, <1>7 DEF LateBy
<1>8. phase \in {"setup", "callback"} /\ LongAgo \in Int /\ LongAgo <= 0
  BY <1>1 DEF AddTimer, InClient, LongAgo
<1>9. LateBy(LongAgo)'
  BY <1>7, <1>8 DEF TimerInv
<1>10. phase \in {"setup", "loop", "epoll_wait"} => LateBy(-MaxLate)'
  BY <1>1, <1>7 DEF TimerInv
<1>11. \A x \in timers' : x.due < MaxLate
  BY <1>1, <1>2 DEF TimerInv
<1> QED
  BY <1>1, <1>2, <1>5, <1>6, <1>8, <1>9, <1>10, <1>11 DEF TimerInv

(* To delete timers disturbs nothing.                                       *)
LEMMA FewerTimersKeep ==
  ASSUME TimerInv, timers' \subseteq timers, UNCHANGED <<gid, current, timeout>>,
         \/ phase' = phase
         \/ /\ phase' \in {"check", "undefined"}
            /\ current \notin timers'
  PROVE  TimerInv'
<1>1. TimerTypeOK'
  BY DEF TimerInv, TimerTypeOK
<1>2. InOrder'
  BY DEF TimerInv, InOrder, Before
<1>3. \A n \in Int : LateBy(n) => LateBy(n)'
  BY DEF LateBy
<1>4. LongAgo \in Int /\ -MaxLate \in Int /\ timeout - 2 * MaxLate + 1 \in Int
  BY TimerAssumption DEF LongAgo, TimerInv, TimerTypeOK
<1>5. LateBy(LongAgo)'
  BY <1>3, <1>4 DEF TimerInv
<1>6. phase' \in {"setup", "loop", "epoll_wait"} => LateBy(-MaxLate)'
  BY <1>3, <1>4 DEF TimerInv
<1>7. phase' = "asleep" => LateBy(timeout - 2 * MaxLate + 1)'
  BY DEF TimerInv, LateBy
<1> QED
  BY <1>1, <1>2, <1>5, <1>6, <1>7 DEF TimerInv

(* A millisecond passes.  When the loop is late already, only a timeout can *)
(* let it pass, and that is bounded.                                        *)
LEMMA TickKeeps == ASSUME TimerInv, Tick PROVE TimerInv'
<1>1. /\ TimerTypeOK /\ MaxLate \in Nat /\ timeout \in Int /\ timeout >= -1 /\ timeout < MaxLate
      /\ LongAgo = -2 * MaxLate /\ LongAgo \in Int
  BY TimerAssumption DEF TimerInv, TimerTypeOK, LongAgo
<1>2. /\ timers' = {[x EXCEPT !.due = @ - 1] : x \in timers}
      /\ current' = [current EXCEPT !.due = IF @ > LongAgo THEN @ - 1 ELSE @]
      /\ timeout' = (IF phase = "asleep" /\ timeout > 0 THEN timeout - 1 ELSE timeout)
      /\ gid' = gid /\ phase' = phase
  BY DEF Tick
<1>3. /\ current.due \in Int /\ current.id \in 0 .. gid
      /\ current'.due = (IF current.due > LongAgo THEN current.due - 1 ELSE current.due)
      /\ current'.id = current.id
      /\ current' \in [due : Int, id : 0 .. gid]
  BY <1>1, <1>2 DEF TimerTypeOK
<1>4. ASSUME NEW y \in timers'
      PROVE  \E x \in timers : /\ y = [x EXCEPT !.due = @ - 1] /\ y.due = x.due - 1 /\ y.id = x.id
                               /\ x.due \in Int /\ y \in [due : Int, id : 1 .. gid]
  <2>1. PICK x \in timers : y = [x EXCEPT !.due = @ - 1]
    BY <1>2
  <2>2. x \in [due : Int, id : 1 .. gid]
    BY <1>1 DEF TimerTypeOK
  <2> QED
    BY <2>1, <2>2
(* How far behind a timer can be, when time passes.                         *)
<1>5. ASSUME NEW x \in timers
      PROVE  /\ x.due > LongAgo + 1
             /\ x.due > -MaxLate \/ (phase = "asleep" /\ timeout > 0)
             /\ x.due < MaxLate /\ MaxLate > 0
  <2>1. x.due \in Int /\ x.due < MaxLate /\ MaxLate > 0
    BY <1>1 DEF TimerInv, TimerTypeOK
  <2>2. CASE phase = "asleep" /\ timeout > 0
    BY <1>1, <2>1, <2>2 DEF TimerInv, LateBy
  <2>3. CASE x.due > -MaxLate
    BY <1>1, <2>1, <2>3
  <2> QED
    BY <2>1, <2>2, <2>3 DEF Tick
<1>6. TimerTypeOK'
  <2>1. timers' \subseteq [due : Int, id : 1 .. gid']
    BY <1>2, <1>4
  <2>2. ASSUME NEW y \in timers', NEW z \in timers', y.id = z.id PROVE y = z
    <3>1. PICK u \in timers : y = [u EXCEPT !.due = @ - 1] /\ y.id = u.id
      BY <1>4
    <3>2. PICK v \in timers : z = [v EXCEPT !.due = @ - 1] /\ z.id = v.id
      BY <1>4
    <3>3. u = v
      BY <1>1, <2>2, <3>1, <3>2 DEF TimerTypeOK
    <3> QED
      BY <3>1, <3>2, <3>3
  <2>3. timeout' \in Nat \cup {-1}
    BY <1>1, <1>2 DEF TimerTypeOK
  <2> QED
    BY <1>1, <1>2, <1>3, <2>1, <2>2, <2>3 DEF TimerTypeOK
<1>7. InOrder'
  <2> SUFFICES ASSUME NEW y \in timers'
               PROVE  Before(current', y) \/ (phase = "callback" /\ y = current')
    BY <1>2 DEF InOrder, Before
  <2>1. PICK x \in timers : /\ y = [x EXCEPT !.due = @ - 1] /\ y.due = x.due - 1 /\ y.id = x.id
                            /\ x.due \in Int
    BY <1>4
  <2>2. CASE Before(current, x)
    BY <1>1, <1>3, <1>5, <2>1, <2>2 DEF Before
  <2>3. CASE phase = "callback" /\ x = current
    <3>1. current.due > LongAgo
      BY <1>1, <1>5, <2>1, <2>3
    <3>2. y = current'
      BY <1>2, <2>1, <2>3, <3>1
    <3> QED
      BY <2>3, <3>2
  <2> QED
    BY <2>2, <2>3 DEF TimerInv, InOrder
<1>8. current'.due <= 0 /\ timeout' < MaxLate
  BY <1>1, <1>2, <1>3 DEF TimerInv
<1>9. (\A y \in timers' : y.due < MaxLate) /\ (timers' # {} => MaxLate > 0)
  <2>1. ASSUME NEW y \in timers' PROVE y.due < MaxLate /\ MaxLate > 0
    BY <1>1, <1>4, <1>5
  <2> QED
    BY <2>1
<1>10. LateBy(LongAgo)'
  <2>1. ASSUME NEW y \in timers' PROVE y.due >= LongAgo
    BY <1>1, <1>4, <1>5
  <2> QED
    BY <2>1 DEF LateBy, LongAgo
<1>11. ASSUME phase' \in {"setup", "loop", "epoll_wait"} PROVE LateBy(-MaxLate)'
  <2>1. ASSUME NEW y \in timers' PROVE y.due >= -MaxLate
    <3>1. PICK x \in timers : y.due = x.due - 1 /\ x.due \in Int /\ x.due > -MaxLate
      BY <1>2, <1>4, <1>5, <1>11
    <3> QED
      BY <1>1, <3>1
  <2> QED
    BY <2>1 DEF LateBy
<1>12. ASSUME phase' = "asleep" PROVE LateBy(timeout - 2 * MaxLate + 1)'
  <2>1. ASSUME NEW y \in timers' PROVE y.due >= timeout' - 2 * MaxLate + 1
    <3>1. PICK x \in timers : y.due = x.due - 1 /\ x.due \in Int
      BY <1>4
    <3>2. x.due >= timeout - 2 * MaxLate + 1
      BY <1>2, <1>12 DEF TimerInv, LateBy
    <3>3. CASE timeout > 0
      BY <1>1, <1>2, <1>12, <3>1, <3>2, <3>3
    <3>4. CASE ~(timeout > 0)
      BY <1>1, <1>2, <1>5, <3>1, <3>4
    <3> QED
      BY <3>3, <3>4
  <2> QED
    BY <2>1 DEF LateBy
<1> QED
  BY <1>6, <1>7, <1>8, <1>9, <1>10, <1>11, <1>12 DEF TimerInv

(* The loop falls asleep for no longer than the delays, and goes on when    *)
(* nothing has expired.                                                     *)
LEMMA LoopKeeps ==
  ASSUME TimerInv, Start \/ Compute \/ FallAsleep \/ Wake \/ Interrupt
  PROVE  TimerInv'
<1> USE DEF Start, Compute, FallAsleep, Wake, Interrupt, Goto
<1>1. /\ TimerTypeOK /\ MaxLate \in Nat /\ timeout \in Int /\ timeout >= -1 /\ timeout < MaxLate
  BY TimerAssumption DEF TimerInv, TimerTypeOK
<1>2. UNCHANGED <<timers, gid, current>>
  OBVIOUS
<1>3. timeout' \in Nat \cup {-1} /\ timeout' < MaxLate
  <2>1. CASE Compute /\ timers # {}
    <3>1. First \in timers
      BY <1>1, <2>1, FirstIsFirst DEF TimerInv
    <3>2. First.due \in Int /\ First.due < MaxLate /\ MaxLate > 0
      BY <1>1, <3>1 DEF TimerInv, TimerTypeOK
    <3>3. timeout' = (IF First.due > 0 THEN First.due ELSE 0)
      BY <2>1 DEF TimeToSleep
    <3> QED
      BY <1>1, <3>2, <3>3
  <2>2. CASE Compute /\ timers = {}
    BY <1>1, <2>2 DEF TimeToSleep
  <2>3. CASE timeout' = timeout
    BY <1>1, <2>3 DEF TimerTypeOK
  <2> QED
    BY <2>1, <2>2, <2>3
<1>4. TimerTypeOK'
  BY <1>1, <1>2, <1>3 DEF TimerTypeOK
<1>5. InOrder'
  BY <1>2 DEF TimerInv, InOrder, Before
<1>6. LateBy(LongAgo)' /\ (phase' \in {"setup", "loop", "epoll_wait"} => LateBy(-MaxLate)')
  BY <1>2 DEF TimerInv, LateBy, LongAgo
<1>7. ASSUME phase' = "asleep" PROVE LateBy(timeout - 2 * MaxLate + 1)'
  <2>1. \A x \in timers : x.due \in Int /\ x.due >= -MaxLate
    BY <1>1, <1>7 DEF TimerInv, TimerTypeOK, LateBy
  <2>2. timeout' = timeout
    BY <1>7
  <2> QED
    BY <1>1, <1>2, <2>1, <2>2 DEF LateBy
<1> QED
  BY <1>2, <1>3, <1>4, <1>5, <1>6, <1>7 DEF TimerInv

(* The callback of the first timer runs: all others come after it.          *)
LEMMA CheckTimerKeeps == ASSUME TimerInv, CheckTimer PROVE TimerInv'
<1>1. TimerTypeOK /\ MaxLate \in Nat /\ UNCHANGED <<timers, gid, timeout>> /\ phase = "check"
  BY TimerAssumption DEF TimerInv, CheckTimer
<1>2. LateBy(LongAgo)'
  BY <1>1 DEF TimerInv, LateBy, LongAgo
<1>3. CASE Expired
  <2>1. timers # {} /\ First.due <= 0 /\ current' = First /\ phase' = "callback"
    BY <1>3 DEF CheckTimer, Expired, Goto
  <2>2. First \in timers /\ \A y \in timers : y # First => Before(First, y)
    BY <1>1, <2>1, FirstIsFirst DEF TimerInv
  <2>3. TimerTypeOK'
    BY <1>1, <2>1, <2>2 DEF TimerTypeOK
  <2>4. InOrder'
    BY <1>1, <2>1, <2>2 DEF InOrder, Before
  <2> QED
    BY <1>1, <1>2, <2>1, <2>3, <2>4 DEF TimerInv
<1>4. CASE ~Expired
  <2>1. current' = current /\ phase' = "loop"
    BY <1>4 DEF CheckTimer, Goto
  <2>2. ASSUME NEW x \in timers PROVE x.due >= -MaxLate
    <3>1. First \in timers /\ First.due <= x.due
      BY <1>1, FirstIsFirst DEF TimerInv
    <3>2. First.due \in Int /\ x.due \in Int
      BY <1>1, <3>1 DEF TimerTypeOK
    <3> QED
      BY <1>1, <1>4, <3>1, <3>2 DEF Expired
  <2>3. TimerTypeOK'
    BY <1>1, <2>1 DEF TimerTypeOK
  <2>4. InOrder'
    BY <1>1, <2>1 DEF TimerInv, InOrder, Before
  <2>5. LateBy(-MaxLate)'
    BY <1>1, <2>2 DEF LateBy
  <2> QED
    BY <1>1, <1>2, <2>1, <2>3, <2>4, <2>5 DEF TimerInv
<1> QED
  BY <1>3, <1>4

LEMMA TimerInvNext == TimerInv /\ [TimerNext]_timerVars => TimerInv'
<1> SUFFICES ASSUME TimerInv, [TimerNext]_timerVars PROVE TimerInv'
  OBVIOUS
<1>1. ASSUME NEW x \in timers, DelTimer(x) PROVE TimerInv'
  BY <1>1, FewerTimersKeep DEF DelTimer
<1>2. CASE Erase
  <2>1. current \notin timers' /\ timers' \subseteq timers /\ phase' \in {"check", "undefined"}
    BY <1>2 DEF Erase, Goto
  <2> QED
    BY <1>2, <2>1, FewerTimersKeep DEF Erase
<1>3. CASE UNCHANGED timerVars
  BY <1>3, FewerTimersKeep DEF timerVars
<1> QED
  BY <1>1, <1>2, <1>3, AddTimerKeeps, TickKeeps, LoopKeeps, CheckTimerKeeps
     DEF TimerNext, LoopStep

(* What TimerInv says of the timers, and how late the loop can be, holds in *)
(* every reachable state.                                                   *)
THEOREM TimerInvariance == TimerSpec => []TimerInv
  BY TimerInvInit, TimerInvNext, PTL DEF TimerSpec

(* Callbacks run in the order of expiry, and each timer once, although they *)
(* may add timers that have expired already and delete others.              *)
THEOREM FiringOrder == TimerSpec => []FiresInOrder
<1>1. TimerInv => FiresInOrder
  BY DEF TimerInv, FiresInOrder
<1> QED
  BY <1>1, TimerInvariance, PTL

-----------------------------------------------------------------------------
(* SharedPtr: who owns a block                                              *)

LEMMA OwnersFinite == ASSUME NEW b PROVE IsFiniteSet(OwnersOf(b))
  BY HandlesAssumption, FS_Subset DEF OwnersOf

(* A handle that no thread is changing owns what it points to.              *)
LEMMA OwnsIts ==
  ASSUME PtrTypeOK, NEW h \in Handles, \A u \in Busy : job[u].dst # h, NEW b
  PROVE  h \in OwnersOf(b) <=> ref[h] = b
  BY DEF OwnersOf

(* The source of an assignment owns what it points to, to the end.          *)
LEMMA SourceOwns ==
  ASSUME PtrInv, NEW t \in Busy, job[t].do # "delete"
  PROVE  /\ job[t].src \in Handles
         /\ \A u \in Busy : job[u].dst # job[t].src
         /\ \A b : job[t].src \in OwnersOf(b) <=> ref[job[t].src] = b
<1>1. job[t].src \in Handles
  BY DEF PtrInv, CountsExact, PtrTypeOK, Busy
<1>2. \A u \in Busy : job[u].dst # job[t].src
  BY DEF PtrInv, Private
<1> QED
  BY <1>1, <1>2 DEF OwnersOf

(* A step keeps what holds of b, and gives nobody a block without owners.   *)
Survives(b) == Counted(b)' /\ (OwnersOf(b) = {} => OwnersOf(b)' = {})

(* A block that a step does not concern.                                    *)
LEMMA UnconcernedKeeps ==
  ASSUME NEW b, Counted(b), OwnersOf(b)' = OwnersOf(b),
         state'[b] = state[b], count'[b] = count[b],
         \A t \in Threads : Deletes(t, b)' <=> Deletes(t, b)
  PROVE  Survives(b)
  BY DEF Counted, Survives

(* A block in use with one owner more, or with another one.                 *)
LEMMA OwnerGained ==
  ASSUME NEW b, Counted(b), NEW h, NEW g, g \in OwnersOf(b), h \notin OwnersOf(b),
         OwnersOf(b)' = OwnersOf(b) \cup {h}, state'[b] = state[b],
         count'[b] = count[b] + 1, \A t \in Threads : Deletes(t, b)' => Deletes(t, b)
  PROVE  Survives(b)
<1>1. Cardinality(OwnersOf(b) \cup {h}) = Cardinality(OwnersOf(b)) + 1
  BY OwnersFinite, FS_AddElement
<1>2. state[b] = "live" /\ \A t \in Threads : ~Deletes(t, b)
  BY DEF Counted
<1> QED
  BY <1>1, <1>2 DEF Counted, Survives

LEMMA OwnerExchanged ==
  ASSUME NEW b, Counted(b), NEW h, NEW g, g \in OwnersOf(b), h \notin OwnersOf(b),
         OwnersOf(b)' = (OwnersOf(b) \ {g}) \cup {h}, state'[b] = state[b],
         count'[b] = count[b], \A t \in Threads : Deletes(t, b)' => Deletes(t, b)
  PROVE  Survives(b)
<1> DEFINE rest == OwnersOf(b) \ {g}
<1>1. IsFiniteSet(rest) /\ Cardinality(OwnersOf(b)) = Cardinality(rest) + 1
  <2>1. IsFiniteSet(OwnersOf(b))
    BY OwnersFinite
  <2>2. Cardinality(OwnersOf(b)) \in Nat
    BY <2>1, FS_CardinalityType
  <2>3. IsFiniteSet(rest) /\ Cardinality(rest) = Cardinality(OwnersOf(b)) - 1
    BY <2>1, FS_RemoveElement
  <2> QED
    BY <2>2, <2>3
<1>2. Cardinality(rest \cup {h}) = Cardinality(rest) + 1
  BY <1>1, FS_AddElement
<1>3. state[b] = "live" /\ \A t \in Threads : ~Deletes(t, b)
  BY DEF Counted
<1> QED
  BY <1>1, <1>2, <1>3 DEF Counted, Survives

(* A block that loses an owner, who counts it down; the last one, for whom  *)
(* the count is 1, deletes it.                                              *)
LEMMA OwnerLost ==
  ASSUME NEW b, Counted(b), NEW g, g \in OwnersOf(b), NEW t \in Threads,
         OwnersOf(b)' = OwnersOf(b) \ {g}, state'[b] = state[b], count'[b] = count[b] - 1,
         \A u \in Threads : Deletes(u, b)' => (u = t \/ Deletes(u, b)),
         Deletes(t, b)' <=> count[b] = 1
  PROVE  Survives(b)
<1>1. state[b] = "live" /\ \A u \in Threads : ~Deletes(u, b)
  BY DEF Counted
<1>2. /\ IsFiniteSet(OwnersOf(b) \ {g}) /\ Cardinality(OwnersOf(b) \ {g}) \in Nat
      /\ Cardinality(OwnersOf(b) \ {g}) = Cardinality(OwnersOf(b)) - 1
      /\ Cardinality(OwnersOf(b)) \in Nat
  <2>1. IsFiniteSet(OwnersOf(b))
    BY OwnersFinite
  <2> QED
    BY <2>1, FS_RemoveElement, FS_CardinalityType
<1>3. count[b] = Cardinality(OwnersOf(b))
  BY <1>1 DEF Counted
<1>4. count[b] = 1 <=> OwnersOf(b) \ {g} = {}
  BY <1>2, <1>3, FS_EmptySet
<1> QED
  BY <1>1, <1>2, <1>3, <1>4 DEF Counted, Survives

-----------------------------------------------------------------------------
(* SharedPtr: the steps of a handle that no call is changing                *)

LEMMA PtrInvMeans ==
  ASSUME PtrInv
  PROVE  /\ PtrTypeOK /\ Private /\ UsedBlocks
         /\ Null \notin Blocks /\ Raw \notin Blocks /\ Null # Raw
         /\ withObject \subseteq Blocks
         /\ \A b \in withObject : Counted(b)
         /\ \A h \in Handles : ref[h] \in Blocks \cup {Null, Raw}
         /\ \A u \in Busy : job[u].dst \in Handles /\ job[u].src \in Handles
  BY BlocksAssumption DEF PtrInv, CountsExact, PtrTypeOK, Busy

(* No call begins or ends.                                                  *)
LEMMA CallsStay ==
  ASSUME PtrInv, job' = job, \A u \in Busy : ref'[job[u].dst] = ref[job[u].dst]
  PROVE  /\ Busy' = Busy /\ Private'
         /\ \A t \in Threads, b \in Blocks : Deletes(t, b)' <=> Deletes(t, b)
<1>1. Busy' = Busy
  BY DEF Busy
<1>2. Private'
  BY <1>1 DEF PtrInv, Private
<1>3. \A t \in Threads : job[t].do \in {"delete", "assignDelete"} => t \in Busy
  BY DEF Busy, Idle
<1> QED
  BY <1>1, <1>2, <1>3 DEF Deletes

LEMMA ConstructKeeps ==
  ASSUME PtrInv, NEW t \in Threads, NEW h \in Handles, NEW b \in Blocks, NEW n \in {0, 1},
         Construct(t, h, b, n)
  PROVE  /\ PtrInv' /\ \A a \in withObject : Survives(a)
         /\ b \notin withObject /\ OwnersOf(b)' = {h}
<1> USE PtrInvMeans
<1>1. /\ ref[h] = Raw /\ state[b] = "unused" /\ \A u \in Busy : job[u].dst # h
      /\ ref' = [ref EXCEPT ![h] = b] /\ count' = [count EXCEPT ![b] = n]
      /\ state' = [state EXCEPT ![b] = "live"] /\ UNCHANGED <<job, undefined>>
      /\ withObject' = (IF n = 1 THEN withObject \cup {b} ELSE withObject)
  BY DEF Construct, MayChange
<1>2. PtrTypeOK'
  BY <1>1 DEF PtrTypeOK
<1>3. \A x \in Handles : ref'[x] = (IF x = h THEN b ELSE ref[x])
  BY <1>1 DEF PtrTypeOK
<1>4. /\ Busy' = Busy /\ Private'
      /\ \A u \in Threads, a \in Blocks : Deletes(u, a)' <=> Deletes(u, a)
  BY <1>1, <1>3, CallsStay
<1>5. b \notin withObject /\ \A x \in Handles : ref[x] # b
  BY <1>1 DEF UsedBlocks
<1>6. ASSUME NEW a \in withObject PROVE Survives(a)
  <2>1. a # b /\ a # Raw /\ a \in Blocks
    BY <1>5
  <2>2. OwnersOf(a)' = OwnersOf(a)
    BY <1>1, <1>3, <1>4, <2>1 DEF OwnersOf
  <2>3. state'[a] = state[a] /\ count'[a] = count[a]
    BY <1>1, <2>1 DEF PtrTypeOK
  <2> QED
    BY <1>4, <2>1, <2>2, <2>3, UnconcernedKeeps
<1>7. OwnersOf(b)' = {h}
  BY <1>1, <1>3, <1>4, <1>5 DEF OwnersOf
<1>8. n = 1 => Counted(b)'
  <2>1. Cardinality({h}) = 1
    BY FS_Singleton
  <2>2. \A u \in Threads : ~Deletes(u, b)
    <3>1. \A u \in Threads : job[u].do \in {"delete", "assignDelete"} => u \in Busy
      BY DEF Busy, Idle
    <3> QED
      BY <1>5, <3>1 DEF Deletes
  <2>3. n = 1 => state'[b] = "live" /\ count'[b] = 1
    BY <1>1 DEF PtrTypeOK
  <2> QED
    BY <1>4, <1>7, <2>1, <2>2, <2>3 DEF Counted
<1>9. UsedBlocks'
  <2>1. \A a \in Blocks : state'[a] = (IF a = b THEN "live" ELSE state[a])
    BY <1>1 DEF PtrTypeOK
  <2> QED
    BY <1>1, <1>3, <2>1 DEF UsedBlocks
<1>10. \A a \in withObject' : Counted(a)'
  BY <1>1, <1>6, <1>8 DEF Survives
<1> QED
  BY <1>2, <1>4, <1>5, <1>6, <1>7, <1>9, <1>10 DEF PtrInv, CountsExact

(* Handles change what they point to; no block comes into use or out of it. *)
LEMMA HandlesChange ==
  ASSUME PtrInv, PtrTypeOK', Private', UNCHANGED <<state, withObject>>,
         \A h \in Handles : ref'[h] \in Blocks => \E g \in Handles : ref'[h] = ref[g],
         \A a \in withObject : Survives(a)
  PROVE  PtrInv'
<1>1. UsedBlocks'
  BY PtrInvMeans DEF UsedBlocks
<1> QED
  BY <1>1 DEF PtrInv, CountsExact, Survives

LEMMA MoveKeeps ==
  ASSUME PtrInv, NEW t \in Threads, NEW h \in Handles, NEW g \in Handles \ {h}, Move(t, h, g)
  PROVE  PtrInv' /\ \A a \in withObject : Survives(a)
<1> USE PtrInvMeans
<1>1. /\ ref[h] = Raw /\ ref[g] # Raw /\ \A u \in Busy : job[u].dst # h /\ job[u].dst # g
      /\ ref' = [ref EXCEPT ![h] = ref[g], ![g] = Null]
      /\ UNCHANGED <<count, state, withObject, job, undefined>>
  BY DEF Move, MayChange
<1>2. PtrTypeOK'
  BY <1>1 DEF PtrTypeOK
<1>3. \A x \in Handles : ref'[x] = (IF x = h THEN ref[g] ELSE IF x = g THEN Null ELSE ref[x])
  BY <1>1 DEF PtrTypeOK
<1>4. /\ Busy' = Busy /\ Private'
      /\ \A u \in Threads, a \in Blocks : Deletes(u, a)' <=> Deletes(u, a)
  BY <1>1, <1>3, CallsStay
<1>5. ASSUME NEW a \in withObject PROVE Survives(a)
  <2>1. a \in Blocks /\ a # Raw /\ a # Null /\ h \notin OwnersOf(a) /\ h # g
    BY <1>1 DEF OwnersOf
  <2>2. CASE ref[g] = a
    <3>1. OwnersOf(a)' = (OwnersOf(a) \ {g}) \cup {h}
      BY <1>1, <1>3, <1>4, <2>1, <2>2 DEF OwnersOf
    <3>2. g \in OwnersOf(a)
      BY <1>1, <2>2 DEF OwnersOf
    <3> QED
      BY <1>1, <1>4, <2>1, <3>1, <3>2, OwnerExchanged
  <2>3. CASE ref[g] # a
    <3>1. OwnersOf(a)' = OwnersOf(a)
      BY <1>1, <1>3, <1>4, <2>1, <2>3 DEF OwnersOf
    <3> QED
      BY <1>1, <1>4, <2>1, <3>1, UnconcernedKeeps
  <2> QED
    BY <2>2, <2>3
<1> QED
  BY <1>1, <1>2, <1>3, <1>4, <1>5, HandlesChange

LEMMA CopyKeeps ==
  ASSUME PtrInv, NEW t \in Threads, NEW h \in Handles, NEW g \in Handles \ {h}, Copy(t, h, g)
  PROVE  PtrInv' /\ \A a \in withObject : Survives(a)
<1> USE PtrInvMeans
<1>1. /\ ref[h] = Raw /\ ref[g] \in Blocks /\ \A u \in Busy : job[u].dst # h /\ job[u].dst # g
      /\ ref' = [ref EXCEPT ![h] = ref[g]] /\ count' = [count EXCEPT ![ref[g]] = @ + 1]
      /\ UNCHANGED <<state, withObject, job, undefined>>
  BY DEF Copy, MayChange, MayRead, Usable
<1>2. PtrTypeOK'
  BY <1>1 DEF PtrTypeOK
<1>3. /\ \A x \in Handles : ref'[x] = (IF x = h THEN ref[g] ELSE ref[x])
      /\ \A a \in Blocks : count'[a] = (IF a = ref[g] THEN count[a] + 1 ELSE count[a])
  BY <1>1 DEF PtrTypeOK
<1>4. /\ Busy' = Busy /\ Private'
      /\ \A u \in Threads, a \in Blocks : Deletes(u, a)' <=> Deletes(u, a)
  BY <1>1, <1>3, CallsStay
<1>5. ASSUME NEW a \in withObject PROVE Survives(a)
  <2>1. a \in Blocks /\ a # Raw /\ h \notin OwnersOf(a) /\ h # g
    BY <1>1 DEF OwnersOf
  <2>2. CASE ref[g] = a
    <3>1. OwnersOf(a)' = OwnersOf(a) \cup {h}
      BY <1>1, <1>3, <1>4, <2>1, <2>2 DEF OwnersOf
    <3>2. g \in OwnersOf(a)
      BY <1>1, <2>2 DEF OwnersOf
    <3> QED
      BY <1>1, <1>3, <1>4, <2>1, <2>2, <3>1, <3>2, OwnerGained
  <2>3. CASE ref[g] # a
    <3>1. OwnersOf(a)' = OwnersOf(a)
      BY <1>1, <1>3, <1>4, <2>1, <2>3 DEF OwnersOf
    <3> QED
      BY <1>1, <1>3, <1>4, <2>1, <2>3, <3>1, UnconcernedKeeps
  <2> QED
    BY <2>2, <2>3
<1> QED
  BY <1>1, <1>2, <1>3, <1>4, <1>5, HandlesChange

LEMMA SwapKeeps ==
  ASSUME PtrInv, NEW t \in Threads, NEW h \in Handles, NEW g \in Handles \ {h}, Swap(t, h, g)
  PROVE  PtrInv' /\ \A a \in withObject : Survives(a)
<1> USE PtrInvMeans
<1>1. /\ \A u \in Busy : job[u].dst # h /\ job[u].dst # g
      /\ ref' = [ref EXCEPT ![h] = ref[g], ![g] = ref[h]]
      /\ UNCHANGED <<count, state, withObject, job, undefined>>
  BY DEF Swap, MayChange
<1>2. PtrTypeOK'
  BY <1>1 DEF PtrTypeOK
<1>3. \A x \in Handles : ref'[x] = (IF x = h THEN ref[g] ELSE IF x = g THEN ref[h] ELSE ref[x])
  BY <1>1 DEF PtrTypeOK
<1>4. /\ Busy' = Busy /\ Private'
      /\ \A u \in Threads, a \in Blocks : Deletes(u, a)' <=> Deletes(u, a)
  BY <1>1, <1>3, CallsStay
<1>5. ASSUME NEW a \in withObject PROVE Survives(a)
  <2>1. /\ a \in Blocks /\ h # g
        /\ h \in OwnersOf(a) <=> ref[h] = a
        /\ g \in OwnersOf(a) <=> ref[g] = a
    BY <1>1 DEF OwnersOf
  <2>2. CASE ref[h] = a /\ ref[g] # a
    <3>1. OwnersOf(a)' = (OwnersOf(a) \ {h}) \cup {g}
      BY <1>1, <1>3, <1>4, <2>1, <2>2 DEF OwnersOf
    <3> QED
      BY <1>1, <1>4, <2>1, <2>2, <3>1, OwnerExchanged
  <2>3. CASE ref[g] = a /\ ref[h] # a
    <3>1. OwnersOf(a)' = (OwnersOf(a) \ {g}) \cup {h}
      BY <1>1, <1>3, <1>4, <2>1, <2>3 DEF OwnersOf
    <3> QED
      BY <1>1, <1>4, <2>1, <2>3, <3>1, OwnerExchanged
  <2>4. CASE ref[g] = a <=> ref[h] = a
    <3>1. \A x \in Handles : ref'[x] = a <=> ref[x] = a
      BY <1>3, <2>1, <2>4
    <3>2. OwnersOf(a)' = OwnersOf(a)
      BY <1>1, <1>4, <3>1 DEF OwnersOf
    <3> QED
      BY <1>1, <1>4, <2>1, <3>2, UnconcernedKeeps
  <2> QED
    BY <2>2, <2>3, <2>4
<1> QED
  BY <1>1, <1>2, <1>3, <1>4, <1>5, HandlesChange

LEMMA DestroyEmptyKeeps ==
  ASSUME PtrInv, NEW t \in Threads, NEW h \in Handles, DestroyEmpty(t, h)
  PROVE  PtrInv' /\ \A a \in withObject : Survives(a)
<1> USE PtrInvMeans
<1>1. /\ \A u \in Busy : job[u].dst # h
      /\ ref[h] \notin withObject /\ ref' = [ref EXCEPT ![h] = Raw]
      /\ UNCHANGED <<count, state, withObject, job, undefined>>
  BY DEF DestroyEmpty, MayChange, Holds
<1>2. PtrTypeOK'
  BY <1>1 DEF PtrTypeOK
<1>3. \A x \in Handles : ref'[x] = (IF x = h THEN Raw ELSE ref[x])
  BY <1>1 DEF PtrTypeOK
<1>4. /\ Busy' = Busy /\ Private'
      /\ \A u \in Threads, a \in Blocks : Deletes(u, a)' <=> Deletes(u, a)
  BY <1>1, <1>3, CallsStay
<1>5. ASSUME NEW a \in withObject PROVE Survives(a)
  <2>1. a \in Blocks /\ a # Raw /\ ref[h] # a
    BY <1>1
  <2>2. OwnersOf(a)' = OwnersOf(a)
    BY <1>1, <1>3, <1>4, <2>1 DEF OwnersOf
  <2> QED
    BY <1>1, <1>4, <2>1, <2>2, UnconcernedKeeps
<1> QED
  BY <1>1, <1>2, <1>3, <1>4, <1>5, HandlesChange

-----------------------------------------------------------------------------
(* SharedPtr: the calls that have several steps                             *)

(* A call that begins: nobody else uses its destination, nor changes its    *)
(* source.                                                                  *)
LEMMA CallBegins ==
  ASSUME PtrInv, NEW t \in Threads, t \notin Busy, NEW what \in {"delete", "assignDelete", "assignTake"},
         NEW h \in Handles, NEW g \in Handles, Begin(t, what, h, g),
         \A u \in Busy : h \notin {job[u].dst, job[u].src} /\ job[u].dst # g,
         what # "delete" => h # g
  PROVE  /\ Busy' = Busy \cup {t} /\ Private'
         /\ \A u \in Threads : u # t => job'[u] = job[u]
         /\ job'[t] = [do |-> what, dst |-> h, src |-> g]
         /\ job' \in [Threads -> {Idle} \cup [do : {"delete", "assignDelete", "assignTake"},
                                              dst : Handles, src : Handles]]
<1>1. job \in [Threads -> {Idle} \cup [do : {"delete", "assignDelete", "assignTake"},
                                       dst : Handles, src : Handles]]
  BY PtrInvMeans DEF PtrTypeOK
<1> DEFINE new == [do |-> what, dst |-> h, src |-> g]
<1>2. /\ new.do = what /\ new.dst = h /\ new.src = g /\ new # Idle
      /\ new \in [do : {"delete", "assignDelete", "assignTake"}, dst : Handles, src : Handles]
  BY DEF Idle
<1>3. job'[t] = new /\ \A u \in Threads : u # t => job'[u] = job[u]
  BY <1>1 DEF Begin
<1>4. job' = [job EXCEPT ![t] = new]
  BY DEF Begin
<1> HIDE DEF new
<1>5. Busy' = Busy \cup {t}
  BY <1>2, <1>3 DEF Busy
<1>6. Private'
  <2>1. ASSUME NEW u \in Busy', NEW v \in Busy', u # v
        PROVE  job'[u].dst \notin {job'[v].dst, job'[v].src}
    <3>1. CASE u = t
      BY <1>2, <1>3, <1>5, <2>1, <3>1 DEF Busy
    <3>2. CASE v = t
      BY <1>2, <1>3, <1>5, <2>1, <3>2 DEF Busy
    <3>3. CASE u # t /\ v # t
      BY <1>3, <1>5, <2>1, <3>3, PtrInvMeans DEF Busy, Private
    <3> QED
      BY <3>1, <3>2, <3>3
  <2>2. ASSUME NEW u \in Busy', job'[u].do # "delete" PROVE job'[u].dst # job'[u].src
    <3>1. CASE u = t
      BY <1>2, <1>3, <2>2, <3>1
    <3>2. CASE u # t
      BY <1>3, <1>5, <2>2, <3>2, PtrInvMeans DEF Busy, Private
    <3> QED
      BY <3>1, <3>2
  <2> QED
    BY <2>1, <2>2 DEF Private
<1> QED
  BY <1>1, <1>2, <1>3, <1>4, <1>5, <1>6 DEF new

LEMMA CallEnds ==
  ASSUME PtrInv, NEW t \in Threads, End(t)
  PROVE  /\ Busy' = Busy \ {t} /\ Private'
         /\ \A u \in Threads : u # t => job'[u] = job[u]
         /\ job'[t] = Idle
         /\ job' \in [Threads -> {Idle} \cup [do : {"delete", "assignDelete", "assignTake"},
                                              dst : Handles, src : Handles]]
<1>1. job \in [Threads -> {Idle} \cup [do : {"delete", "assignDelete", "assignTake"},
                                       dst : Handles, src : Handles]]
  BY PtrInvMeans DEF PtrTypeOK
<1>2. /\ job'[t] = Idle /\ \A u \in Threads : u # t => job'[u] = job[u]
      /\ job' \in [Threads -> {Idle} \cup [do : {"delete", "assignDelete", "assignTake"},
                                           dst : Handles, src : Handles]]
  BY <1>1 DEF End
<1>3. Busy' = Busy \ {t}
  BY <1>2 DEF Busy
<1>4. Private'
  <2>1. \A u \in Busy' : u \in Busy /\ job'[u] = job[u]
    BY <1>2, <1>3 DEF Busy
  <2> QED
    BY <2>1, PtrInvMeans DEF Private
<1> QED
  BY <1>2, <1>3, <1>4

(* The handle h of a call that thread t begins loses its block, and the     *)
(* count of that block goes down; the last owner deletes it.                *)
LetsGo(t, h) ==
  /\ t \notin Busy /\ \A u \in Busy : job[u].dst # h
  /\ ref[h] \in Blocks /\ count' = [count EXCEPT ![ref[h]] = @ - 1] /\ state' = state
  /\ \A u \in Threads : u # t => job'[u] = job[u]
  /\ \A x \in Handles : x # h => ref'[x] = ref[x]
  /\ \A a \in withObject : a = ref[h] => (Deletes(t, a)' <=> count[a] = 1)
  /\ \A a \in Blocks : Deletes(t, a)' => a = ref[h]
  /\ \/ Busy' = Busy \cup {t} /\ job'[t].dst = h
     \/ Busy' = Busy /\ ref'[h] = Raw

LEMMA LettingGo ==
  ASSUME PtrInv, NEW t \in Threads, NEW h \in Handles, LetsGo(t, h)
  PROVE  \A a \in withObject : Survives(a)
<1> USE PtrInvMeans DEF LetsGo
<1> SUFFICES ASSUME NEW a \in withObject PROVE Survives(a)
  OBVIOUS
<1>1. a \in Blocks /\ a # Raw
  OBVIOUS
<1>2. \A u \in Busy : u \in Threads /\ u # t /\ job'[u] = job[u]
  BY DEF Busy
<1>3. \A u \in Threads : u # t => (Deletes(u, a)' <=> Deletes(u, a))
  <2> SUFFICES ASSUME NEW u \in Threads, u # t PROVE Deletes(u, a)' <=> Deletes(u, a)
    OBVIOUS
  <2>1. job[u].do \in {"delete", "assignDelete"} => u \in Busy
    BY DEF Busy, Idle
  <2>2. u \in Busy => ref'[job[u].dst] = ref[job[u].dst]
    OBVIOUS
  <2> QED
    BY <2>1, <2>2 DEF Deletes
<1>4. ~Deletes(t, a)
  BY DEF Deletes, Busy, Idle
<1>5. h \in OwnersOf(a) <=> ref[h] = a
  BY DEF OwnersOf
<1>6. OwnersOf(a)' = OwnersOf(a) \ {h}
  <2>1. ASSUME NEW x \in Handles PROVE x \in OwnersOf(a)' <=> x \in OwnersOf(a) /\ x # h
    <3>1. CASE x = h
      <4>1. CASE Busy' = Busy \cup {t} /\ job'[t].dst = h
        BY <3>1, <4>1 DEF OwnersOf
      <4>2. CASE Busy' = Busy /\ ref'[h] = Raw
        BY <1>1, <3>1, <4>2 DEF OwnersOf
      <4> QED
        BY <4>1, <4>2
    <3>2. CASE x # h
      <4>1. CASE Busy' = Busy \cup {t} /\ job'[t].dst = h
        BY <1>2, <3>2, <4>1 DEF OwnersOf
      <4>2. CASE Busy' = Busy /\ ref'[h] = Raw
        BY <1>2, <3>2, <4>2 DEF OwnersOf
      <4> QED
        BY <4>1, <4>2
    <3> QED
      BY <3>1, <3>2
  <2>2. OwnersOf(a) \subseteq Handles /\ OwnersOf(a)' \subseteq Handles
    BY DEF OwnersOf
  <2> QED
    BY <2>1, <2>2
<1>7. CASE ref[h] = a
  <2>1. count'[a] = count[a] - 1
    BY <1>1, <1>7 DEF PtrTypeOK
  <2>2. \A u \in Threads : Deletes(u, a)' => u = t \/ Deletes(u, a)
    BY <1>3
  <2>3. Deletes(t, a)' <=> count[a] = 1
    BY <1>7
  <2> QED
    BY <1>5, <1>6, <1>7, <2>1, <2>2, <2>3, OwnerLost
<1>8. CASE ref[h] # a
  <2>1. count'[a] = count[a]
    BY <1>1, <1>8 DEF PtrTypeOK
  <2>2. \A u \in Threads : Deletes(u, a)' <=> Deletes(u, a)
    BY <1>1, <1>3, <1>4, <1>8
  <2>3. OwnersOf(a)' = OwnersOf(a)
    BY <1>5, <1>6, <1>8
  <2> QED
    BY <2>1, <2>2, <2>3, UnconcernedKeeps
<1> QED
  BY <1>7, <1>8

LEMMA DestroyKeeps ==
  ASSUME PtrInv, NEW t \in Threads, NEW h \in Handles, Destroy(t, h)
  PROVE  PtrInv' /\ \A a \in withObject : Survives(a)
<1> USE PtrInvMeans
<1>1. /\ t \notin Busy /\ \A u \in Busy : job[u].dst # h /\ job[u].src # h
      /\ ref[h] \in withObject /\ ref[h] \in Blocks
      /\ count' = [count EXCEPT ![ref[h]] = @ - 1]
      /\ UNCHANGED <<state, withObject, undefined>>
  BY DEF Destroy, MayChange, Holds
<1>2. CASE count[ref[h]] = 1
  <2>1. Begin(t, "delete", h, h) /\ ref' = ref
    BY <1>2 DEF Destroy
  <2>2. /\ Busy' = Busy \cup {t} /\ Private' /\ \A u \in Threads : u # t => job'[u] = job[u]
        /\ job'[t] = [do |-> "delete", dst |-> h, src |-> h]
        /\ job' \in [Threads -> {Idle} \cup [do : {"delete", "assignDelete", "assignTake"},
                                             dst : Handles, src : Handles]]
    BY <1>1, <2>1, CallBegins
  <2>3. PtrTypeOK'
    BY <1>1, <2>1, <2>2 DEF PtrTypeOK
  <2>4. \A a : Deletes(t, a)' <=> a = ref[h]
    BY <2>1, <2>2 DEF Deletes
  <2>5. \A a \in withObject : Survives(a)
    <3>1. \A a \in withObject : a = ref[h] => (Deletes(t, a)' <=> count[a] = 1)
      BY <1>2, <2>4
    <3>2. \A a \in Blocks : Deletes(t, a)' => a = ref[h]
      BY <2>4
    <3>3. (\A x \in Handles : x # h => ref'[x] = ref[x]) /\ job'[t].dst = h
      BY <2>1, <2>2
    <3>4. LetsGo(t, h)
      BY <1>1, <2>2, <3>1, <3>2, <3>3 DEF LetsGo
    <3> QED
      BY <3>4, LettingGo
  <2> QED
    BY <1>1, <2>1, <2>2, <2>3, <2>5, HandlesChange
<1>3. CASE count[ref[h]] # 1
  <2>1. ref' = [ref EXCEPT ![h] = Raw] /\ job' = job
    BY <1>3 DEF Destroy
  <2>2. \A x \in Handles : ref'[x] = (IF x = h THEN Raw ELSE ref[x])
    BY <2>1 DEF PtrTypeOK
  <2>3. Busy' = Busy /\ Private'
    BY <1>1, <2>1, <2>2, CallsStay
  <2>4. PtrTypeOK'
    BY <1>1, <2>1 DEF PtrTypeOK
  <2>5. \A a : ~Deletes(t, a)'
    BY <1>1, <2>1 DEF Deletes, Busy, Idle
  <2>6. \A a \in withObject : Survives(a)
    <3>1. \A a \in withObject : a = ref[h] => (Deletes(t, a)' <=> count[a] = 1)
      BY <1>3, <2>5
    <3>2. \A a \in Blocks : Deletes(t, a)' => a = ref[h]
      BY <2>5
    <3>3. /\ \A x \in Handles : x # h => ref'[x] = ref[x]
          /\ ref'[h] = Raw /\ \A u \in Threads : job'[u] = job[u]
      BY <2>1, <2>2
    <3>4. LetsGo(t, h)
      BY <1>1, <2>3, <3>1, <3>2, <3>3 DEF LetsGo
    <3> QED
      BY <3>4, LettingGo
  <2> QED
    BY <1>1, <2>2, <2>3, <2>4, <2>6, HandlesChange
<1> QED
  BY <1>2, <1>3

(* When the destination holds no object, its block is not one that counts.  *)
LEMMA AssignKeeps ==
  ASSUME PtrInv, NEW t \in Threads, NEW h \in Handles, NEW g \in Handles \ {h}, Assign(t, h, g)
  PROVE  PtrInv' /\ \A a \in withObject : Survives(a)
<1> USE PtrInvMeans
<1>1. /\ t \notin Busy /\ \A u \in Busy : h \notin {job[u].dst, job[u].src} /\ job[u].dst # g
      /\ ref[h] \in Blocks /\ h # g
      /\ count' = [count EXCEPT ![ref[h]] = @ - 1]
      /\ UNCHANGED <<ref, state, withObject, undefined>>
  BY DEF Assign, MayChange, MayRead, Usable
<1>2. PICK what \in {"assignDelete", "assignTake"} :
        /\ Begin(t, what, h, g)
        /\ what = "assignDelete" <=> count[ref[h]] = 1
  BY DEF Assign
<1>3. /\ Busy' = Busy \cup {t} /\ Private' /\ \A u \in Threads : u # t => job'[u] = job[u]
      /\ job'[t] = [do |-> what, dst |-> h, src |-> g]
      /\ job' \in [Threads -> {Idle} \cup [do : {"delete", "assignDelete", "assignTake"},
                                           dst : Handles, src : Handles]]
  BY <1>1, <1>2, CallBegins
<1>4. PtrTypeOK'
  BY <1>1, <1>3 DEF PtrTypeOK
<1>5. \A a : Deletes(t, a)' <=> (a = ref[h] /\ count[ref[h]] = 1)
  BY <1>1, <1>2, <1>3 DEF Deletes
<1>6. \A a \in withObject : Survives(a)
  <2>1. \A a \in withObject : a = ref[h] => (Deletes(t, a)' <=> count[a] = 1)
    BY <1>5
  <2>2. \A a \in Blocks : Deletes(t, a)' => a = ref[h]
    BY <1>5
  <2>3. (\A x \in Handles : x # h => ref'[x] = ref[x]) /\ job'[t].dst = h
    BY <1>1, <1>3
  <2>4. LetsGo(t, h)
    BY <1>1, <1>3, <2>1, <2>2, <2>3 DEF LetsGo
  <2> QED
    BY <2>4, LettingGo
<1> QED
  BY <1>1, <1>3, <1>4, <1>6, HandlesChange

(* A block that is deleted has no owner, and only one thread deletes it.    *)
LEMMA DeleteKeeps ==
  ASSUME PtrInv, NEW t \in Threads, Delete(t)
  PROVE  PtrInv' /\ \A a \in withObject : Survives(a) /\ OwnersOf(a)' = OwnersOf(a)
<1> USE PtrInvMeans
<1>1. PICK h \in Handles, b \in Blocks \cup {Null, Raw} :
             /\ h = job[t].dst /\ b = ref[h]
             /\ t \in Busy /\ job[t].do \in {"delete", "assignDelete"}
  <2>1. t \in Busy /\ job[t].do \in {"delete", "assignDelete"}
    BY DEF Delete, Busy, Idle
  <2> QED
    BY <2>1 DEF PtrTypeOK
<1>2. /\ state' = [state EXCEPT ![b] = "freed"] /\ UNCHANGED <<count, withObject>>
      /\ undefined' = (state[b] # "live")
      /\ \/ /\ job[t].do = "delete" /\ End(t)
            /\ ref' = [ref EXCEPT ![h] = Raw]
         \/ /\ job[t].do = "assignDelete" /\ Begin(t, "assignTake", h, job[t].src)
            /\ ref' = ref
  BY <1>1 DEF Delete
<1>3. \A x \in Handles : x # h => ref'[x] = ref[x]
  BY <1>2 DEF PtrTypeOK
(* Whether or not the thread goes on, the handle stays out of the count.    *)
<1>4. /\ job' \in [Threads -> {Idle} \cup [do : {"delete", "assignDelete", "assignTake"},
                                           dst : Handles, src : Handles]]
      /\ Private' /\ \A u \in Threads : u # t => job'[u] = job[u]
      /\ \/ Busy' = Busy \ {t} /\ ref'[h] = Raw /\ job'[t] = Idle
         \/ Busy' = Busy /\ job'[t].dst = h /\ job'[t].do = "assignTake" /\ ref' = ref
  <2>1. CASE job[t].do = "delete"
    <3>1. End(t) /\ ref'[h] = Raw
      BY <1>2, <2>1 DEF PtrTypeOK
    <3> QED
      BY <3>1, CallEnds
  <2>2. CASE job[t].do = "assignDelete"
    <3>1. Begin(t, "assignTake", h, job[t].src) /\ ref' = ref
      BY <1>2, <2>2
    <3>2. /\ job'[t] = [do |-> "assignTake", dst |-> h, src |-> job[t].src]
          /\ \A u \in Threads : u # t => job'[u] = job[u]
      BY <3>1 DEF Begin, PtrTypeOK
    <3>3. /\ job'[t].do = "assignTake" /\ job'[t].dst = h /\ job'[t].src = job[t].src
          /\ job'[t] # Idle
          /\ job'[t] \in [do : {"delete", "assignDelete", "assignTake"}, dst : Handles, src : Handles]
      BY <1>1, <3>2 DEF Idle
    <3>4. Busy' = Busy
      BY <1>1, <3>2, <3>3 DEF Busy
    <3>5. Private'
      <4>1. \A u \in Busy : job'[u].dst = job[u].dst /\ job'[u].src = job[u].src
        BY <1>1, <3>2, <3>3 DEF Busy
      <4>2. \A u \in Busy : job'[u].do # "delete" => job[u].do # "delete"
        BY <2>2, <3>2 DEF Busy
      <4> QED
        BY <3>4, <4>1, <4>2 DEF Private
    <3>6. job' \in [Threads -> {Idle} \cup [do : {"delete", "assignDelete", "assignTake"},
                                            dst : Handles, src : Handles]]
      <4>1. \A u \in Threads : job'[u] \in {Idle} \cup [do : {"delete", "assignDelete", "assignTake"},
                                                        dst : Handles, src : Handles]
        BY <3>2, <3>3 DEF PtrTypeOK
      <4> QED
        BY <3>1, <4>1 DEF Begin, PtrTypeOK
    <3> QED
      BY <3>1, <3>2, <3>3, <3>4, <3>5, <3>6
  <2> QED
    BY <1>1, <2>1, <2>2
<1>5. PtrTypeOK'
  <2>1. ref' \in [Handles -> Blocks \cup {Null, Raw}]
    BY <1>2 DEF PtrTypeOK
  <2>2. state' \in [Blocks -> {"unused", "live", "freed"}]
    BY <1>2 DEF PtrTypeOK
  <2>3. undefined' \in BOOLEAN
    BY <1>2
  <2> QED
    BY <1>2, <1>4, <2>1, <2>2, <2>3 DEF PtrTypeOK
<1>6. ASSUME NEW a \in withObject PROVE Survives(a) /\ OwnersOf(a)' = OwnersOf(a)
  <2>1. a \in Blocks /\ a # Raw /\ count' = count /\ h \notin OwnersOf(a)
    BY <1>1, <1>2 DEF OwnersOf
  <2>2. OwnersOf(a)' = OwnersOf(a)
    <3>1. ASSUME NEW x \in Handles PROVE x \in OwnersOf(a)' <=> x \in OwnersOf(a)
      <4>1. CASE x = h
        BY <1>1, <1>4, <2>1, <4>1 DEF OwnersOf
      <4>2. CASE x # h
        BY <1>1, <1>3, <1>4, <4>2 DEF OwnersOf, Busy
      <4> QED
        BY <4>1, <4>2
    <3>2. OwnersOf(a) \subseteq Handles /\ OwnersOf(a)' \subseteq Handles
      BY DEF OwnersOf
    <3> QED
      BY <3>1, <3>2
  <2>3. ASSUME NEW u \in Threads, u # t PROVE Deletes(u, a)' <=> Deletes(u, a)
    <3>1. job[u].do \in {"delete", "assignDelete"} => u \in Busy
      BY DEF Busy, Idle
    <3>2. u \in Busy => job[u].dst # h
      BY <1>1, <2>3 DEF Private
    <3>3. u \in Busy => ref'[job[u].dst] = ref[job[u].dst]
      BY <1>3, <3>2
    <3> QED
      BY <1>4, <2>3, <3>1, <3>3 DEF Deletes
  <2>4. ~Deletes(t, a)'
    BY <1>4 DEF Deletes, Idle
  <2>5. CASE a = b
    <3>1. Deletes(t, a) /\ Counted(a)
      BY <1>1, <2>5 DEF Deletes
    <3>2. OwnersOf(a) = {} /\ \A u \in Threads : u # t => ~Deletes(u, a)
      BY <3>1 DEF Counted
    <3>3. state'[a] = "freed"
      BY <1>2, <2>1, <2>5 DEF PtrTypeOK
    <3> QED
      BY <2>2, <2>3, <2>4, <3>2, <3>3 DEF Counted, Survives
  <2>6. CASE a # b
    <3>1. ~Deletes(t, a)
      BY <1>1, <2>6 DEF Deletes
    <3>2. state'[a] = state[a]
      BY <1>2, <2>1, <2>6 DEF PtrTypeOK
    <3> QED
      BY <2>1, <2>2, <2>3, <2>4, <3>1, <3>2, UnconcernedKeeps
  <2> QED
    BY <2>5, <2>6
<1>7. UsedBlocks'
  <2>1. \A a \in Blocks : state'[a] = (IF a = b THEN "freed" ELSE state[a])
    BY <1>2 DEF PtrTypeOK
  <2>2. \A x \in Handles : ref'[x] \in Blocks => ref'[x] = ref[x]
    BY <1>3, <1>4
  <2> QED
    BY <1>2, <2>1, <2>2 DEF UsedBlocks
<1> QED
  BY <1>2, <1>4, <1>5, <1>6, <1>7 DEF PtrInv, CountsExact, Survives

(* A source that owns an object still does: its count is there, and is      *)
(* counted up for one owner more.                                           *)
LEMMA AssignTakeKeeps ==
  ASSUME PtrInv, NEW t \in Threads, AssignTake(t)
  PROVE  PtrInv' /\ \A a \in withObject : Survives(a)
<1> USE PtrInvMeans
<1>1. PICK h \in Handles, g \in Handles : /\ h = job[t].dst /\ g = job[t].src /\ h # g
                                          /\ t \in Busy /\ job[t].do = "assignTake"
  <2>1. t \in Busy /\ job[t].do = "assignTake"
    BY DEF AssignTake, Busy, Idle
  <2> QED
    BY <2>1 DEF Private
<1>2. /\ ref' = [ref EXCEPT ![h] = ref[g]] /\ UNCHANGED <<state, withObject>>
      /\ \/ Usable(g) /\ count' = [count EXCEPT ![ref[g]] = @ + 1] /\ UNCHANGED undefined
         \/ ~Usable(g) /\ undefined' = TRUE /\ UNCHANGED count
  BY <1>1 DEF AssignTake
<1>3. \A x \in Handles : ref'[x] = (IF x = h THEN ref[g] ELSE ref[x])
  BY <1>2 DEF PtrTypeOK
<1>4. /\ Busy' = Busy \ {t} /\ Private'
      /\ \A u \in Threads : u # t => job'[u] = job[u]
      /\ job'[t] = Idle
      /\ job' \in [Threads -> {Idle} \cup [do : {"delete", "assignDelete", "assignTake"},
                                           dst : Handles, src : Handles]]
  BY CallEnds DEF AssignTake
<1>5. PtrTypeOK'
  <2>1. ref' \in [Handles -> Blocks \cup {Null, Raw}]
    BY <1>2 DEF PtrTypeOK
  <2>2. count' \in [Blocks -> Int]
    BY <1>2 DEF PtrTypeOK, Usable
  <2>3. undefined' \in BOOLEAN
    BY <1>2 DEF PtrTypeOK
  <2> QED
    BY <1>2, <1>4, <2>1, <2>2, <2>3 DEF PtrTypeOK
<1>6. ASSUME NEW a \in withObject PROVE Survives(a)
  <2>1. a \in Blocks /\ Counted(a) /\ h \notin OwnersOf(a) /\ (g \in OwnersOf(a) <=> ref[g] = a)
    BY <1>1, SourceOwns DEF OwnersOf
  <2>2. ASSUME NEW x \in Handles, x # h PROVE x \in OwnersOf(a)' <=> x \in OwnersOf(a)
    BY <1>1, <1>3, <1>4, <2>2 DEF OwnersOf, Busy
  <2>3. h \in OwnersOf(a)' <=> ref[g] = a
    <3>1. \A u \in Busy' : job'[u].dst # h
      <4>1. \A u \in Busy' : u \in Busy /\ u # t /\ job'[u] = job[u]
        BY <1>4 DEF Busy
      <4> QED
        BY <1>1, <4>1 DEF Private
    <3> QED
      BY <1>3, <3>1 DEF OwnersOf
  <2>4. OwnersOf(a) \subseteq Handles /\ OwnersOf(a)' \subseteq Handles
    BY DEF OwnersOf
  <2>5. ASSUME NEW u \in Threads PROVE Deletes(u, a)' <=> Deletes(u, a)
    <3>1. CASE u = t
      BY <1>1, <1>4, <3>1 DEF Deletes, Idle
    <3>2. CASE u # t
      <4>1. job[u].do \in {"delete", "assignDelete"} => u \in Busy
        BY DEF Busy, Idle
      <4>2. u \in Busy => job[u].dst # h
        BY <1>1, <3>2 DEF Private
      <4>3. u \in Busy => ref'[job[u].dst] = ref[job[u].dst]
        BY <1>3, <4>2
      <4> QED
        BY <1>4, <3>2, <4>1, <4>3 DEF Deletes
    <3> QED
      BY <3>1, <3>2
  <2>6. CASE ref[g] = a
    <3>1. OwnersOf(a)' = OwnersOf(a) \cup {h}
      BY <2>2, <2>3, <2>4, <2>6
    <3>2. Usable(g)
      BY <2>1, <2>6 DEF Counted, Usable
    <3>3. count'[a] = count[a] + 1
      BY <1>2, <2>1, <2>6, <3>2 DEF PtrTypeOK
    <3> QED
      BY <1>2, <2>1, <2>5, <2>6, <3>1, <3>3, OwnerGained
  <2>7. CASE ref[g] # a
    <3>1. OwnersOf(a)' = OwnersOf(a)
      <4>1. \A x \in Handles : x \in OwnersOf(a)' <=> x \in OwnersOf(a)
        BY <2>1, <2>2, <2>3, <2>7
      <4> QED
        BY <2>4, <4>1
    <3>2. count'[a] = count[a]
      BY <1>2, <2>1, <2>7 DEF PtrTypeOK
    <3> QED
      BY <1>2, <2>1, <2>5, <3>1, <3>2, UnconcernedKeeps
  <2> QED
    BY <2>6, <2>7
<1> QED
  BY <1>2, <1>3, <1>4, <1>5, <1>6, HandlesChange

LEMMA NothingChangesKeeps ==
  ASSUME PtrInv, UNCHANGED <<ref, count, state, withObject, job>>, undefined' \in BOOLEAN
  PROVE  PtrInv' /\ \A a \in withObject : Survives(a)
<1> USE PtrInvMeans
<1>1. PtrTypeOK'
  BY DEF PtrTypeOK
<1>2. /\ Busy' = Busy /\ Private'
      /\ \A u \in Threads, a \in Blocks : Deletes(u, a)' <=> Deletes(u, a)
  BY CallsStay
<1>3. ASSUME NEW a \in withObject PROVE Survives(a)
  <2>1. OwnersOf(a)' = OwnersOf(a)
    BY <1>2 DEF OwnersOf
  <2> QED
    BY <1>2, <2>1, UnconcernedKeeps
<1> QED
  BY <1>1, <1>2, <1>3, HandlesChange

-----------------------------------------------------------------------------
(* SharedPtr: the invariant                                                 *)

LEMMA PtrInvInit == PtrInit => PtrInv
<1> SUFFICES ASSUME PtrInit PROVE PtrInv
  OBVIOUS
<1>1. PtrTypeOK
  <2>1. undefined \in BOOLEAN
    BY DEF PtrInit
  <2>2. /\ ref \in [Handles -> Blocks \cup {Null, Raw}] /\ count \in [Blocks -> Int]
        /\ state \in [Blocks -> {"unused", "live", "freed"}] /\ withObject \subseteq Blocks
    BY DEF PtrInit
  <2>3. job \in [Threads -> {Idle}]
    BY DEF PtrInit
  <2> QED
    BY <2>1, <2>2, <2>3 DEF PtrTypeOK
<1>2. Busy = {} /\ withObject = {} /\ \A h \in Handles : ref[h] \notin Blocks
  BY BlocksAssumption DEF PtrInit, Busy
<1> QED
  BY <1>1, <1>2 DEF PtrInv, CountsExact, Private, UsedBlocks

(* Every step but those that construct or delete leaves the objects alone.  *)
LEMMA PtrStepKeeps ==
  ASSUME PtrInv, [PtrNext]_ptrVars
  PROVE  PtrInv' /\ \A a \in withObject : Survives(a)
<1>1. CASE UNCHANGED ptrVars
  <2>1. undefined' \in BOOLEAN
    BY <1>1 DEF ptrVars, PtrInv, CountsExact, PtrTypeOK
  <2> QED
    BY <1>1, <2>1, NothingChangesKeeps DEF ptrVars
<1>2. ASSUME NEW t \in Threads, NEW h \in Handles, Misuse(t, h)
      PROVE  PtrInv' /\ \A a \in withObject : Survives(a)
  <2>1. UNCHANGED <<ref, count, state, withObject, job>> /\ undefined' \in BOOLEAN
    BY <1>2 DEF Misuse
  <2> QED
    BY <2>1, NothingChangesKeeps
<1> QED
  BY <1>1, <1>2, ConstructKeeps, MoveKeeps, CopyKeeps, SwapKeeps, DestroyEmptyKeeps, DestroyKeeps,
     AssignKeeps, DeleteKeeps, AssignTakeKeeps DEF PtrNext, PtrCall, PtrStep

(* Handles that are being changed are private to their threads, and counts, *)
(* owners and deletions agree, in every reachable state.                    *)
THEOREM PtrInvariance == PtrSpec => []PtrInv
<1>1. PtrInv /\ [PtrNext]_ptrVars => PtrInv'
  BY PtrStepKeeps
<1> QED
  BY <1>1, PtrInvInit, PTL DEF PtrSpec

(* The count of an object is the number of its handles, whatever threads do *)
(* at the same time, and the last handle has it deleted, by one thread.     *)
THEOREM Counting == PtrSpec => []CountsExact
<1>1. PtrInv => CountsExact
  BY DEF PtrInv
<1> QED
  BY <1>1, PtrInvariance, PTL

-----------------------------------------------------------------------------
(* SharedPtr implements shared ownership                                    *)

(* The refinement mapping: who owns each block, and the objects alive.      *)
OwnersMap == [b \in Blocks |-> IF b \in withObject THEN OwnersOf(b) ELSE {}]
AliveSet == {b \in withObject : state[b] = "live"}

LEMMA OwnersMapNext ==
  ASSUME PtrInv, PtrInv', withObject' = withObject, \A a \in withObject : Survives(a)
  PROVE  /\ OwnersMap' \in [Blocks -> SUBSET Handles]
         /\ \A o \in Blocks : OwnersMap[o] = {} => OwnersMap'[o] = {}
         /\ \A o, p \in Blocks : o # p => OwnersMap'[o] \cap OwnersMap'[p] = {}
<1>1. \A o \in Blocks : /\ OwnersMap[o] = (IF o \in withObject THEN OwnersOf(o) ELSE {})
                        /\ OwnersMap'[o] = (IF o \in withObject THEN OwnersOf(o)' ELSE {})
  BY DEF OwnersMap
<1>2. \A o : OwnersOf(o)' \subseteq Handles
  BY DEF OwnersOf
<1>3. \A o, p : o # p => OwnersOf(o)' \cap OwnersOf(p)' = {}
  BY DEF OwnersOf
<1>4. OwnersMap' \in [Blocks -> SUBSET Handles]
  BY <1>2 DEF OwnersMap
<1>5. ASSUME NEW o \in Blocks, OwnersMap[o] = {} PROVE OwnersMap'[o] = {}
  BY <1>1, <1>5 DEF Survives
<1>6. ASSUME NEW o \in Blocks, NEW p \in Blocks, o # p PROVE OwnersMap'[o] \cap OwnersMap'[p] = {}
  BY <1>1, <1>3, <1>6
<1> QED
  BY <1>4, <1>5, <1>6

(* Calls move owners about, as long as no object comes or goes.             *)
LEMMA CallsExchange ==
  ASSUME PtrInv, PtrInv', UNCHANGED <<state, withObject>>, \A a \in withObject : Survives(a)
  PROVE  Ownership!Exchange
<1>1. AliveSet' = AliveSet
  BY DEF AliveSet
<1>2. /\ OwnersMap' \in [Blocks -> SUBSET Handles]
      /\ \A o \in Blocks : OwnersMap[o] = {} => OwnersMap'[o] = {}
      /\ \A o, p \in Blocks : o # p => OwnersMap'[o] \cap OwnersMap'[p] = {}
  BY OwnersMapNext
<1> QED
  BY <1>1, <1>2 DEF Ownership!Exchange, OwnersMap, AliveSet

(* An object is created with its first owner; a count alone is no object.   *)
LEMMA ConstructCreates ==
  ASSUME PtrInv, NEW t \in Threads, NEW h \in Handles, NEW b \in Blocks, NEW n \in {0, 1},
         Construct(t, h, b, n)
  PROVE  Ownership!Create(b, h) \/ UNCHANGED <<OwnersMap, AliveSet>>
<1> USE PtrInvMeans
<1>1. /\ b \notin withObject /\ OwnersOf(b)' = {h}
      /\ state' = [state EXCEPT ![b] = "live"] /\ state'[b] = "live"
      /\ withObject' = (IF n = 1 THEN withObject \cup {b} ELSE withObject)
  BY ConstructKeeps DEF Construct, PtrTypeOK
<1>2. ASSUME NEW a \in withObject PROVE OwnersOf(a)' = OwnersOf(a) /\ state'[a] = state[a] /\ a # b
  <2>1. a # b /\ a \in Blocks /\ a # Raw
    BY <1>1
  <2>2. /\ ref[h] = Raw /\ \A x \in Handles : ref'[x] = (IF x = h THEN b ELSE ref[x])
        /\ Busy' = Busy /\ job' = job
    BY DEF Construct, PtrTypeOK, Busy
  <2>3. state'[a] = state[a]
    BY <1>1, <2>1 DEF PtrTypeOK
  <2> QED
    BY <2>1, <2>2, <2>3 DEF OwnersOf
<1>3. CASE n = 1
  <2>1. withObject' = withObject \cup {b}
    BY <1>1, <1>3
  <2>2. OwnersMap' = [OwnersMap EXCEPT ![b] = {h}]
    BY <1>1, <1>2, <2>1 DEF OwnersMap
  <2>3. b \notin AliveSet /\ AliveSet' = AliveSet \cup {b}
    BY <1>1, <1>2, <2>1 DEF AliveSet
  <2> QED
    BY <2>2, <2>3 DEF Ownership!Create, OwnersMap, AliveSet
<1>4. CASE n # 1
  <2>1. withObject' = withObject
    BY <1>1, <1>4
  <2>2. OwnersMap' = OwnersMap
    BY <1>2, <2>1 DEF OwnersMap
  <2>3. AliveSet' = AliveSet
    BY <1>2, <2>1 DEF AliveSet
  <2> QED
    BY <2>2, <2>3
<1> QED
  BY <1>3, <1>4

(* Deleting a block frees an object that nobody owns, if there is one.      *)
LEMMA DeleteFrees ==
  ASSUME PtrInv, NEW t \in Threads, Delete(t)
  PROVE  \/ \E b \in Blocks : Ownership!Free(b)
         \/ UNCHANGED <<OwnersMap, AliveSet>>
<1> USE PtrInvMeans
<1>1. PICK b : b = ref[job[t].dst] /\ Deletes(t, b)
  BY DEF Delete, Deletes
<1>2. state' = [state EXCEPT ![b] = "freed"] /\ withObject' = withObject
  BY <1>1 DEF Delete
(* Owners stay as they are: the one that deletes has let go before.         *)
<1>3. ASSUME NEW a \in withObject PROVE OwnersOf(a)' = OwnersOf(a)
  BY <1>3, DeleteKeeps
<1>4. OwnersMap' = OwnersMap
  BY <1>2, <1>3 DEF OwnersMap
<1>5. CASE b \in withObject
  <2>1. state[b] = "live" /\ OwnersOf(b) = {} /\ b \in Blocks
    BY <1>1, <1>5 DEF Counted
  <2>2. b \in AliveSet /\ OwnersMap[b] = {}
    BY <1>5, <2>1 DEF AliveSet, OwnersMap
  <2>3. \A a \in withObject : state'[a] = (IF a = b THEN "freed" ELSE state[a])
    BY <1>2 DEF PtrTypeOK
  <2>4. AliveSet' = AliveSet \ {b}
    BY <1>2, <2>3 DEF AliveSet
  <2> QED
    BY <1>4, <2>1, <2>2, <2>4 DEF Ownership!Free, OwnersMap, AliveSet
<1>6. CASE b \notin withObject
  <2>1. \A a \in withObject : state'[a] = state[a]
    BY <1>2, <1>6 DEF PtrTypeOK
  <2> QED
    BY <1>2, <1>4, <2>1 DEF AliveSet
<1> QED
  BY <1>5, <1>6

LEMMA PtrStepRefines ==
  ASSUME PtrInv, [PtrNext]_ptrVars
  PROVE  [Ownership!Next]_(Ownership!vars)
<1> SUFFICES Ownership!Next \/ UNCHANGED <<OwnersMap, AliveSet>>
  BY DEF Ownership!vars, OwnersMap, AliveSet
<1>1. PtrInv' /\ \A a \in withObject : Survives(a)
  BY PtrStepKeeps
<1>2. CASE UNCHANGED <<state, withObject>>
  BY <1>1, <1>2, CallsExchange DEF Ownership!Next
<1>3. ASSUME NEW t \in Threads, NEW h \in Handles, NEW b \in Blocks, NEW n \in {0, 1},
             Construct(t, h, b, n)
      PROVE  Ownership!Next \/ UNCHANGED <<OwnersMap, AliveSet>>
  BY <1>3, ConstructCreates DEF Ownership!Next
<1>4. ASSUME NEW t \in Threads, Delete(t)
      PROVE  Ownership!Next \/ UNCHANGED <<OwnersMap, AliveSet>>
  BY <1>4, DeleteFrees DEF Ownership!Next
<1>5. CASE UNCHANGED ptrVars
  BY <1>2, <1>5 DEF ptrVars
<1>6. ASSUME NEW t \in Threads, PtrCall(t) \/ PtrStep(t)
      PROVE  Ownership!Next \/ UNCHANGED <<OwnersMap, AliveSet>>
  BY <1>2, <1>3, <1>4, <1>6
     DEF PtrCall, PtrStep, Move, Copy, Swap, DestroyEmpty, Destroy, Assign, AssignTake, Misuse
<1> QED
  BY <1>5, <1>6 DEF PtrNext

(* An object is created with an owner, lives as long as it has one and is   *)
(* freed once after that; nobody comes to own what has no owner.            *)
THEOREM PtrRefinement == PtrSpec => ImplementsOwnership
<1>1. PtrInit => Ownership!Init
  BY DEF PtrInit, Ownership!Init
<1>2. PtrInv /\ [PtrNext]_ptrVars => [Ownership!Next]_(Ownership!vars)
  BY PtrStepRefines
<1> QED
  BY <1>1, <1>2, PtrInvariance, PTL
     DEF PtrSpec, ImplementsOwnership, Ownership!OwnershipSpec, Ownership!vars
=============================================================================
