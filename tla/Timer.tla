-------------------------------- MODULE Timer --------------------------------
(***************************************************************************)
(* Timer and its event loop (DataStructures/timer.cpp), one thread: sleep  *)
(* until the first timer expires, then run the callbacks of all that have  *)
(* expired.  A callback may add and delete timers.                         *)
(*                                                                         *)
(* Time is measured from the present: due is expireTime - getTick(), and   *)
(* Tick, a millisecond that passes, brings every timer nearer.             *)
(***************************************************************************)
EXTENDS Integers, FiniteSets

CONSTANTS Delays,      (* the times, in milliseconds, that clients ask for   *)
          MaxTimers,   (* bound: the timers added in a behaviour             *)
          MaxLate      (* bound: how late the loop is when it falls asleep    *)

ASSUME TimerAssumption == MaxTimers \in Nat /\ MaxLate \in Nat /\ Delays \subseteq 0 .. MaxLate - 1

VARIABLES timers,      (* map, a set of nodes [due, id]                      *)
          gid,         (* the last id                                        *)
          current,     (* the node of the last callback                      *)
          phase,       (* where the loop is                                  *)
          timeout      (* the timeout of epoll_wait, -1 is for ever          *)

timerVars == <<timers, gid, current, phase, timeout>>

(* Longer ago than any expiry that matters.                                 *)
LongAgo == -2 * MaxLate

TimerInit == /\ timers = {}
             /\ gid = 0
             /\ current = [due |-> LongAgo, id |-> 0]
             /\ phase = "setup"
             /\ timeout = -1

(* operator<                                                                *)
Before(x, y) == x.due < y.due \/ (x.due = y.due /\ x.id < y.id)

(* *map.begin()                                                             *)
First == CHOOSE x \in timers : \A y \in timers \ {x} : Before(x, y)

-----------------------------------------------------------------------------
(* main, before the loop, and every callback may add and delete timers.     *)
InClient == phase \in {"setup", "callback"}

AddTimer(msec) ==
  /\ InClient
  /\ gid < MaxTimers
  /\ gid' = gid + 1
  /\ timers' = timers \cup {[due |-> msec, id |-> gid + 1]}
  /\ UNCHANGED <<current, phase, timeout>>

(* A timer that is no longer there is not found.                            *)
DelTimer(x) ==
  /\ InClient
  /\ timers' = timers \ {x}
  /\ UNCHANGED <<gid, current, phase, timeout>>

Tick ==
  /\ phase # "undefined"
  /\ (phase = "asleep" /\ timeout > 0) \/ \A x \in timers : x.due > -MaxLate
  /\ timers' = {[x EXCEPT !.due = @ - 1] : x \in timers}
  /\ current' = [current EXCEPT !.due = IF @ > LongAgo THEN @ - 1 ELSE @]
  /\ timeout' = IF phase = "asleep" /\ timeout > 0 THEN timeout - 1 ELSE timeout
  /\ UNCHANGED <<gid, phase>>

-----------------------------------------------------------------------------
(* The loop of main                                                         *)

Goto(where) == phase' = where

Start ==
  /\ phase = "setup"
  /\ Goto("loop")
  /\ UNCHANGED <<timers, gid, current, timeout>>

(* Mutant: an expired timer is confused with none.                          *)
TimeToSleepOrNever == IF timers = {} \/ First.due <= 0 THEN -1 ELSE First.due

TimeToSleep == IF timers = {} THEN -1 ELSE IF First.due > 0 THEN First.due ELSE 0

Compute ==
  /\ phase = "loop"
  /\ timeout' = TimeToSleep
  /\ Goto("epoll_wait")
  /\ UNCHANGED <<timers, gid, current>>

(* Time may pass between the two.                                           *)
FallAsleep ==
  /\ phase = "epoll_wait"
  /\ Goto("asleep")
  /\ UNCHANGED <<timers, gid, current, timeout>>

Wake ==
  /\ phase = "asleep"
  /\ timeout = 0
  /\ Goto("check")
  /\ UNCHANGED <<timers, gid, current, timeout>>

(* A signal ends epoll_wait early.                                          *)
Interrupt ==
  /\ phase = "asleep"
  /\ Goto("check")
  /\ UNCHANGED <<timers, gid, current, timeout>>

(* Mutant: any expired timer may go first.                                  *)
CheckAnyTimer ==
  /\ phase = "check"
  /\ \/ \E x \in timers : x.due <= 0 /\ current' = x /\ Goto("callback")
     \/ /\ \A x \in timers : x.due > 0
        /\ Goto("loop")
        /\ UNCHANGED current
  /\ UNCHANGED <<timers, gid, timeout>>

Expired == timers # {} /\ First.due <= 0

(* checkTimer up to the callback.                                           *)
CheckTimer ==
  /\ phase = "check"
  /\ \/ /\ Expired
        /\ current' = First
        /\ Goto("callback")
     \/ /\ ~Expired
        /\ Goto("loop")
        /\ UNCHANGED current
  /\ UNCHANGED <<timers, gid, timeout>>

(* map.erase(it), after the callback: undefined when it has deleted its own *)
(* timer, and with it the node of the iterator.                             *)
Erase ==
  /\ phase = "callback"
  /\ Goto(IF current \in timers THEN "check" ELSE "undefined")
  /\ timers' = timers \ {current}
  /\ UNCHANGED <<gid, current, timeout>>

-----------------------------------------------------------------------------
LoopStep == Start \/ Compute \/ FallAsleep \/ Wake \/ CheckTimer \/ Erase

TimerNext == \/ \E msec \in Delays : AddTimer(msec)
             \/ \E x \in timers : DelTimer(x)
             \/ Tick \/ Interrupt \/ LoopStep

(* Time passes, callbacks return and the loop goes on.                      *)
TimerSpec == TimerInit /\ [][TimerNext]_timerVars /\ WF_timerVars(Tick) /\ WF_timerVars(LoopStep)

-----------------------------------------------------------------------------
TimerTypeOK ==
  /\ timers \subseteq [due : Int, id : 1 .. gid]
  /\ \A x, y \in timers : x.id = y.id => x = y
  /\ gid \in 0 .. MaxTimers
  /\ current \in [due : Int, id : 0 .. gid]
  /\ phase \in {"setup", "loop", "epoll_wait", "asleep", "check", "callback", "undefined"}
  /\ timeout \in Nat \cup {-1}

(* Why it works.  The loop never falls far behind: what has expired longest *)
(* expired after LongAgo, at which current stops to grow older.             *)
LateBy(n) == \A x \in timers : x.due >= n

InOrder ==
  \A x \in timers :
    \/ Before(current, x)
    \/ phase = "callback" /\ x = current

TimerInv ==
  /\ TimerTypeOK
  /\ InOrder
  /\ current.due <= 0
  /\ timeout < MaxLate
  /\ \A x \in timers : x.due < MaxLate
  /\ timers # {} => MaxLate > 0
  /\ LateBy(LongAgo)
  /\ phase \in {"setup", "loop", "epoll_wait"} => LateBy(-MaxLate)
  /\ phase = "asleep" => LateBy(timeout - 2 * MaxLate + 1)

(* Callbacks run in the order of their expiry, each once, although they add *)
(* timers that have already expired: whatever is in the set comes after the *)
(* timer of the last callback, which stays the first until it is erased.    *)
(* A callback that deletes its own timer ends the behaviour, after Erase.   *)
FiresInOrder == TimerTypeOK /\ InOrder

(* No timer is slept past for ever, whatever callbacks add before it: it    *)
(* runs or is deleted.  What follows a callback that deletes its own timer  *)
(* is undefined, and nothing is said of it.                                 *)
TimersFire ==
  \A i \in 1 .. MaxTimers :
    (\E x \in timers : x.id = i) ~> (phase = "undefined" \/ \A x \in timers : x.id # i)
=============================================================================
