------------------------------ MODULE SharedPtr ------------------------------
(***************************************************************************)
(* ThreadSafeShared_ptr (DataStructures/ThreadSafeShared_ptr.h): handles   *)
(* of several threads over reference counts on the heap.  Threads share    *)
(* the counts, not the handles: while a thread changes a handle nobody     *)
(* else uses it, and many may copy from one that nobody changes, as the    *)
(* threads of test_theardSafeShared_ptr do.  Hence an action is one access *)
(* to a count, with the private assignments around it.                     *)
(*                                                                         *)
(* A block is one allocation of a count and, if it came with one, of its   *)
(* object; a handle has both pointers from the same block.  The use of a   *)
(* count that does not exist is undefined, and the end of the behaviour.   *)
(***************************************************************************)
EXTENDS Integers, FiniteSets

CONSTANTS Threads, Handles,
          Blocks,        (* the allocations of a behaviour, a bound          *)
          Null,          (* the pointers of a handle that was moved from     *)
          Raw,           (* a handle that is not constructed                 *)
          MaxCount       (* bound: the copies made of handles without object *)

ASSUME BlocksAssumption == {Null, Raw} \cap Blocks = {} /\ Null # Raw
ASSUME HandlesAssumption == IsFiniteSet(Handles)
ASSUME MaxCountAssumption == MaxCount \in Nat

VARIABLES ref,           (* ref[h]: the block of the handle h                *)
          count,         (* count[b]: *count of the block                    *)
          state,         (* state[b]: "unused", "live" or "freed"            *)
          withObject,    (* the blocks that came with an object              *)
          job,           (* job[t]: the call in progress, if any             *)
          undefined

ptrVars == <<ref, count, state, withObject, job, undefined>>

Idle == [do |-> "idle", dst |-> Null, src |-> Null]
Busy == {t \in Threads : job[t] # Idle}

PtrInit == /\ ref = [h \in Handles |-> Raw]
           /\ count = [b \in Blocks |-> 0]
           /\ state = [b \in Blocks |-> "unused"]
           /\ withObject = {}
           /\ job = [t \in Threads |-> Idle]
           /\ undefined = FALSE

(* The contract of the threads.                                             *)
MayRead(t, h) == /\ ~undefined /\ t \notin Busy /\ ref[h] # Raw
                 /\ \A u \in Busy : job[u].dst # h
MayChange(t, h) == /\ ~undefined /\ t \notin Busy
                   /\ \A u \in Busy : h \notin {job[u].dst, job[u].src}

Usable(h) == ref[h] \in Blocks /\ state[ref[h]] = "live"

(* operator bool: ptr != nullptr.                                           *)
Holds(h) == ref[h] \in withObject

(* The bound: copies of a handle without object are not counted down again. *)
Countable(h) == Usable(h) /\ ~Holds(h) => count[ref[h]] < MaxCount

Begin(t, what, h, g) == job' = [job EXCEPT ![t] = [do |-> what, dst |-> h, src |-> g]]
End(t) == job' = [job EXCEPT ![t] = Idle]

-----------------------------------------------------------------------------
(* The two constructors that allocate a count: 1 with an object, 0 without. *)
Construct(t, h, b, n) ==
  /\ MayChange(t, h) /\ ref[h] = Raw
  /\ state[b] = "unused"
  /\ ref' = [ref EXCEPT ![h] = b]
  /\ count' = [count EXCEPT ![b] = n]
  /\ state' = [state EXCEPT ![b] = "live"]
  /\ withObject' = IF n = 1 THEN withObject \cup {b} ELSE withObject
  /\ UNCHANGED <<job, undefined>>

Move(t, h, g) ==
  /\ MayChange(t, h) /\ ref[h] = Raw
  /\ MayChange(t, g) /\ ref[g] # Raw
  /\ ref' = [ref EXCEPT ![h] = ref[g], ![g] = Null]
  /\ UNCHANGED <<count, state, withObject, job, undefined>>

Copy(t, h, g) ==
  /\ MayChange(t, h) /\ ref[h] = Raw
  /\ MayRead(t, g) /\ Usable(g) /\ Countable(g)
  /\ ref' = [ref EXCEPT ![h] = ref[g]]
  /\ count' = [count EXCEPT ![ref[g]] = @ + 1]
  /\ UNCHANGED <<state, withObject, job, undefined>>

Swap(t, h, g) ==
  /\ MayChange(t, h) /\ ref[h] # Raw
  /\ MayChange(t, g) /\ ref[g] # Raw
  /\ ref' = [ref EXCEPT ![h] = ref[g], ![g] = ref[h]]
  /\ UNCHANGED <<count, state, withObject, job, undefined>>

(* The destructor leaves the count of a handle without an object alone.     *)
DestroyEmpty(t, h) ==
  /\ MayChange(t, h) /\ ref[h] # Raw
  /\ ~Holds(h)
  /\ ref' = [ref EXCEPT ![h] = Raw]
  /\ UNCHANGED <<count, state, withObject, job, undefined>>

(* Mutants: the decrement is taken to return the new value; nobody deletes.  *)
DestroyAtTwo(t, h) ==
  /\ MayChange(t, h) /\ Holds(h)
  /\ count' = [count EXCEPT ![ref[h]] = @ - 1]
  /\ \/ count[ref[h]] = 2 /\ Begin(t, "delete", h, h) /\ UNCHANGED ref
     \/ count[ref[h]] # 2 /\ ref' = [ref EXCEPT ![h] = Raw] /\ UNCHANGED job
  /\ UNCHANGED <<state, withObject, undefined>>

DestroyAtZero(t, h) ==
  /\ MayChange(t, h) /\ Holds(h)
  /\ count' = [count EXCEPT ![ref[h]] = @ - 1]
  /\ ref' = [ref EXCEPT ![h] = Raw]
  /\ UNCHANGED <<job, state, withObject, undefined>>

Destroy(t, h) ==
  /\ MayChange(t, h) /\ Holds(h)
  /\ count' = [count EXCEPT ![ref[h]] = @ - 1]
  /\ \/ /\ count[ref[h]] = 1
        /\ Begin(t, "delete", h, h)
        /\ UNCHANGED ref
     \/ /\ count[ref[h]] # 1
        /\ ref' = [ref EXCEPT ![h] = Raw]
        /\ UNCHANGED job
  /\ UNCHANGED <<state, withObject, undefined>>

(* operator= compares the handles as booleans: when both hold an object, or *)
(* neither does, it returns at once.                                        *)
Differ(h, g) == Holds(h) # Holds(g)

Assign(t, h, g) ==
  /\ MayChange(t, h) /\ ref[h] # Raw /\ MayRead(t, g)
  /\ Differ(h, g)
  /\ Usable(h) /\ Countable(g)
  /\ count' = [count EXCEPT ![ref[h]] = @ - 1]
  /\ Begin(t, IF count[ref[h]] = 1 THEN "assignDelete" ELSE "assignTake", h, g)
  /\ UNCHANGED <<ref, state, withObject, undefined>>

(* delete count, delete ptr: once, or the behaviour is undefined.           *)
Delete(t) ==
  LET h == job[t].dst
      b == ref[h]
  IN /\ job[t].do \in {"delete", "assignDelete"} /\ ~undefined
     /\ state' = [state EXCEPT ![b] = "freed"]
     /\ undefined' = (state[b] # "live")
     /\ \/ /\ job[t].do = "delete"
           /\ End(t)
           /\ ref' = [ref EXCEPT ![h] = Raw]
        \/ /\ job[t].do = "assignDelete"
           /\ Begin(t, "assignTake", h, job[t].src)
           /\ UNCHANGED ref
     /\ UNCHANGED <<count, withObject>>

(* Mutant: the new owner is not counted.                                    *)
AssignTakeUncounted(t) ==
  /\ job[t].do = "assignTake" /\ ~undefined
  /\ End(t)
  /\ ref' = [ref EXCEPT ![job[t].dst] = ref[job[t].src]]
  /\ UNCHANGED <<count, state, withObject, undefined>>

AssignTake(t) ==
  LET g == job[t].src
  IN /\ job[t].do = "assignTake" /\ ~undefined
     /\ End(t)
     /\ ref' = [ref EXCEPT ![job[t].dst] = ref[g]]
     /\ \/ Usable(g) /\ count' = [count EXCEPT ![ref[g]] = @ + 1] /\ UNCHANGED undefined
        \/ ~Usable(g) /\ undefined' = TRUE /\ UNCHANGED count
     /\ UNCHANGED <<state, withObject>>

(* use_count, and with it any other call, of a handle without a count.      *)
Misuse(t, h) ==
  /\ MayRead(t, h) /\ ~Usable(h)
  /\ undefined' = TRUE
  /\ UNCHANGED <<ref, count, state, withObject, job>>

-----------------------------------------------------------------------------
PtrCall(t) ==
  \E h \in Handles :
    \/ \E b \in Blocks, n \in {0, 1} : Construct(t, h, b, n)
    \/ DestroyEmpty(t, h) \/ Destroy(t, h) \/ Misuse(t, h)
    \/ \E g \in Handles \ {h} : Move(t, h, g) \/ Copy(t, h, g) \/ Swap(t, h, g) \/ Assign(t, h, g)

PtrStep(t) == Delete(t) \/ AssignTake(t)

PtrNext == \E t \in Threads : PtrCall(t) \/ PtrStep(t)

PtrSpec == PtrInit /\ [][PtrNext]_ptrVars /\ \A t \in Threads : WF_ptrVars(PtrStep(t))

-----------------------------------------------------------------------------
PtrTypeOK ==
  /\ ref \in [Handles -> Blocks \cup {Null, Raw}]
  /\ count \in [Blocks -> Int]
  /\ state \in [Blocks -> {"unused", "live", "freed"}]
  /\ withObject \subseteq Blocks
  /\ job \in [Threads -> {Idle} \cup [do : {"delete", "assignDelete", "assignTake"},
                                      dst : Handles, src : Handles]]
  /\ undefined \in BOOLEAN

(* The handles on a block, but for those being destroyed or assigned over.  *)
OwnersOf(b) == {h \in Handles : ref[h] = b /\ \A t \in Busy : job[t].dst # h}
Deletes(t, b) == job[t].do \in {"delete", "assignDelete"} /\ ref[job[t].dst] = b

(* What holds of each block b that came with an object.                     *)
Counted(b) ==
  /\ state[b] = "live" => count[b] = Cardinality(OwnersOf(b))
  /\ OwnersOf(b) # {} => state[b] = "live"
  /\ state[b] = "live" /\ OwnersOf(b) = {} => \E t \in Threads : Deletes(t, b)
  /\ \A t \in Threads : Deletes(t, b) =>
       /\ state[b] = "live" /\ OwnersOf(b) = {}
       /\ \A u \in Threads \ {t} : ~Deletes(u, b)

(* The count of an object is the number of its handles, whatever threads    *)
(* copy, destroy and assign at the same time and whatever becomes of        *)
(* handles without an object; the object is there as long as it has one,    *)
(* and after the last of them one thread deletes it.                        *)
CountsExact == PtrTypeOK /\ \A b \in withObject : Counted(b)

(* Why it works: nobody else uses the handle that a thread changes, so that *)
(* the source of an assignment stays an owner until it is taken over.       *)
Private ==
  /\ \A t, u \in Busy : t # u => job[t].dst \notin {job[u].dst, job[u].src}
  /\ \A t \in Busy : job[t].do # "delete" => job[t].dst # job[t].src

UsedBlocks ==
  /\ \A b \in withObject : state[b] # "unused"
  /\ \A h \in Handles : ref[h] \in Blocks => state[ref[h]] # "unused"

PtrInv == CountsExact /\ Private /\ UsedBlocks

(* An object has owners from its construction to the last of them, is freed *)
(* once after that, and is never had again from a handle that has let go.   *)
Ownership == INSTANCE SharedOwnership
               WITH Owners <- Handles, Objects <- Blocks,
                    owners <- [b \in Blocks |-> IF b \in withObject THEN OwnersOf(b) ELSE {}],
                    alive <- {b \in withObject : state[b] = "live"}
ImplementsOwnership == Ownership!OwnershipSpec

(* An object without handles is freed: only blocks without object leak.     *)
LastOwnerFrees ==
  \A b \in Blocks : (b \in withObject /\ OwnersOf(b) = {}) ~> (state[b] = "freed" \/ undefined)
=============================================================================
