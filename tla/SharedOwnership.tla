--------------------------- MODULE SharedOwnership ---------------------------
(***************************************************************************)
(* What a shared pointer promises: an object lives as long as somebody     *)
(* owns it, and is freed once after its last owner has let go.             *)
(***************************************************************************)
CONSTANTS Owners, Objects

VARIABLES owners,   (* owners[o]: who owns the object o                      *)
          alive     (* the objects that exist                                *)

vars == <<owners, alive>>

Init == owners = [o \in Objects |-> {}] /\ alive = {}

Create(o, h) ==
  /\ o \notin alive
  /\ alive' = alive \cup {o}
  /\ owners' = [owners EXCEPT ![o] = {h}]

(* Ownership is shared, passed on and given up, but never had from nothing. *)
Exchange ==
  /\ owners' \in [Objects -> SUBSET Owners]
  /\ \A o \in Objects : owners[o] = {} => owners'[o] = {}
  /\ \A o, p \in Objects : o # p => owners'[o] \cap owners'[p] = {}
  /\ UNCHANGED alive

Free(o) ==
  /\ o \in alive
  /\ owners[o] = {}
  /\ alive' = alive \ {o}
  /\ UNCHANGED owners

Next == \/ \E o \in Objects, h \in Owners : Create(o, h)
        \/ Exchange
        \/ \E o \in Objects : Free(o)

OwnershipSpec == Init /\ [][Next]_vars
=============================================================================
