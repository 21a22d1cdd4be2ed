---------------------------- MODULE ActorRegistry ----------------------------
(***************************************************************************)
(* What an actor group promises, without locks, counters or mailboxes:     *)
(* every id is served by at most one runtime at a time, a runtime serves   *)
(* one actor once, and an id gets a new runtime only after the old one has *)
(* stopped serving.  ActorGroup implements it.                             *)
(***************************************************************************)
CONSTANTS
    Ids,       (* actor ids                                                 *)
    Runtimes,  (* actor runtimes                                            *)
    None       (* no runtime                                                *)

VARIABLES
    serving,   (* [Ids -> runtime or None]: the runtime that serves the id  *)
    used       (* the runtimes that serve or have served                    *)

Init == /\ serving = [id \in Ids |-> None]
        /\ used = {}

Activate(id, r) ==
    /\ serving[id] = None
    /\ r \notin used
    /\ serving' = [serving EXCEPT ![id] = r]
    /\ used' = used \cup {r}

Retire(id) ==
    /\ serving[id] # None
    /\ serving' = [serving EXCEPT ![id] = None]
    /\ UNCHANGED used

Next == \E id \in Ids : Retire(id) \/ \E r \in Runtimes : Activate(id, r)

Spec == Init /\ [][Next]_<<serving, used>>
=============================================================================
