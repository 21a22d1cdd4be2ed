---------------------------- MODULE MCInvocation ----------------------------
(* Instances of Invocation for TLC.                                        *)
EXTENDS Invocation, TLC

Shape(via, spawn, query, result) ==
    [via |-> via, spawn |-> spawn, query |-> query, result |-> result]

(* SafeCalls that succeed, fail or panic, a call of a RegisterQuery        *)
(* handler, and a post to a RegisterSpawn handler.                         *)
AllShapes ==
    {Shape("safe", TRUE, TRUE, res) : res \in {"ok", "err", "panic"}}
    \cup {Shape("call", FALSE, TRUE, "ok"), Shape("post", TRUE, FALSE, "ok")}

(* Calls that start actors and fail, made by SafeCall.                     *)
SafeShapes == {s \in AllShapes : s.via = "safe"}

(* Calls are interchangeable: Init gives each of them every shape.         *)
Symmetry == Permutations(Calls)
=============================================================================
