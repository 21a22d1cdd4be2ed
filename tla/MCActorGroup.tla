---------------------------- MODULE MCActorGroup ----------------------------
(* Instances of ActorGroup for TLC.                                        *)
EXTENDS ActorGroup, TLC

CONSTANTS p, q

Request(kind, ids, spawn, query) ==
    [kind |-> kind, ids |-> ids, spawn |-> spawn, query |-> query]

(* Two actors: each can be spawned, asked again, and reached by a          *)
(* broadcast that holds both at once.                                      *)
TwoActors ==
    {Request("call", {p}, TRUE, TRUE), Request("post", {q}, TRUE, FALSE),
     Request("multi", {p, q}, FALSE, TRUE)}

(* One actor and every way to address it: RegisterSpawn, RegisterServe and *)
(* RegisterQuery handlers, a broadcast and an ActorRef.                    *)
OneActor ==
    {Request("post", {p}, TRUE, FALSE), Request("call", {p}, TRUE, TRUE),
     Request("call", {p}, FALSE, TRUE), Request("multi", {p}, FALSE, TRUE),
     Request("ref", {p}, FALSE, TRUE)}

(* The two kinds of spawning request, and an ActorRef.                     *)
SpawnOrRef == {s \in OneActor : s.spawn \/ s.kind = "ref"}

(* Calls of one Serve handler.                                             *)
ServeOnly == {Request("call", {p}, TRUE, TRUE)}

(* A closer's operations on that actor, and one of them only.              *)
Closing1(op) == [op |-> op, ids |-> {p}]
AnyClosing == {Closing1(op) : op \in {"close", "kill", "group", "join"}}
CloseOnly == {Closing1("close")}
GroupOnly == {Closing1("group")}

(* Requests are interchangeable: Init gives each of them every shape.      *)
Symmetry == Permutations(Requests)
=============================================================================
