----------------------------- MODULE MCCluster -----------------------------
(* Instances of Cluster for TLC.                                           *)
EXTENDS Cluster, TLC

CONSTANTS a, b, c

(* The nodes' points on the ring.  The actor's hash is on one of them or   *)
(* above them all, every node hosts the actor or b alone.                  *)
Hash == (<<a, 1>> :> 1) @@ (<<b, 1>> :> 3) @@ (<<c, 1>> :> 5)
MCRings ==
    {[hash |-> Hash, key |-> 7, hosts |-> Nodes], [hash |-> Hash, key |-> 3, hosts |-> {b}]}

(* Two requests, of which one may be made on b.                            *)
Call == [op |-> "call", src |-> a]
Post == [op |-> "post", src |-> b]
Broadcast == [op |-> "broadcast", src |-> a]
MCPlans == {<<Call, Call>>, <<Call, Post>>, <<Call, Broadcast>>}
=============================================================================
