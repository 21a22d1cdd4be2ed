----------------------------- MODULE Placement -----------------------------
(***************************************************************************)
(* Consistent hashing (cluster/placement.go): each node has a number of    *)
(* points on a ring of hashes, and an actor belongs to the node of the     *)
(* first point at or after the actor's own hash, round the ring.  The hash *)
(* function is a parameter: a ring r gives the hash r.hash[p] of each      *)
(* point p, the hash r.key of the actor and the nodes r.hosts whose type   *)
(* hosts the actor's type (GroupMapping).                                  *)
(***************************************************************************)
EXTENDS Integers, FiniteSets

CONSTANTS
    Nodes,          (* the cluster's nodes                                  *)
    NoNode,         (* Node{}                                               *)
    VirtualNodes    (* points per node                                      *)

ASSUME PlacementAssumption ==
    /\ NoNode \notin Nodes
    /\ VirtualNodes \in Nat \ {0}

Point == Nodes \X (1..VirtualNodes)

(* No two points of a ring have one hash.                                  *)
IsRing(r) ==
    /\ r.hash \in [Point -> Nat] /\ r.key \in Nat
    /\ r.hosts \subseteq Nodes
    /\ \A p, q \in Point : r.hash[p] = r.hash[q] => p = q

(* filterEligible, FilterByGroup: the members that can host the actor.     *)
Eligible(r, members) == members \cap r.hosts

(* The first of the points P in the sorted ring.                           *)
First(r, P) == CHOOSE p \in P : \A q \in P : r.hash[p] <= r.hash[q]

(* Mutant: the key's remainder selects among the members.                  *)
OnRing_Modulo(r, members) ==
    CHOOSE n \in members :
        Cardinality({m \in members : r.hash[<<m, 1>>] < r.hash[<<n, 1>>]})
            = r.key % Cardinality(members)

(* placeOnRing: the first point at or after the key, or the first of all   *)
(* where there is none.                                                    *)
OnRing(r, members) ==
    LET ring == members \X (1..VirtualNodes)
        after == {p \in ring : r.hash[p] >= r.key}
    IN  First(r, IF after = {} THEN ring ELSE after)[1]

(* Place: the preferred node, Node{} if no member can host the actor.      *)
Place(r, members) ==
    IF Eligible(r, members) = {} THEN NoNode ELSE OnRing(r, Eligible(r, members))
=============================================================================
