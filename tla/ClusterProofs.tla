--------------------------- MODULE ClusterProofs ---------------------------
(***************************************************************************)
(* Consistent hashing moves an actor only to or from the node that joined  *)
(* or left, for every ring, every number of virtual nodes and every        *)
(* sequence of views: first for two sets of members, then for the steps of *)
(* the cluster.  The second half is about the router and its pool, for any *)
(* members, requests and connections: ClusterInv is inductive, and the     *)
(* lemmas go through the steps of a request, of the connections and of the *)
(* grain.                                                                  *)
(***************************************************************************)
EXTENDS Cluster, SequenceTheorems, WellFoundedInduction, TLAPS

(* A set of numbers has a least one.                                       *)
LEMMA LeastNumber ==
    ASSUME NEW T \in SUBSET Nat, T # {}
    PROVE  \E x \in T : \A y \in T : x <= y
  <1>1. PICK x \in T : \A y \in T : ~(<<y, x>> \in OpToRel(<, Nat))
    BY NatLessThanWellFounded, WFMin, Zenon
  <1>2. \A y \in T : ~(y < x)
    BY <1>1 DEF OpToRel
  <1> QED
    BY <1>2

(* placeOnRing finds a point of a member, and no point of the searched     *)
(* part of the ring is before it.                                          *)
LEMMA FirstIsLeast ==
    ASSUME NEW r, IsRing(r), NEW P \in SUBSET Point, P # {}
    PROVE  First(r, P) \in P /\ \A q \in P : r.hash[First(r, P)] <= r.hash[q]
  <1> DEFINE T == {r.hash[q] : q \in P}
  <1>1. T \in SUBSET Nat /\ T # {}
    BY DEF IsRing
  <1>2. PICK x \in T : \A y \in T : x <= y
    <2> HIDE DEF T
    <2> QED
      BY <1>1, LeastNumber
  <1>3. PICK p \in P : \A q \in P : r.hash[p] <= r.hash[q]
    BY <1>2
  <1> QED
    BY <1>3, Zenon DEF First

(* Points with one hash are one point.                                     *)
LEMMA HashIsInjective ==
    ASSUME NEW r, IsRing(r), NEW p \in Point, NEW q \in Point,
           r.hash[p] <= r.hash[q], r.hash[q] <= r.hash[p]
    PROVE  p = q
  <1>1. r.hash[p] \in Nat /\ r.hash[q] \in Nat
    BY DEF IsRing
  <1>2. r.hash[p] = r.hash[q]
    BY <1>1
  <1> QED
    BY <1>2 DEF IsRing

(* Place prefers a member, or Node{} where none can host the actor.        *)
LEMMA PlaceType ==
    ASSUME NEW r, IsRing(r), NEW M \in SUBSET Nodes
    PROVE  Place(r, M) \in Nodes \cup {NoNode}
  <1> DEFINE R == Eligible(r, M) \X (1..VirtualNodes)
             A == {p \in R : r.hash[p] >= r.key}
             P == IF A = {} THEN R ELSE A
  <1>1. CASE Eligible(r, M) # {}
    <2>1. PICK n \in Eligible(r, M) : TRUE
      BY <1>1
    <2>2. <<n, 1>> \in R
      BY PlacementAssumption
    <2>3. P \in SUBSET Point /\ P # {}
      BY <2>2 DEF Eligible, Point
    <2>4. First(r, P) \in Point
      BY <2>3, FirstIsLeast
    <2>5. Place(r, M) = First(r, P)[1]
      BY <1>1 DEF Place, OnRing
    <2> QED
      BY <2>4, <2>5 DEF Point
  <1>2. CASE Eligible(r, M) = {}
    BY <1>2 DEF Place
  <1> QED
    BY <1>1, <1>2

(* Place (placement.go): between two sets of members the preferred node    *)
(* changes only if the old one is not a member any more or the new one was *)
(* none before.                                                            *)
THEOREM PlaceMovesLittle ==
    ASSUME NEW r, IsRing(r), NEW M \in SUBSET Nodes, NEW N \in SUBSET Nodes,
           Place(r, M) \in N, Place(r, N) \in M
    PROVE  Place(r, M) = Place(r, N)
  <1> DEFINE RingOf(S) == Eligible(r, S) \X (1..VirtualNodes)
             After(S) == {p \in RingOf(S) : r.hash[p] >= r.key}
             Part(S) == IF After(S) = {} THEN RingOf(S) ELSE After(S)
  <1>1. Eligible(r, M) # {} /\ Eligible(r, N) # {}
    BY PlacementAssumption DEF Place
  <1>2. ASSUME NEW S \in SUBSET Nodes, Eligible(r, S) # {}
        PROVE  /\ Part(S) \in SUBSET Point /\ Part(S) # {}
               /\ Place(r, S) = First(r, Part(S))[1]
    <2>1. RingOf(S) \in SUBSET Point
      BY DEF Eligible, Point
    <2>2. RingOf(S) # {}
      <3>1. PICK n \in Eligible(r, S) : TRUE
        BY <1>2
      <3>2. 1 \in 1..VirtualNodes
        BY PlacementAssumption
      <3>3. <<n, 1>> \in RingOf(S)
        BY <3>1, <3>2
      <3> QED
        BY <3>3
    <2>3. Part(S) \in SUBSET Point /\ Part(S) # {}
      BY <2>1, <2>2
    <2>4. Place(r, S) = First(r, Part(S))[1]
      BY <1>2 DEF Place, OnRing
    <2> QED
      BY <2>3, <2>4
  <1> DEFINE p == First(r, Part(M))
             q == First(r, Part(N))
  <1>3. /\ p \in Part(M) /\ \A x \in Part(M) : r.hash[p] <= r.hash[x]
        /\ q \in Part(N) /\ \A x \in Part(N) : r.hash[q] <= r.hash[x]
    BY <1>1, <1>2, FirstIsLeast
  <1>4. p[1] \in N /\ q[1] \in M /\ Place(r, M) = p[1] /\ Place(r, N) = q[1]
    BY <1>1, <1>2
  <1>5. p \in RingOf(M) /\ q \in RingOf(N)
    BY <1>3
  <1>6. p \in RingOf(N) /\ q \in RingOf(M)
    BY <1>4, <1>5 DEF Eligible
  <1>7. p \in Part(N) /\ q \in Part(M)
    <2>1. CASE After(M) = {}
      <3>1. q \notin After(M) /\ After(N) = {}
        BY <1>3, <1>6, <2>1
      <3> QED
        BY <1>6, <2>1, <3>1
    <2>2. CASE After(M) # {}
      <3>1. p \in After(N)
        BY <1>3, <1>6, <2>2
      <3>2. q \in After(M)
        BY <1>3, <1>6, <3>1
      <3> QED
        BY <2>2, <3>1, <3>2
    <2> QED
      BY <2>1, <2>2
  <1>8. r.hash[p] <= r.hash[q] /\ r.hash[q] <= r.hash[p]
    BY <1>3, <1>7
  <1>9. p \in Point /\ q \in Point
    BY <1>5 DEF Eligible, Point
  <1>10. p = q
    <2> HIDE DEF p, q
    <2> QED
      BY <1>8, <1>9, HashIsInjective
  <1> QED
    BY <1>4, <1>10

(* The ring stays what it is, and only a member event changes a view.      *)
LEMMA OnlyEventsMove ==
    [Next]_vars => ring' = ring /\ (view' = view \/ \E n \in Nodes : ViewChanges(n))
  <1> SUFFICES ASSUME [Next]_vars
               PROVE  ring' = ring /\ (view' = view \/ \E n \in Nodes : ViewChanges(n))
    OBVIOUS
  <1> USE DEF steady, membership
  <1>1. ASSUME NEW q \in Requests, RouterStep(q) PROVE ring' = ring /\ view' = view
    <2>1. CASE PlaceLocal(q) \/ PlaceRemote(q) \/ PlaceNowhere(q)
      BY <2>1, Zenon DEF PlaceLocal, PlaceRemote, PlaceNowhere
    <2>2. CASE BroadcastLocal(q) \/ BroadcastNext(q)
      BY <2>2, Zenon DEF BroadcastLocal, BroadcastNext
    <2>3. CASE UsePooled(q) \/ Connect(q) \/ ConnectFails(q) \/ PutPool(q)
      BY <2>3, Zenon DEF UsePooled, Connect, ConnectFails, PutPool
    <2>4. CASE SendRequest(q) \/ SendFails(q) \/ WaitFails(q) \/ Forward(q) \/ ForceRelease(q)
      BY <2>4, Zenon DEF SendRequest, SendFails, WaitFails, Forward, ForceRelease
    <2> QED
      BY <1>1, <2>1, <2>2, <2>3, <2>4, Zenon DEF RouterStep
  <1>2. ASSUME NEW n \in Nodes, NodeStep(n), ~ViewChanges(n) PROVE ring' = ring /\ view' = view
    BY <1>2, Zenon DEF NodeStep, HandleEvent, CheckHandler, Deactivate, CloseAll
  <1>3. ASSUME NEW n \in Nodes, ViewChanges(n) PROVE ring' = ring
    BY <1>3 DEF ViewChanges
  <1>4. ASSUME NEW m \in inbox, Executes(m) \/ Refused(m) PROVE ring' = ring /\ view' = view
    BY <1>4, Zenon DEF Executes, Refused
  <1>5. ASSUME NEW k \in Clients, ConnectionLost(k) PROVE ring' = ring /\ view' = view
    BY <1>5, Zenon DEF ConnectionLost
  <1>6. CASE LeaseExpires
    BY <1>6, Zenon DEF LeaseExpires
  <1>7. CASE UNCHANGED vars
    BY <1>7 DEF vars
  <1> QED
    BY <1>1, <1>2, <1>3, <1>4, <1>5, <1>6, <1>7, Zenon DEF Next

ViewInv == ring \in Rings /\ view \in [Nodes -> SUBSET Nodes]

(* Rings and views have their type.                                        *)
LEMMA ViewStep == ViewInv /\ [Next]_vars => ViewInv'
  <1> SUFFICES ASSUME ViewInv, [Next]_vars PROVE ViewInv'
    OBVIOUS
  <1>1. ASSUME NEW n \in Nodes, ViewChanges(n) PROVE view' \in [Nodes -> SUBSET Nodes]
    BY <1>1 DEF ViewChanges, ViewInv
  <1> QED
    BY <1>1, OnlyEventsMove DEF ViewInv

(* When a node's view changes, the grain's preferred node changes only if  *)
(* it has left the view or the new one has joined it (placeOnRing,         *)
(* MigrationCoordinator.handleEvent).                                      *)
THEOREM AlwaysMinimal == Spec => MinimalMovement
  <1>1. Init => ViewInv
    BY DEF Init, ViewInv
  <1>2. /\ ViewInv
        /\ [Next]_vars
        => [\A n \in Nodes : Preferred(n)' # Preferred(n)
              => Preferred(n) \notin view'[n] \/ Preferred(n)' \notin view[n]]_vars
    <2> SUFFICES ASSUME ViewInv, [Next]_vars, NEW n \in Nodes,
                        Preferred(n) \in view'[n], Preferred(n)' \in view[n]
                 PROVE  Preferred(n)' = Preferred(n)
      OBVIOUS
    <2>1. /\ view[n] \in SUBSET Nodes /\ view'[n] \in SUBSET Nodes
          /\ ring' = ring /\ IsRing(ring)
      BY ViewStep, OnlyEventsMove, ClusterAssumption DEF ViewInv
    <2>2. Preferred(n) = Place(ring, view[n]) /\ Preferred(n)' = Place(ring, view'[n])
      BY <2>1 DEF Preferred
    <2> QED
      BY <2>1, <2>2, PlaceMovesLittle
  <1> QED
    BY <1>1, <1>2, ViewStep, PTL DEF Spec, MinimalMovement
-----------------------------------------------------------------------------
(* How often a request has been, or may still be, executed: Clean(q) not   *)
(* at all, One(q) once at most, Two(q) twice at most.                      *)
Msgs(q) == {m \in inbox : m.q = q}
Clean(q) == exec[q] = 0 /\ Msgs(q) = {}
Single(q) == \A x, y \in Msgs(q) : x = y
One(q) == (exec[q] = 0 /\ Single(q)) \/ (exec[q] = 1 /\ Msgs(q) = {})
Two(q) ==
    \/ exec[q] = 0 /\ \A x, y, z \in Msgs(q) : x = y \/ x = z \/ y = z
    \/ exec[q] = 1 /\ Single(q)
    \/ exec[q] = 2 /\ Msgs(q) = {}

Sending == {"place", "dial", "pool", "send"}

(* The router tries again only where the first try was refused, or after a *)
(* ForceRelease.                                                           *)
Spent(q, pc, attempt) ==
    /\ pc \in Sending \cup {"forward"} /\ attempt # 3 => Clean(q)
    /\ pc \in Sending /\ attempt = 3 => One(q)
    /\ pc \in {"wait", "force"} /\ attempt # 3 => One(q)
    /\ pc = "wait" /\ attempt = 3 => Two(q)
    /\ pc = "done" => IF config = "force" THEN Two(q) ELSE One(q)

Tries(q) ==
    rq[q].op # "broadcast" =>
        /\ rq[q].op = "post" => rq[q].attempt = 1 /\ rq[q].pc \notin {"wait", "forward", "force"}
        /\ rq[q].attempt = 3 => config = "force"
        /\ rq[q].pc = "force" => config = "force" /\ rq[q].attempt # 3
        /\ rq[q].pc = "forward" => rq[q].attempt = 1
        /\ Spent(q, rq[q].pc, rq[q].attempt)

(* Whoever dials knows whom, and has dialed that node from its own.        *)
Routed(q) == rq[q].pc \in {"dial", "pool", "send"} \/ rq[q].attempt = 2 => rq[q].to \in Nodes
Dialed(q) ==
    rq[q].pc = "pool" =>
        /\ rq[q].k \in DOMAIN client
        /\ client[rq[q].k].at = rq[q].src /\ client[rq[q].k].to = rq[q].to

(* The inductive invariant.                                                *)
ClusterInv ==
    /\ MemberType /\ GrainType /\ NetType /\ CallType
    /\ NoOrphanClient
    /\ \A q \in Requests : Tries(q)
    /\ \A q \in Requests : Routed(q)
    /\ \A q \in Requests : Dialed(q)

(* A request that may be executed once may be executed twice.              *)
LEMMA OneIsTwo ==
    ASSUME NEW q \in Requests
    PROVE  (Clean(q) => One(q)) /\ (One(q) => Two(q))
  BY DEF Clean, One, Two, Single

(* A message more: one execution more.                                     *)
LEMMA Sent ==
    ASSUME NEW q \in Requests, NEW m, m.q = q, inbox' = inbox \cup {m}, UNCHANGED exec
    PROVE  /\ Clean(q) => One(q)'
           /\ One(q) => Two(q)'
           /\ \A p \in Requests \ {q} : Msgs(p)' = Msgs(p)
<1>1. Msgs(q)' = Msgs(q) \cup {m}
  BY DEF Msgs
<1>2. \A p \in Requests \ {q} : Msgs(p)' = Msgs(p)
  BY DEF Msgs
<1> QED
  BY <1>1, <1>2 DEF Clean, One, Two, Single

(* A message that is taken out and refused, or executed.                   *)
LEMMA TakenOut ==
    ASSUME NEW q \in Requests, NEW m \in inbox, m.q = q, inbox' = inbox \ {m}
    PROVE  /\ m \in Msgs(q)
           /\ Msgs(q)' = Msgs(q) \ {m}
           /\ \A p \in Requests \ {q} : Msgs(p)' = Msgs(p)
  BY DEF Msgs

LEMMA RefusedCount ==
    ASSUME NEW q \in Requests, NEW m \in inbox, m.q = q, inbox' = inbox \ {m}, UNCHANGED exec
    PROVE  ~Clean(q) /\ (One(q) => Clean(q)') /\ (Two(q) => Two(q)')
  BY TakenOut DEF Clean, One, Two, Single

LEMMA ExecutedCount ==
    ASSUME CallType, NEW q \in Requests, NEW m \in inbox, m.q = q, inbox' = inbox \ {m},
           exec' = [exec EXCEPT ![q] = @ + 1]
    PROVE  ~Clean(q) /\ (One(q) => One(q)') /\ (Two(q) => Two(q)')
<1>1. exec'[q] = exec[q] + 1 /\ exec[q] \in Nat
  BY DEF CallType
<1> QED
  BY <1>1, TakenOut DEF Clean, One, Two, Single

(* The caller after Goes.                                                  *)
LEMMA GoesTo ==
    ASSUME CallType, GrainType, NEW q \in Requests, NEW x \in Pcs, Goes(q, x)
    PROVE  \E c \in Caller :
              /\ rq' = [rq EXCEPT ![q] = c]
              /\ c.pc = x /\ c.op = rq[q].op /\ c.src = rq[q].src
              /\ x = "done" => c.attempt = 1
              /\ x # "done" => c.attempt = rq[q].attempt /\ c.to = rq[q].to
<1>1. rq[q] \in Caller
  BY DEF CallType
<1>2. CASE x = "done"
  <2> DEFINE c == Asked([op |-> rq[q].op, src |-> rq[q].src], "done")
  <2>1. c \in Caller /\ c.pc = x /\ c.op = rq[q].op /\ c.src = rq[q].src /\ c.attempt = 1
    BY <1>1, <1>2, ClusterAssumption DEF Caller, Asked, Pcs
  <2>2. rq' = [rq EXCEPT ![q] = c]
    BY <1>2 DEF Goes, CallType
  <2> HIDE DEF c
  <2> QED
    BY <1>2, <2>1, <2>2
<1>3. CASE x # "done"
  <2> DEFINE w == IF x = "forward" THEN owner ELSE NoNode
             c == [rq[q] EXCEPT !.pc = x, !.k = 0, !.taken = w]
  <2>1. w \in Nodes \cup {NoNode}
    BY DEF GrainType
  <2>2. rq' = [rq EXCEPT ![q] = c]
    BY <1>3 DEF Goes, CallType
  <2> HIDE DEF w
  <2>3. /\ c \in Caller /\ c.pc = x /\ c.op = rq[q].op /\ c.src = rq[q].src
        /\ c.attempt = rq[q].attempt /\ c.to = rq[q].to
    <3>1. 0 \in 0..MaxClients
      BY ClusterAssumption
    <3>2. c \in Caller
      BY <1>1, <2>1, <3>1 DEF Caller
    <3> QED
      BY <1>1, <3>2 DEF Caller
  <2> HIDE DEF c
  <2> QED
    BY <1>3, <2>2, <2>3
<1> QED
  BY <1>2, <1>3

(* What handleLeaseCall makes of an error.                                 *)
LEMMA ErrorLeads ==
    ASSUME CallType, NEW q \in Requests, NEW err
    PROVE  /\ AfterError(q, err) \in Pcs
           /\ rq[q].op = "broadcast" => AfterError(q, err) = "place"
           /\ rq[q].op = "post" => AfterError(q, err) = "done"
           /\ rq[q].op = "call" =>
                 \/ AfterError(q, err) = "done"
                 \/ AfterError(q, err) = "forward" /\ rq[q].attempt = 1 /\ err = "taken"
                 \/ AfterError(q, err) = "force" /\ rq[q].attempt = 2 /\ config = "force"
<1>1. rq[q].op \in {"call", "post", "broadcast"} /\ rq[q].attempt \in {1, 2, 3}
  BY DEF CallType, Caller
<1> QED
  BY <1>1 DEF AfterError, AfterForward, IsLeaseTaken, Pcs

(* The clients after some of them are closed.                              *)
LEMMA ClosedType ==
    ASSUME NetType, NEW ks, client' = ClosedAll(ks)
    PROVE  /\ client' \in Seq(Client) /\ Len(client') = Len(client) /\ DOMAIN client' = DOMAIN client
           /\ \A k \in DOMAIN client :
                 /\ client'[k].at = client[k].at /\ client'[k].to = client[k].to
                 /\ client'[k].open => client[k].open /\ k \notin ks
<1>1. client \in Seq(Client) /\ Len(client) \in Nat /\ DOMAIN client = 1..Len(client)
  BY DEF NetType
<1>2. \A k \in DOMAIN client : client[k] \in Client
  BY <1>1
<1>3. client' = [k \in 1..Len(client) |-> IF k \in ks THEN [client[k] EXCEPT !.open = FALSE]
                                          ELSE client[k]]
  BY <1>1 DEF ClosedAll
<1>4. \A k \in 1..Len(client) :
         /\ client'[k] \in Client
         /\ client'[k].at = client[k].at /\ client'[k].to = client[k].to
         /\ client'[k].open => client[k].open /\ k \notin ks
  BY <1>1, <1>2, <1>3 DEF Client
<1>5. client' \in [1..Len(client) -> Client]
  BY <1>3, <1>4
<1>6. client' \in Seq(Client)
  BY <1>1, <1>5, SeqDef
<1>7. Len(client') = Len(client) /\ DOMAIN client' = DOMAIN client
  BY <1>1, <1>5, <1>6, LenProperties
<1> QED
  BY <1>1, <1>4, <1>6, <1>7

(* Clients are closed and leave the pool, and none that stays open does.   *)
NetShrinks ==
    /\ NetType'
    /\ DOMAIN client' = DOMAIN client
    /\ \A k \in DOMAIN client :
          /\ client'[k].at = client[k].at /\ client'[k].to = client[k].to
          /\ client'[k].open => client[k].open
          /\ client'[k].open /\ pool[client[k].at][client[k].to] = k
                => pool'[client[k].at][client[k].to] = k

LEMMA ShrinksOrStays ==
    ASSUME NetType, UNCHANGED net
    PROVE  NetShrinks
  BY DEF NetShrinks, NetType, net

(* RemoveClient.                                                           *)
LEMMA RemoveShrinks ==
    ASSUME NetType, NEW n \in Nodes, NEW m \in Nodes, Remove(n, m)
    PROVE  NetShrinks
<1>1. client' = ClosedAll({pool[n][m]}) /\ pool' = [pool EXCEPT ![n][m] = 0]
  BY DEF Remove
<1>2. /\ client' \in Seq(Client) /\ Len(client') = Len(client) /\ DOMAIN client' = DOMAIN client
      /\ \A k \in DOMAIN client :
            /\ client'[k].at = client[k].at /\ client'[k].to = client[k].to
            /\ client'[k].open => client[k].open /\ k # pool[n][m]
  BY <1>1, ClosedType
<1>3. Len(client) \in Nat
  BY DEF NetType
<1>4. pool' \in [Nodes -> [Nodes -> 0..Len(client)]]
  BY <1>1, <1>3 DEF NetType
<1>5. \A i, j \in Nodes : i # n \/ j # m => pool'[i][j] = pool[i][j]
  BY <1>1 DEF NetType
<1>6. \A k \in DOMAIN client : client[k].at \in Nodes /\ client[k].to \in Nodes
  <2>1. \A k \in DOMAIN client : client[k] \in Client
    BY DEF NetType
  <2> QED
    BY <2>1 DEF Client
<1>7. NetType'
  BY <1>2, <1>4 DEF NetType
<1> QED
  BY <1>2, <1>5, <1>6, <1>7 DEF NetShrinks

LEMMA DropShrinks ==
    ASSUME NetType, CallType, NEW q \in Requests, Routed(q), DropClient(q)
    PROVE  NetShrinks
<1>1. rq[q].src \in Nodes /\ (rq[q].attempt = 2 => rq[q].to \in Nodes)
  BY DEF CallType, Caller, Routed
<1>2. CASE rq[q].attempt = 2
  BY <1>1, <1>2, RemoveShrinks DEF DropClient
<1>3. CASE rq[q].attempt # 2
  BY <1>3, ShrinksOrStays DEF DropClient
<1> QED
  BY <1>2, <1>3

(* No connection is left behind while the callers that have just dialed    *)
(* stay where they are.                                                    *)
LEMMA ShrinkInv ==
    ASSUME ClusterInv, NetShrinks,
           \A q \in Requests : rq[q].pc = "pool" \/ rq'[q].pc = "pool" => rq'[q] = rq[q]
    PROVE  NoOrphanClient' /\ \A q \in Requests : Dialed(q)'
<1>1. NoOrphanClient'
  <2> SUFFICES ASSUME NEW k \in DOMAIN client', client'[k].open
               PROVE  \/ pool'[client'[k].at][client'[k].to] = k
                      \/ \E q \in Requests : rq'[q].pc = "pool" /\ rq'[q].k = k
    BY DEF NoOrphanClient
  <2>1. /\ k \in DOMAIN client /\ client[k].open
        /\ client'[k].at = client[k].at /\ client'[k].to = client[k].to
    BY DEF NetShrinks
  <2>2. \/ pool[client[k].at][client[k].to] = k
        \/ \E q \in Requests : rq[q].pc = "pool" /\ rq[q].k = k
    BY <2>1 DEF ClusterInv, NoOrphanClient
  <2> QED
    BY <2>1, <2>2 DEF NetShrinks
<1>2. \A q \in Requests : Dialed(q)'
  BY DEF ClusterInv, Dialed, NetShrinks
<1> QED
  BY <1>1, <1>2

(* The caller q goes on as c; nobody who has just dialed moves.            *)
LEMMA CallerMoves ==
    ASSUME ClusterInv, NEW q \in Requests, NEW c \in Caller, rq' = [rq EXCEPT ![q] = c],
           MemberType', GrainType', UNCHANGED config,
           inbox' \subseteq Message, exec' \in [Requests -> Nat],
           \A p \in Requests \ {q} : Msgs(p)' = Msgs(p) /\ exec'[p] = exec[p],
           Tries(q)',
           c.pc \in {"dial", "pool", "send"} \/ c.attempt = 2 => c.to \in Nodes
    PROVE  /\ MemberType' /\ GrainType' /\ CallType'
           /\ \A p \in Requests : Tries(p)' /\ Routed(p)'
           /\ rq'[q] = c /\ \A p \in Requests \ {q} : rq'[p] = rq[p]
<1>1. rq \in [Requests -> Caller] /\ \A p \in Requests : Tries(p) /\ Routed(p)
  BY DEF ClusterInv, CallType
<1>2. rq'[q] = c /\ (\A p \in Requests \ {q} : rq'[p] = rq[p]) /\ rq' \in [Requests -> Caller]
  BY <1>1
<1>3. ASSUME NEW p \in Requests \ {q} PROVE Tries(p)'
  <2>1. Tries(p) /\ rq'[p] = rq[p] /\ Msgs(p)' = Msgs(p) /\ exec'[p] = exec[p]
    BY <1>1, <1>2, <1>3
  <2> QED
    BY <2>1 DEF Tries, Spent, Clean, One, Two, Single
<1>4. \A p \in Requests : Routed(p)'
  BY <1>1, <1>2 DEF Routed
<1> QED
  BY <1>2, <1>3, <1>4 DEF CallType

LEMMA CallerInv ==
    ASSUME ClusterInv, NEW q \in Requests, NEW c \in Caller, rq' = [rq EXCEPT ![q] = c],
           MemberType', GrainType', UNCHANGED config,
           inbox' \subseteq Message, exec' \in [Requests -> Nat],
           \A p \in Requests \ {q} : Msgs(p)' = Msgs(p) /\ exec'[p] = exec[p],
           Tries(q)',
           c.pc \in {"dial", "pool", "send"} \/ c.attempt = 2 => c.to \in Nodes,
           rq[q].pc # "pool", c.pc # "pool", NetShrinks
    PROVE  ClusterInv'
<1>1. /\ MemberType' /\ GrainType' /\ CallType'
      /\ \A p \in Requests : Tries(p)' /\ Routed(p)'
      /\ rq'[q] = c /\ \A p \in Requests \ {q} : rq'[p] = rq[p]
  BY CallerMoves
<1>2. NoOrphanClient' /\ \A p \in Requests : Dialed(p)'
  <2>1. \A p \in Requests : rq[p].pc = "pool" \/ rq'[p].pc = "pool" => rq'[p] = rq[p]
    BY <1>1
  <2> QED
    BY <2>1, ShrinkInv
<1> QED
  BY <1>1, <1>2 DEF ClusterInv, NetShrinks

(* Nothing is sent or executed.                                            *)
LEMMA Quiet ==
    ASSUME UNCHANGED <<inbox, exec>>, NEW p
    PROVE  /\ Msgs(p)' = Msgs(p) /\ exec'[p] = exec[p]
           /\ Clean(p)' <=> Clean(p)
           /\ One(p)' <=> One(p)
           /\ Two(p)' <=> Two(p)
  BY DEF Msgs, Clean, One, Two, Single

LEMMA MemberStays ==
    ASSUME MemberType, UNCHANGED <<steady, membership>>
    PROVE  MemberType' /\ config' = config
  BY DEF MemberType, steady, membership

(* The parts of a caller that decide.                                      *)
LEMMA CallerParts ==
    ASSUME CallType, NEW q \in Requests
    PROVE  /\ rq[q] \in Caller
           /\ rq[q].op \in {"call", "post", "broadcast"} /\ rq[q].attempt \in {1, 2, 3}
           /\ rq[q].pc \in Pcs /\ rq[q].src \in Nodes
  BY DEF CallType, Caller

(* Nothing that has to do with a request other than q is sent or executed, *)
(* and q is not executed more often than it might have been.               *)
Settles(q) ==
    /\ inbox' \subseteq Message /\ exec' \in [Requests -> Nat]
    /\ \A p \in Requests \ {q} : Msgs(p)' = Msgs(p) /\ exec'[p] = exec[p]
    /\ One(q) => One(q)'
    /\ Two(q) => Two(q)'

LEMMA QuietSettles ==
    ASSUME CallType, NEW q \in Requests, UNCHANGED <<inbox, exec>>
    PROVE  Settles(q)
  BY Quiet DEF Settles, CallType

(* The caller gives up or is done.                                         *)
LEMMA EndsInv ==
    ASSUME ClusterInv, NEW q \in Requests, rq[q].pc # "pool", Goes(q, "done"), Settles(q),
           UNCHANGED <<steady, membership>>, GrainType', NetShrinks
    PROVE  ClusterInv'
<1>1. MemberType /\ GrainType /\ CallType /\ Tries(q)
  BY DEF ClusterInv
<1>2. PICK c \in Caller : /\ rq' = [rq EXCEPT ![q] = c] /\ c.pc = "done"
                          /\ c.op = rq[q].op /\ c.attempt = 1
  BY <1>1, GoesTo DEF Pcs
<1>3. rq'[q] = c
  BY <1>1, <1>2 DEF CallType
<1>4. /\ MemberType' /\ config' = config
      /\ inbox' \subseteq Message /\ exec' \in [Requests -> Nat]
      /\ \A p \in Requests \ {q} : Msgs(p)' = Msgs(p) /\ exec'[p] = exec[p]
  BY <1>1, MemberStays DEF Settles
<1>5. Tries(q)'
  <2>1. rq[q].op # "broadcast" => One(q) \/ (config = "force" /\ Two(q))
    BY <1>1, CallerParts, OneIsTwo DEF Tries, Spent, Sending, Pcs
  <2>2. rq[q].op # "broadcast" => One(q)' \/ (config = "force" /\ Two(q)')
    BY <2>1 DEF Settles
  <2>3. One(q)' => Two(q)'
    BY DEF One, Two, Single
  <2> QED
    BY <1>2, <1>3, <1>4, <2>2, <2>3 DEF Tries, Spent, Sending
<1>6. c.pc # "pool" /\ ~(c.pc \in {"dial", "pool", "send"} \/ c.attempt = 2)
  BY <1>2
<1> QED
  BY <1>2, <1>4, <1>5, <1>6, CallerInv

LEMMA DoneInv ==
    ASSUME ClusterInv, NEW q \in Requests, rq[q].pc # "pool", Goes(q, "done"),
           UNCHANGED <<inbox, exec, steady, membership>>, GrainType', NetShrinks
    PROVE  ClusterInv'
<1>1. Settles(q) /\ UNCHANGED <<steady, membership>>
  BY QuietSettles DEF ClusterInv
<1> QED
  BY <1>1, EndsInv

(* An attempt fails; when the lease is taken, it was not executed.         *)
LEMMA ErrorInv ==
    ASSUME ClusterInv, NEW q \in Requests, rq[q].pc \in {"place", "dial", "send", "wait"},
           NEW err, Fails(q, err), Settles(q),
           err = "taken" => (One(q) => Clean(q)'),
           UNCHANGED <<steady, membership>>, GrainType', NetShrinks
    PROVE  ClusterInv'
<1>1. MemberType /\ GrainType /\ CallType /\ Tries(q) /\ Routed(q)
  BY DEF ClusterInv
<1>2. PICK x \in Pcs : x = AfterError(q, err)
  BY <1>1, ErrorLeads
<1>3. /\ rq[q].op = "broadcast" => x = "place"
      /\ rq[q].op = "post" => x = "done"
      /\ rq[q].op = "call" =>
            \/ x = "done"
            \/ x = "forward" /\ rq[q].attempt = 1 /\ err = "taken"
            \/ x = "force" /\ rq[q].attempt = 2 /\ config = "force"
  BY <1>1, <1>2, ErrorLeads
<1>4. Goes(q, x)
  BY <1>2 DEF Fails
<1>5. PICK c \in Caller :
        /\ rq' = [rq EXCEPT ![q] = c]
        /\ c.pc = x /\ c.op = rq[q].op
        /\ x = "done" => c.attempt = 1
        /\ x # "done" => c.attempt = rq[q].attempt /\ c.to = rq[q].to
  BY <1>1, <1>4, GoesTo
<1>6. rq'[q] = c
  BY <1>1, <1>5 DEF CallType
<1>7. /\ MemberType' /\ config' = config
      /\ inbox' \subseteq Message /\ exec' \in [Requests -> Nat]
      /\ \A p \in Requests \ {q} : Msgs(p)' = Msgs(p) /\ exec'[p] = exec[p]
  BY <1>1, MemberStays DEF Settles
<1>8. Tries(q)'
  <2>1. rq[q].op # "broadcast" => One(q) \/ (config = "force" /\ Two(q) /\ rq[q].attempt = 3)
    BY <1>1, CallerParts, OneIsTwo DEF Tries, Spent, Sending
  <2>2. rq[q].op # "broadcast" => One(q)' \/ (config = "force" /\ Two(q)' /\ rq[q].attempt = 3)
    BY <2>1 DEF Settles
  <2>3. rq[q].op # "broadcast" /\ rq[q].attempt = 1 /\ err = "taken" => Clean(q)'
    BY <2>1
  <2>4. One(q)' => Two(q)'
    BY DEF One, Two, Single
  <2> QED
    BY <1>1, <1>3, <1>5, <1>6, <1>7, <2>2, <2>3, <2>4, CallerParts DEF Tries, Spent, Sending
<1>9. c.pc \notin {"dial", "pool", "send"}
  BY <1>1, <1>3, <1>5, CallerParts
<1>10. c.attempt = 2 => c.to \in Nodes
  BY <1>1, <1>5 DEF Routed
<1> QED
  BY <1>5, <1>7, <1>8, <1>9, <1>10, CallerInv

LEMMA FailsInv ==
    ASSUME ClusterInv, NEW q \in Requests, rq[q].pc \in {"place", "dial", "send", "wait"},
           NEW err, err # "taken", Fails(q, err),
           UNCHANGED <<inbox, exec, steady, membership>>, GrainType', NetShrinks
    PROVE  ClusterInv'
<1>1. Settles(q) /\ UNCHANGED <<steady, membership>> /\ (err = "taken" => (One(q) => Clean(q)'))
  BY QuietSettles DEF ClusterInv
<1> QED
  BY <1>1, ErrorInv

LEMMA WaitFailsInv ==
    ASSUME ClusterInv, NEW q \in Requests, SendFails(q) \/ WaitFails(q)
    PROVE  ClusterInv'
<1>1. MemberType /\ GrainType /\ NetType /\ CallType /\ Routed(q)
  BY DEF ClusterInv
<1>2. PICK err \in {"rpc", "timeout"} :
        /\ rq[q].pc \in {"send", "wait"} /\ Fails(q, err) /\ DropClient(q)
        /\ UNCHANGED <<steady, membership, grain, inbox, exec>>
  BY DEF SendFails, WaitFails
<1>3. NetShrinks /\ GrainType'
  BY <1>1, <1>2, DropShrinks DEF grain, GrainType
<1>4. rq[q].pc \in {"place", "dial", "send", "wait"} /\ err # "taken"
  BY <1>2
<1>5. UNCHANGED <<inbox, exec, steady, membership>>
  BY <1>2
<1> QED
  BY <1>2, <1>3, <1>4, <1>5, FailsInv

LEMMA PlaceNowhereInv ==
    ASSUME ClusterInv, NEW q \in Requests, PlaceNowhere(q) \/ ConnectFails(q)
    PROVE  ClusterInv'
<1>1. GrainType /\ NetType
  BY DEF ClusterInv
<1>2. /\ rq[q].pc \in {"place", "dial"} /\ Fails(q, "route")
      /\ UNCHANGED <<steady, membership, grain, net, inbox, exec>>
  BY DEF PlaceNowhere, ConnectFails, Placing
<1>3. NetShrinks /\ GrainType'
  BY <1>1, <1>2, ShrinksOrStays DEF grain, GrainType
<1>4. UNCHANGED <<inbox, exec, steady, membership>> /\ rq[q].pc \in {"place", "dial", "send", "wait"}
  BY <1>2
<1> QED
  BY <1>2, <1>3, <1>4, FailsInv

(* A caller that has not sent yet goes on without sending.                 *)
LEMMA SendingOn ==
    ASSUME CallType, NEW q \in Requests, Tries(q), NEW c \in Caller, rq' = [rq EXCEPT ![q] = c],
           rq[q].pc \in Sending, c.pc \in Sending, c.op = rq[q].op, c.attempt = rq[q].attempt,
           UNCHANGED <<inbox, exec, config>>
    PROVE  Tries(q)'
<1>1. rq'[q] = c
  BY DEF CallType
<1> QED
  BY <1>1, Quiet DEF Tries, Spent, Sending

LEMMA PlaceRemoteInv ==
    ASSUME ClusterInv, NEW q \in Requests, PlaceRemote(q)
    PROVE  ClusterInv'
<1>1. MemberType /\ GrainType /\ NetType /\ CallType /\ Tries(q) /\ rq[q] \in Caller
  BY CallerParts DEF ClusterInv
<1>2. /\ rq[q].pc = "place" /\ Preferred(rq[q].src) # NoNode
      /\ rq' = [rq EXCEPT ![q].pc = "dial", ![q].to = Preferred(rq[q].src)]
      /\ UNCHANGED <<steady, membership, grain, net, inbox, exec>>
  BY DEF PlaceRemote, Placing
<1>3. Preferred(rq[q].src) \in Nodes
  <2>1. view[rq[q].src] \in SUBSET Nodes /\ IsRing(ring)
    BY <1>1, CallerParts, ClusterAssumption DEF MemberType
  <2> QED
    BY <1>2, <2>1, PlaceType DEF Preferred
<1>4. PICK c \in Caller : /\ rq' = [rq EXCEPT ![q] = c] /\ c.pc = "dial" /\ c.to \in Nodes
                          /\ c.op = rq[q].op /\ c.attempt = rq[q].attempt
  <2> DEFINE n == Preferred(rq[q].src)
             c == [rq[q] EXCEPT !.pc = "dial", !.to = n]
  <2>1. rq' = [rq EXCEPT ![q] = c]
    BY <1>1, <1>2 DEF CallType
  <2>2. n \in Nodes
    BY <1>3
  <2> HIDE DEF n
  <2>3. c \in Caller /\ c.pc = "dial" /\ c.to \in Nodes /\ c.op = rq[q].op /\ c.attempt = rq[q].attempt
    BY <1>1, <2>2 DEF Caller, Pcs
  <2> HIDE DEF c
  <2> QED
    BY <2>1, <2>3
<1>5. /\ MemberType' /\ GrainType' /\ config' = config /\ NetShrinks
      /\ inbox' \subseteq Message /\ exec' \in [Requests -> Nat]
      /\ \A p \in Requests \ {q} : Msgs(p)' = Msgs(p) /\ exec'[p] = exec[p]
  BY <1>1, <1>2, MemberStays, ShrinksOrStays, Quiet DEF grain, GrainType, CallType
<1>6. Tries(q)'
  BY <1>1, <1>2, <1>4, <1>5, SendingOn DEF Sending
<1> QED
  BY <1>2, <1>4, <1>5, <1>6, CallerInv

LEMMA PlaceLocalInv ==
    ASSUME ClusterInv, NEW q \in Requests, PlaceLocal(q)
    PROVE  ClusterInv'
<1>1. MemberType /\ GrainType /\ NetType /\ CallType /\ Tries(q) /\ Routed(q)
  BY DEF ClusterInv
<1>2. rq[q].pc = "place" /\ rq[q].op \in {"call", "post"}
      /\ UNCHANGED <<steady, membership, grain, net, exec>>
  BY <1>1, CallerParts DEF PlaceLocal, Placing
<1>3. MemberType' /\ GrainType' /\ config' = config /\ NetShrinks
  BY <1>1, <1>2, MemberStays, ShrinksOrStays DEF grain, GrainType
<1>4. CASE inbox' = inbox \cup {Local(q)} /\ Goes(q, AfterSend(q))
  <2>1. PICK x \in {"wait", "done"} : x = AfterSend(q) /\ (rq[q].op = "post" => x = "done")
    BY <1>2 DEF AfterSend
  <2>2. PICK c \in Caller : /\ rq' = [rq EXCEPT ![q] = c] /\ c.pc = x /\ c.op = rq[q].op
                            /\ x = "done" => c.attempt = 1
                            /\ x # "done" => c.attempt = rq[q].attempt /\ c.to = rq[q].to
    BY <1>1, <1>4, <2>1, GoesTo DEF Pcs
  <2>3. Local(q) \in Message /\ Local(q).q = q
    BY <1>1, CallerParts, ClusterAssumption DEF Local, Message
  <2>4. /\ inbox' \subseteq Message /\ exec' \in [Requests -> Nat]
        /\ \A p \in Requests \ {q} : Msgs(p)' = Msgs(p) /\ exec'[p] = exec[p]
        /\ Clean(q) => One(q)'
        /\ One(q) => Two(q)'
    BY <1>1, <1>2, <1>4, <2>3, Sent DEF CallType
  <2>5. Tries(q)'
    <3>1. rq'[q] = c
      BY <1>1, <2>2 DEF CallType
    <3>2. One(q)' => Two(q)'
      BY DEF One, Two, Single
    <3> QED
      BY <1>1, <1>2, <1>3, <2>1, <2>2, <2>4, <3>1, <3>2, CallerParts DEF Tries, Spent, Sending
  <2>6. c.attempt = 2 => c.to \in Nodes
    BY <1>1, <2>2 DEF Routed
  <2>7. c.pc \notin {"dial", "pool", "send"}
    BY <2>1, <2>2
  <2> QED
    BY <1>2, <1>3, <2>2, <2>4, <2>5, <2>6, <2>7, CallerInv
<1>5. CASE Fails(q, "refused") /\ UNCHANGED inbox
  <2>1. UNCHANGED <<inbox, exec, steady, membership>> /\ rq[q].pc \in {"place", "dial", "send", "wait"}
    BY <1>2, <1>5
  <2> QED
    BY <1>3, <1>5, <2>1, FailsInv
<1> QED
  BY <1>4, <1>5 DEF PlaceLocal

(* A broadcast is not bound to be executed once: only types and routes.    *)
LEMMA BroadcastTries ==
    ASSUME NEW q \in Requests, CallType, rq[q].op = "broadcast", NEW c,
           rq' = [rq EXCEPT ![q] = c], c.op = "broadcast"
    PROVE  Tries(q)'
<1>1. rq'[q] = c
  BY DEF CallType
<1> QED
  BY <1>1 DEF Tries

LEMMA BroadcastInv ==
    ASSUME ClusterInv, NEW q \in Requests, BroadcastLocal(q) \/ BroadcastNext(q)
    PROVE  ClusterInv'
<1>1. MemberType /\ GrainType /\ NetType /\ CallType /\ Routed(q) /\ rq[q] \in Caller
  BY CallerParts DEF ClusterInv
<1>2. rq[q].pc = "place" /\ rq[q].op = "broadcast"
      /\ UNCHANGED <<steady, membership, grain, net, exec>>
  BY DEF BroadcastLocal, BroadcastNext
<1>3. MemberType' /\ GrainType' /\ config' = config /\ NetShrinks
  BY <1>1, <1>2, MemberStays, ShrinksOrStays DEF grain, GrainType
<1>4. CASE Goes(q, "done") /\ UNCHANGED inbox
  <2>1. UNCHANGED <<inbox, exec, steady, membership>> /\ rq[q].pc # "pool"
    BY <1>2, <1>4
  <2> QED
    BY <1>3, <1>4, <2>1, DoneInv
<1>5. CASE /\ inbox' = inbox \cup {Local(q)}
           /\ rq' = [rq EXCEPT ![q].to = rq[q].src, ![q].todo = view[rq[q].src] \ {rq[q].src}]
  <2> DEFINE S == view[rq[q].src] \ {rq[q].src}
             n == rq[q].src
             c == [rq[q] EXCEPT !.to = n, !.todo = S]
  <2>1. rq' = [rq EXCEPT ![q] = c]
    BY <1>1, <1>5 DEF CallType
  <2>2. S \in SUBSET Nodes /\ n \in Nodes
    BY <1>1, CallerParts DEF MemberType
  <2> HIDE DEF S, n
  <2>3. c \in Caller /\ c.pc = "place" /\ c.op = "broadcast" /\ c.to \in Nodes
    BY <1>1, <1>2, <2>2 DEF Caller
  <2> HIDE DEF c
  <2>4. Local(q) \in Message /\ Local(q).q = q
    BY <1>1, CallerParts, ClusterAssumption DEF Local, Message
  <2>5. /\ inbox' \subseteq Message /\ exec' \in [Requests -> Nat]
        /\ \A p \in Requests \ {q} : Msgs(p)' = Msgs(p) /\ exec'[p] = exec[p]
    BY <1>1, <1>2, <1>5, <2>4, Sent DEF CallType
  <2>6. Tries(q)'
    BY <1>1, <1>2, <2>1, <2>3, BroadcastTries
  <2> QED
    BY <1>2, <1>3, <2>1, <2>3, <2>5, <2>6, CallerInv
<1>6. ASSUME NEW m \in rq[q].todo, UNCHANGED inbox,
             rq' = [rq EXCEPT ![q].pc = "dial", ![q].to = m, ![q].todo = @ \ {m}]
      PROVE  ClusterInv'
  <2> DEFINE S == rq[q].todo \ {m}
             c == [rq[q] EXCEPT !.pc = "dial", !.to = m, !.todo = S]
  <2>1. rq' = [rq EXCEPT ![q] = c]
    BY <1>1, <1>6 DEF CallType
  <2>2. S \in SUBSET Nodes /\ m \in Nodes
    BY <1>1, <1>6 DEF Caller
  <2> HIDE DEF S
  <2>3. c \in Caller /\ c.pc = "dial" /\ c.op = "broadcast" /\ c.to \in Nodes
    BY <1>1, <1>2, <2>2 DEF Caller, Pcs
  <2> HIDE DEF c
  <2>4. /\ inbox' \subseteq Message /\ exec' \in [Requests -> Nat]
        /\ \A p \in Requests \ {q} : Msgs(p)' = Msgs(p) /\ exec'[p] = exec[p]
    BY <1>1, <1>2, <1>6, Quiet DEF CallType
  <2>5. Tries(q)'
    BY <1>1, <1>2, <2>1, <2>3, BroadcastTries
  <2> QED
    BY <1>2, <1>3, <2>1, <2>3, <2>4, <2>5, CallerInv
<1> QED
  BY <1>4, <1>5, <1>6 DEF BroadcastLocal, BroadcastNext

(* The pooled client.                                                      *)
LEMMA UsePooledInv ==
    ASSUME ClusterInv, NEW q \in Requests, UsePooled(q)
    PROVE  ClusterInv'
<1>1. MemberType /\ GrainType /\ NetType /\ CallType /\ Tries(q) /\ Routed(q) /\ rq[q] \in Caller
  BY CallerParts DEF ClusterInv
<1>2. /\ rq[q].pc = "dial" /\ rq' = [rq EXCEPT ![q].pc = "send", ![q].k = Pooled(q)]
      /\ UNCHANGED <<steady, membership, grain, net, inbox, exec>>
  BY DEF UsePooled
<1>3. PICK c \in Caller : /\ rq' = [rq EXCEPT ![q] = c] /\ c.pc = "send" /\ c.to \in Nodes
                          /\ c.op = rq[q].op /\ c.attempt = rq[q].attempt
  <2> DEFINE j == Pooled(q)
             c == [rq[q] EXCEPT !.pc = "send", !.k = j]
  <2>1. rq' = [rq EXCEPT ![q] = c]
    BY <1>1, <1>2 DEF CallType
  <2>2. rq[q].to \in Nodes /\ rq[q].src \in Nodes
    BY <1>1, <1>2, CallerParts DEF Routed
  <2>3. j \in 0..MaxClients
    BY <1>1, <2>2, ClusterAssumption DEF Pooled, NetType
  <2> HIDE DEF j
  <2>4. c \in Caller /\ c.pc = "send" /\ c.to \in Nodes /\ c.op = rq[q].op /\ c.attempt = rq[q].attempt
    BY <1>1, <2>2, <2>3 DEF Caller, Pcs
  <2> HIDE DEF c
  <2> QED
    BY <2>1, <2>4
<1>4. /\ MemberType' /\ GrainType' /\ config' = config /\ NetShrinks
      /\ inbox' \subseteq Message /\ exec' \in [Requests -> Nat]
      /\ \A p \in Requests \ {q} : Msgs(p)' = Msgs(p) /\ exec'[p] = exec[p]
  BY <1>1, <1>2, MemberStays, ShrinksOrStays, Quiet DEF grain, GrainType, CallType
<1>5. Tries(q)'
  BY <1>1, <1>2, <1>3, <1>4, SendingOn DEF Sending
<1> QED
  BY <1>2, <1>3, <1>4, <1>5, CallerInv

(* A new connection is not in the pool yet; its caller remembers it.       *)
LEMMA ConnectInv ==
    ASSUME ClusterInv, NEW q \in Requests, Connect(q)
    PROVE  ClusterInv'
<1>1. /\ MemberType /\ GrainType /\ NetType /\ CallType /\ Tries(q) /\ Routed(q) /\ rq[q] \in Caller
      /\ NoOrphanClient /\ \A p \in Requests : Dialed(p)
  BY CallerParts DEF ClusterInv
<1> DEFINE new == [at |-> rq[q].src, to |-> rq[q].to, open |-> TRUE]
           j == Len(client) + 1
<1>2. /\ rq[q].pc = "dial" /\ Len(client) < MaxClients
      /\ client' = Append(client, new) /\ rq' = [rq EXCEPT ![q].pc = "pool", ![q].k = Len(client')]
      /\ UNCHANGED <<steady, membership, grain, pool, inbox, exec>>
  BY DEF Connect
<1>3. rq[q].to \in Nodes /\ rq[q].src \in Nodes
  BY <1>1, <1>2, CallerParts DEF Routed
<1>4. new \in Client /\ new.at = rq[q].src /\ new.to = rq[q].to
  BY <1>3 DEF Client
<1>5. client \in Seq(Client) /\ Len(client) \in Nat /\ DOMAIN client = 1..Len(client)
  BY <1>1 DEF NetType
<1> HIDE DEF new
<1>6. /\ client' \in Seq(Client) /\ Len(client') = j /\ DOMAIN client' = 1..j
      /\ client'[j] = new /\ \A k \in DOMAIN client : client'[k] = client[k]
  BY <1>2, <1>4, <1>5
<1>7. NetType'
  <2>1. Len(client') <= MaxClients /\ 0..Len(client) \subseteq 0..Len(client')
    BY <1>2, <1>5, <1>6, ClusterAssumption
  <2>2. pool' \in [Nodes -> [Nodes -> 0..Len(client)]]
    BY <1>1, <1>2 DEF NetType
  <2>3. pool' \in [Nodes -> [Nodes -> 0..Len(client')]]
    BY <2>1, <2>2
  <2> QED
    BY <1>6, <2>1, <2>3 DEF NetType
<1>8. PICK c \in Caller : /\ rq' = [rq EXCEPT ![q] = c] /\ c.pc = "pool" /\ c.k = j
                          /\ c.to = rq[q].to /\ c.src = rq[q].src
                          /\ c.op = rq[q].op /\ c.attempt = rq[q].attempt
  <2> DEFINE c == [rq[q] EXCEPT !.pc = "pool", !.k = j]
  <2>1. rq' = [rq EXCEPT ![q] = c]
    BY <1>1, <1>2, <1>6 DEF CallType
  <2>2. j \in 0..MaxClients
    BY <1>2, <1>5, ClusterAssumption
  <2> HIDE DEF j
  <2>3. /\ c \in Caller /\ c.pc = "pool" /\ c.k = j /\ c.to = rq[q].to /\ c.src = rq[q].src
        /\ c.op = rq[q].op /\ c.attempt = rq[q].attempt
    BY <1>1, <2>2 DEF Caller, Pcs
  <2> HIDE DEF c
  <2> QED
    BY <2>1, <2>3
<1>9. /\ MemberType' /\ GrainType' /\ config' = config
      /\ inbox' \subseteq Message /\ exec' \in [Requests -> Nat]
      /\ \A p \in Requests \ {q} : Msgs(p)' = Msgs(p) /\ exec'[p] = exec[p]
  BY <1>1, <1>2, MemberStays, Quiet DEF grain, GrainType, CallType
<1>10. Tries(q)'
  BY <1>1, <1>2, <1>8, <1>9, SendingOn DEF Sending
<1>11. /\ CallType' /\ \A p \in Requests : Tries(p)' /\ Routed(p)'
       /\ rq'[q] = c /\ \A p \in Requests \ {q} : rq'[p] = rq[p]
  BY <1>3, <1>8, <1>9, <1>10, CallerMoves
<1>12. \A p \in Requests : Dialed(p)'
  <2> SUFFICES ASSUME NEW p \in Requests PROVE Dialed(p)'
    OBVIOUS
  <2>1. CASE p = q
    BY <2>1, <1>4, <1>5, <1>6, <1>8, <1>11 DEF Dialed
  <2>2. CASE p # q
    BY <2>2, <1>1, <1>5, <1>6, <1>11 DEF Dialed
  <2> QED
    BY <2>1, <2>2
<1>13. NoOrphanClient'
  <2> SUFFICES ASSUME NEW k \in DOMAIN client', client'[k].open
               PROVE  \/ pool'[client'[k].at][client'[k].to] = k
                      \/ \E p \in Requests : rq'[p].pc = "pool" /\ rq'[p].k = k
    BY DEF NoOrphanClient
  <2>1. CASE k = j
    BY <2>1, <1>8, <1>11
  <2>2. CASE k # j
    <3>1. k \in DOMAIN client /\ client'[k] = client[k]
      BY <2>2, <1>5, <1>6
    <3>2. CASE pool[client[k].at][client[k].to] = k
      BY <3>1, <3>2, <1>2
    <3>3. ASSUME NEW p \in Requests, rq[p].pc = "pool", rq[p].k = k
          PROVE  rq'[p].pc = "pool" /\ rq'[p].k = k
      BY <3>3, <1>2, <1>11
    <3> QED
      BY <3>1, <3>2, <3>3, <1>1 DEF NoOrphanClient
  <2> QED
    BY <2>1, <2>2
<1> QED
  BY <1>7, <1>9, <1>11, <1>12, <1>13 DEF ClusterInv

(* The new client is pooled, or closed for the one that is.                *)
LEMMA PutPoolInv ==
    ASSUME ClusterInv, NEW q \in Requests, PutPool(q)
    PROVE  ClusterInv'
<1>1. /\ MemberType /\ GrainType /\ NetType /\ CallType /\ Tries(q) /\ Routed(q) /\ rq[q] \in Caller
      /\ NoOrphanClient /\ \A p \in Requests : Dialed(p)
  BY CallerParts DEF ClusterInv
<1>2. rq[q].pc = "pool" /\ UNCHANGED <<steady, membership, grain, inbox, exec>>
  BY DEF PutPool
<1>3. /\ rq[q].to \in Nodes /\ rq[q].src \in Nodes /\ rq[q].k \in DOMAIN client
      /\ client[rq[q].k].at = rq[q].src /\ client[rq[q].k].to = rq[q].to
  BY <1>1, <1>2, CallerParts DEF Routed, Dialed
<1>4. client \in Seq(Client) /\ Len(client) \in Nat /\ DOMAIN client = 1..Len(client)
  BY <1>1 DEF NetType
<1>5. Pooled(q) \in 0..MaxClients
  BY <1>1, <1>3, <1>4, ClusterAssumption DEF Pooled, NetType
<1>6. PICK c \in Caller : /\ rq' = [rq EXCEPT ![q] = c] /\ c.pc = "send"
                          /\ c.to = rq[q].to /\ c.op = rq[q].op /\ c.attempt = rq[q].attempt
  <2> DEFINE j == IF Pooled(q) # 0 THEN Pooled(q) ELSE rq[q].k
             c == [rq[q] EXCEPT !.pc = "send", !.k = j]
  <2>1. rq' = [rq EXCEPT ![q] = c]
    BY <1>1 DEF PutPool, CallType, Caller
  <2>2. j \in 0..MaxClients
    BY <1>1, <1>5 DEF Caller
  <2> HIDE DEF j
  <2>3. /\ c \in Caller /\ c.pc = "send" /\ c.to = rq[q].to
        /\ c.op = rq[q].op /\ c.attempt = rq[q].attempt
    BY <1>1, <2>2 DEF Caller, Pcs
  <2> HIDE DEF c
  <2> QED
    BY <2>1, <2>3
<1>7. /\ MemberType' /\ GrainType' /\ config' = config
      /\ inbox' \subseteq Message /\ exec' \in [Requests -> Nat]
      /\ \A p \in Requests \ {q} : Msgs(p)' = Msgs(p) /\ exec'[p] = exec[p]
  BY <1>1, <1>2, MemberStays, Quiet DEF grain, GrainType, CallType
<1>8. Tries(q)'
  BY <1>1, <1>2, <1>6, <1>7, SendingOn DEF Sending
<1>9. /\ CallType' /\ \A p \in Requests : Tries(p)' /\ Routed(p)'
      /\ rq'[q] = c /\ \A p \in Requests \ {q} : rq'[p] = rq[p]
  BY <1>3, <1>6, <1>7, <1>8, CallerMoves
<1>10. CASE Pooled(q) # 0
  <2>1. client' = ClosedAll({rq[q].k}) /\ pool' = pool
    BY <1>10 DEF PutPool
  <2>2. /\ client' \in Seq(Client) /\ Len(client') = Len(client) /\ DOMAIN client' = DOMAIN client
        /\ \A k \in DOMAIN client :
              /\ client'[k].at = client[k].at /\ client'[k].to = client[k].to
              /\ client'[k].open => client[k].open /\ k # rq[q].k
    BY <1>1, <2>1, ClosedType
  <2>3. NetType'
    BY <1>1, <2>1, <2>2 DEF NetType
  <2>4. \A p \in Requests : Dialed(p)'
    BY <1>1, <1>6, <1>9, <2>2 DEF Dialed
  <2>5. NoOrphanClient'
    <3> SUFFICES ASSUME NEW k \in DOMAIN client', client'[k].open
                 PROVE  \/ pool'[client'[k].at][client'[k].to] = k
                        \/ \E p \in Requests : rq'[p].pc = "pool" /\ rq'[p].k = k
      BY DEF NoOrphanClient
    <3>1. /\ k \in DOMAIN client /\ client[k].open /\ k # rq[q].k
          /\ client'[k].at = client[k].at /\ client'[k].to = client[k].to
      BY <2>2
    <3>2. ASSUME NEW p \in Requests, rq[p].pc = "pool", rq[p].k = k
          PROVE  rq'[p].pc = "pool" /\ rq'[p].k = k
      BY <3>1, <3>2, <1>9
    <3> QED
      BY <3>1, <3>2, <2>1, <1>1 DEF NoOrphanClient
  <2> QED
    BY <1>7, <1>9, <2>3, <2>4, <2>5 DEF ClusterInv
<1>11. CASE Pooled(q) = 0
  <2>1. client' = client /\ pool' = [pool EXCEPT ![rq[q].src][rq[q].to] = rq[q].k]
    BY <1>11 DEF PutPool
  <2>2. /\ pool' \in [Nodes -> [Nodes -> 0..Len(client)]]
        /\ pool'[rq[q].src][rq[q].to] = rq[q].k
        /\ \A n, m \in Nodes : n # rq[q].src \/ m # rq[q].to => pool'[n][m] = pool[n][m]
    <3>1. rq[q].k \in 0..Len(client)
      BY <1>3, <1>4
    <3> QED
      BY <1>1, <1>3, <2>1, <3>1 DEF NetType
  <2>3. NetType'
    BY <1>1, <2>1, <2>2 DEF NetType
  <2>4. \A p \in Requests : Dialed(p)'
    BY <1>1, <1>6, <1>9, <2>1 DEF Dialed
  <2>5. NoOrphanClient'
    <3> SUFFICES ASSUME NEW k \in DOMAIN client, client[k].open
                 PROVE  \/ pool'[client[k].at][client[k].to] = k
                        \/ \E p \in Requests : rq'[p].pc = "pool" /\ rq'[p].k = k
      BY <2>1 DEF NoOrphanClient
    <3>1. CASE k = rq[q].k
      BY <3>1, <1>3, <2>2
    <3>2. CASE k # rq[q].k
      <4>1. k # 0 /\ client[k].at \in Nodes /\ client[k].to \in Nodes
        <5>1. client[k] \in Client
          BY <1>4
        <5> QED
          BY <5>1, <1>4 DEF Client
      <4>2. CASE pool[client[k].at][client[k].to] = k
        BY <4>1, <4>2, <1>11, <2>2 DEF Pooled
      <4>3. ASSUME NEW p \in Requests, rq[p].pc = "pool", rq[p].k = k
            PROVE  rq'[p].pc = "pool" /\ rq'[p].k = k
        BY <3>2, <4>3, <1>9
      <4> QED
        BY <4>2, <4>3, <1>1 DEF NoOrphanClient
    <3> QED
      BY <3>1, <3>2
  <2> QED
    BY <1>7, <1>9, <2>3, <2>4, <2>5 DEF ClusterInv
<1> QED
  BY <1>10, <1>11

(* The request is sent: one message more for its caller.                   *)
LEMMA SendRequestInv ==
    ASSUME ClusterInv, NEW q \in Requests, SendRequest(q)
    PROVE  ClusterInv'
<1>1. /\ MemberType /\ GrainType /\ NetType /\ CallType /\ Tries(q) /\ Routed(q) /\ rq[q] \in Caller
      /\ rq[q].op \in {"call", "post", "broadcast"}
  BY CallerParts DEF ClusterInv
<1> DEFINE m == [q |-> q, at |-> rq[q].to, attempt |-> rq[q].attempt, k |-> rq[q].k]
<1>2. /\ rq[q].pc = "send" /\ inbox' = inbox \cup {m}
      /\ UNCHANGED <<steady, membership, grain, net, exec>>
      /\ IF rq[q].op = "call" THEN rq' = [rq EXCEPT ![q].pc = "wait"] ELSE Goes(q, AfterSend(q))
  BY DEF SendRequest
<1>3. m \in Message /\ m.q = q
  BY <1>1, <1>2 DEF Routed, Caller, Message
<1>4. MemberType' /\ GrainType' /\ config' = config /\ NetShrinks
  BY <1>1, <1>2, MemberStays, ShrinksOrStays DEF grain, GrainType
<1>5. /\ inbox' \subseteq Message /\ exec' \in [Requests -> Nat]
      /\ \A p \in Requests \ {q} : Msgs(p)' = Msgs(p) /\ exec'[p] = exec[p]
      /\ Clean(q) => One(q)'
      /\ One(q) => Two(q)'
  BY <1>1, <1>2, <1>3, Sent DEF CallType
<1>6. One(q)' => Two(q)'
  BY DEF One, Two, Single
<1>7. CASE rq[q].op = "call"
  <2> DEFINE c == [rq[q] EXCEPT !.pc = "wait"]
  <2>1. rq' = [rq EXCEPT ![q] = c]
    BY <1>1, <1>2, <1>7 DEF CallType
  <2>2. c \in Caller /\ c.pc = "wait" /\ c.op = "call" /\ c.attempt = rq[q].attempt /\ c.to = rq[q].to
    BY <1>1, <1>7 DEF Caller, Pcs
  <2> HIDE DEF c
  <2>3. rq'[q] = c
    BY <1>1, <2>1 DEF CallType
  <2>4. Tries(q)'
    BY <1>1, <1>2, <1>4, <1>5, <1>6, <1>7, <2>2, <2>3 DEF Tries, Spent, Sending
  <2>5. c.to \in Nodes
    BY <1>1, <1>2, <2>2 DEF Routed
  <2> QED
    BY <1>2, <1>4, <1>5, <2>1, <2>2, <2>4, <2>5, CallerInv
<1>8. CASE rq[q].op # "call"
  <2>1. PICK x \in {"done", "place"} : x = AfterSend(q) /\ (rq[q].op = "post" => x = "done")
    BY <1>1, <1>8 DEF AfterSend
  <2>2. PICK c \in Caller : /\ rq' = [rq EXCEPT ![q] = c] /\ c.pc = x /\ c.op = rq[q].op
                            /\ x = "done" => c.attempt = 1
                            /\ x # "done" => c.attempt = rq[q].attempt /\ c.to = rq[q].to
    BY <1>1, <1>2, <1>8, <2>1, GoesTo DEF Pcs
  <2>3. rq'[q] = c
    BY <1>1, <2>2 DEF CallType
  <2>4. Tries(q)'
    BY <1>1, <1>2, <1>4, <1>5, <1>6, <1>8, <2>1, <2>2, <2>3 DEF Tries, Spent, Sending
  <2>5. c.attempt = 2 => c.to \in Nodes
    BY <1>1, <2>2 DEF Routed
  <2>6. c.pc \notin {"dial", "pool", "send"}
    BY <2>1, <2>2
  <2> QED
    BY <1>2, <1>4, <1>5, <2>2, <2>4, <2>5, <2>6, CallerInv
<1> QED
  BY <1>7, <1>8

(* tryForwardCall, where the first try was refused.                        *)
LEMMA ForwardInv ==
    ASSUME ClusterInv, NEW q \in Requests, Forward(q)
    PROVE  ClusterInv'
<1>1. /\ MemberType /\ GrainType /\ NetType /\ CallType /\ Tries(q) /\ Routed(q) /\ rq[q] \in Caller
      /\ rq[q].op \in {"call", "post", "broadcast"}
  BY CallerParts DEF ClusterInv
<1>2. rq[q].pc = "forward" /\ UNCHANGED <<steady, membership, grain, net, inbox, exec>>
  BY DEF Forward
<1>3. /\ MemberType' /\ GrainType' /\ config' = config /\ NetShrinks
      /\ inbox' \subseteq Message /\ exec' \in [Requests -> Nat]
      /\ \A p \in Requests \ {q} : Msgs(p)' = Msgs(p) /\ exec'[p] = exec[p]
  BY <1>1, <1>2, MemberStays, ShrinksOrStays, Quiet DEF grain, GrainType, CallType
<1>4. rq[q].op # "broadcast" => rq[q].op = "call" /\ rq[q].attempt = 1 /\ Clean(q)
  BY <1>1, <1>2 DEF Tries, Spent
<1>5. CASE rq[q].taken \in view[rq[q].src] \ {rq[q].src}
  <2> DEFINE n == rq[q].taken
             c == [rq[q] EXCEPT !.pc = "dial", !.to = n, !.attempt = 2, !.taken = NoNode]
  <2>1. rq' = [rq EXCEPT ![q] = c]
    BY <1>1, <1>5 DEF CallType, Forward
  <2>2. n \in Nodes
    BY <1>1, <1>5, CallerParts DEF MemberType
  <2> HIDE DEF n
  <2>3. c \in Caller /\ c.pc = "dial" /\ c.to \in Nodes /\ c.op = rq[q].op /\ c.attempt = 2
    <3>1. 2 \in 1..3 /\ n \in Nodes \cup {NoNode} /\ NoNode \in Nodes \cup {NoNode} /\ "dial" \in Pcs
      BY <2>2 DEF Pcs
    <3>2. c \in Caller
      BY <1>1, <3>1 DEF Caller
    <3> QED
      BY <1>1, <2>2, <3>2 DEF Caller
  <2> HIDE DEF c
  <2>4. rq'[q] = c
    BY <1>1, <2>1 DEF CallType
  <2>5. Tries(q)'
    BY <1>1, <1>2, <1>3, <1>4, <2>3, <2>4, Quiet DEF Tries, Spent, Sending
  <2> QED
    BY <1>2, <1>3, <2>1, <2>3, <2>5, CallerInv
<1>6. CASE Goes(q, AfterForward)
  <2>1. CASE config = "force"
    <3>1. Goes(q, "force")
      BY <1>6, <2>1 DEF AfterForward
    <3>2. PICK c \in Caller : /\ rq' = [rq EXCEPT ![q] = c] /\ c.pc = "force" /\ c.op = rq[q].op
                              /\ c.attempt = rq[q].attempt /\ c.to = rq[q].to
      BY <1>1, <3>1, GoesTo DEF Pcs
    <3>3. rq'[q] = c
      BY <1>1, <3>2 DEF CallType
    <3>4. Tries(q)'
      <4>1. rq[q].op # "broadcast" => One(q)'
        BY <1>2, <1>4, Quiet, OneIsTwo
      <4> QED
        BY <1>3, <1>4, <2>1, <3>2, <3>3, <4>1 DEF Tries, Spent, Sending
    <3>5. c.attempt = 2 => c.to \in Nodes
      BY <1>1, <3>2 DEF Routed
    <3> QED
      BY <1>2, <1>3, <3>2, <3>4, <3>5, CallerInv
  <2>2. CASE config # "force"
    <3>1. Goes(q, "done") /\ rq[q].pc # "pool" /\ UNCHANGED <<inbox, exec, steady, membership>>
      BY <1>2, <1>6, <2>2 DEF AfterForward
    <3> QED
      BY <1>3, <3>1, DoneInv
  <2> QED
    BY <2>1, <2>2
<1> QED
  BY <1>5, <1>6 DEF Forward

(* ForceRelease: the only way to a second execution.                       *)
LEMMA ForceReleaseInv ==
    ASSUME ClusterInv, NEW q \in Requests, ForceRelease(q)
    PROVE  ClusterInv'
<1>1. /\ MemberType /\ GrainType /\ NetType /\ CallType /\ Tries(q) /\ rq[q] \in Caller
      /\ rq[q].op \in {"call", "post", "broadcast"}
  BY CallerParts DEF ClusterInv
<1>2. /\ rq[q].pc = "force" /\ UNCHANGED <<steady, membership, active, net, inbox, exec>>
      /\ owner' \in {owner, NoNode}
  BY DEF ForceRelease
<1>3. /\ MemberType' /\ GrainType' /\ config' = config /\ NetShrinks
      /\ inbox' \subseteq Message /\ exec' \in [Requests -> Nat]
      /\ \A p \in Requests \ {q} : Msgs(p)' = Msgs(p) /\ exec'[p] = exec[p]
  BY <1>1, <1>2, MemberStays, ShrinksOrStays, Quiet DEF GrainType, CallType
<1>4. CASE rq' = [rq EXCEPT ![q].pc = "place", ![q].attempt = 3, ![q].to = NoNode]
  <2> DEFINE c == [rq[q] EXCEPT !.pc = "place", !.attempt = 3, !.to = NoNode]
  <2>1. rq' = [rq EXCEPT ![q] = c]
    BY <1>1, <1>4 DEF CallType
  <2>2. c \in Caller /\ c.pc = "place" /\ c.op = rq[q].op /\ c.attempt = 3
    <3>1. 3 \in 1..3 /\ NoNode \in Nodes \cup {NoNode} /\ "place" \in Pcs
      BY DEF Pcs
    <3>2. c \in Caller
      BY <1>1, <3>1 DEF Caller
    <3> QED
      BY <1>1, <3>2 DEF Caller
  <2> HIDE DEF c
  <2>3. rq'[q] = c
    BY <1>1, <2>1 DEF CallType
  <2>4. Tries(q)'
    BY <1>1, <1>2, <1>3, <2>2, <2>3, Quiet DEF Tries, Spent, Sending
  <2>5. c.pc # "pool" /\ ~(c.pc \in {"dial", "pool", "send"} \/ c.attempt = 2) /\ rq[q].pc # "pool"
    BY <1>2, <2>2
  <2> QED
    BY <1>2, <1>3, <2>1, <2>2, <2>4, <2>5, CallerInv
<1>5. CASE Goes(q, "done")
  <2>1. rq[q].pc # "pool" /\ UNCHANGED <<inbox, exec, steady, membership>>
    BY <1>2
  <2> QED
    BY <1>3, <1>5, <2>1, DoneInv
<1> QED
  BY <1>4, <1>5 DEF ForceRelease

(* A message is executed or refused and nobody waits for its answer.       *)
LEMMA UnheardInv ==
    ASSUME ClusterInv, NEW q \in Requests, Settles(q), ~Clean(q),
           UNCHANGED <<rq, net, steady, membership>>, GrainType'
    PROVE  ClusterInv'
<1>1. /\ MemberType /\ NetType /\ CallType /\ Tries(q) /\ Routed(q) /\ rq[q] \in Caller
      /\ \A p \in Requests : Tries(p) /\ Routed(p)
  BY CallerParts DEF ClusterInv
<1>2. MemberType' /\ config' = config /\ NetShrinks
  BY <1>1, MemberStays, ShrinksOrStays
<1>3. CallType' /\ \A p \in Requests : Routed(p)'
  BY <1>1 DEF Settles, CallType, Routed
<1>4. Tries(q)'
  <2>1. One(q) => One(q)'
    BY DEF Settles
  <2>2. Two(q) => Two(q)'
    BY DEF Settles
  <2> QED
    BY <1>1, <1>2, <2>1, <2>2 DEF Tries, Spent
<1>5. ASSUME NEW p \in Requests \ {q} PROVE Tries(p)'
  <2>1. Tries(p) /\ rq'[p] = rq[p] /\ Msgs(p)' = Msgs(p) /\ exec'[p] = exec[p]
    BY <1>1, <1>5 DEF Settles
  <2> QED
    BY <1>2, <2>1 DEF Tries, Spent, Clean, One, Two, Single
<1>6. NoOrphanClient' /\ \A p \in Requests : Dialed(p)'
  BY <1>2, ShrinkInv
<1> QED
  BY <1>2, <1>3, <1>4, <1>5, <1>6 DEF ClusterInv, NetShrinks

(* A message's answer is an error.                                         *)
LEMMA AnswersInv ==
    ASSUME ClusterInv, NEW m \in inbox, m.q \in Requests, Settles(m.q), ~Clean(m.q),
           NEW err, Answers(m, err),
           err = "taken" => (One(m.q) => Clean(m.q)'),
           UNCHANGED <<steady, membership>>, GrainType'
    PROVE  ClusterInv'
<1> PICK q \in Requests : q = m.q
  OBVIOUS
<1>1. NetType /\ CallType /\ Routed(q)
  BY DEF ClusterInv
<1>2. CASE Waits(m)
  <2>1. Fails(q, err) /\ DropClient(q) /\ rq[q].pc \in {"place", "dial", "send", "wait"}
    BY <1>2 DEF Answers, Waits
  <2>2. NetShrinks
    BY <1>1, <2>1, DropShrinks
  <2> QED
    BY <2>1, <2>2, ErrorInv
<1>3. CASE ~Waits(m)
  <2>1. UNCHANGED <<rq, net>>
    BY <1>3 DEF Answers
  <2> QED
    BY <2>1, UnheardInv
<1> QED
  BY <1>2, <1>3

LEMMA ExecutesInv ==
    ASSUME ClusterInv, NEW m \in inbox, Executes(m)
    PROVE  ClusterInv'
<1>1. GrainType /\ NetType /\ CallType
  BY DEF ClusterInv
<1>2. m.q \in Requests /\ m.at \in Nodes
  BY <1>1 DEF CallType, Message
<1>3. PICK q \in Requests : q = m.q
  BY <1>2
<1>4. /\ inbox' = inbox \ {m} /\ exec' = [exec EXCEPT ![q] = @ + 1]
      /\ UNCHANGED <<steady, membership>>
  BY <1>3 DEF Executes
<1>5. GrainType'
  BY <1>1, <1>2 DEF Executes, GrainType
<1>6. ~Clean(q) /\ (One(q) => One(q)') /\ (Two(q) => Two(q)')
  BY <1>1, <1>3, <1>4, ExecutedCount
<1>7. Settles(q)
  <2>1. inbox' \subseteq Message /\ exec' \in [Requests -> Nat]
    BY <1>1, <1>4 DEF CallType
  <2>2. \A p \in Requests \ {q} : Msgs(p)' = Msgs(p) /\ exec'[p] = exec[p]
    BY <1>1, <1>3, <1>4, TakenOut DEF CallType
  <2> QED
    BY <1>6, <2>1, <2>2 DEF Settles
<1>8. CASE Answers(m, "handler")
  BY <1>2, <1>3, <1>4, <1>5, <1>6, <1>7, <1>8, AnswersInv
<1>9. CASE Waits(m) /\ Goes(m.q, "done") /\ UNCHANGED net
  <2>1. rq[q].pc # "pool" /\ Goes(q, "done") /\ NetShrinks
    BY <1>1, <1>3, <1>9, ShrinksOrStays DEF Waits
  <2> QED
    BY <1>4, <1>5, <1>7, <2>1, EndsInv
<1> QED
  BY <1>8, <1>9 DEF Executes

LEMMA RefusedInv ==
    ASSUME ClusterInv, NEW m \in inbox, Refused(m)
    PROVE  ClusterInv'
<1>1. GrainType /\ NetType /\ CallType
  BY DEF ClusterInv
<1>2. m.q \in Requests
  BY <1>1 DEF CallType, Message
<1>3. PICK q \in Requests : q = m.q
  BY <1>2
<1>4. inbox' = inbox \ {m} /\ UNCHANGED <<steady, membership, grain, exec>>
  BY DEF Refused
<1>5. GrainType' /\ UNCHANGED <<steady, membership>>
  BY <1>1, <1>4 DEF GrainType, grain
<1>6. ~Clean(q) /\ (One(q) => Clean(q)') /\ (Two(q) => Two(q)')
  BY <1>3, <1>4, RefusedCount
<1>7. Settles(q)
  <2>1. inbox' \subseteq Message /\ exec' \in [Requests -> Nat]
    BY <1>1, <1>4 DEF CallType
  <2>2. \A p \in Requests \ {q} : Msgs(p)' = Msgs(p) /\ exec'[p] = exec[p]
    BY <1>3, <1>4, TakenOut
  <2>3. Clean(q)' => One(q)'
    BY DEF Clean, One, Single
  <2> QED
    BY <1>6, <2>1, <2>2, <2>3 DEF Settles
<1>8. PICK err \in {"refused", "taken"} : Answers(m, err)
  BY DEF Refused
<1> QED
  BY <1>2, <1>3, <1>5, <1>6, <1>7, <1>8, AnswersInv

(* A step that leaves the callers and the messages alone.                  *)
LEMMA NodeInv ==
    ASSUME ClusterInv, MemberType', GrainType', NetShrinks, UNCHANGED <<config, rq, inbox, exec>>
    PROVE  ClusterInv'
<1>1. CallType /\ \A p \in Requests : Tries(p) /\ Routed(p)
  BY DEF ClusterInv
<1>2. CallType' /\ \A p \in Requests : Routed(p)'
  BY <1>1 DEF CallType, Routed
<1>3. \A p \in Requests : Tries(p)'
  BY <1>1, Quiet DEF Tries, Spent
<1>4. NoOrphanClient' /\ \A p \in Requests : Dialed(p)'
  BY ShrinkInv
<1> QED
  BY <1>2, <1>3, <1>4 DEF ClusterInv, NetShrinks

LEMMA MembershipInv ==
    ASSUME ClusterInv, NEW n \in Nodes, ViewChanges(n) \/ HandleEvent(n) \/ CheckHandler(n) \/ Deactivate(n)
    PROVE  ClusterInv'
<1>1. MemberType /\ GrainType /\ NetType
  BY DEF ClusterInv
<1>2. UNCHANGED <<config, rq, inbox, exec>> /\ UNCHANGED net
  BY DEF ViewChanges, HandleEvent, CheckHandler, Deactivate, steady
<1>3. NetShrinks
  BY <1>1, <1>2, ShrinksOrStays
<1>4. Ends(n) => GrainType'
  BY <1>1 DEF GrainType, Ends
<1>5. GrainType'
  BY <1>1, <1>4 DEF GrainType, grain, ViewChanges, HandleEvent, CheckHandler, Deactivate
<1>6. CASE ViewChanges(n)
  <2>1. PICK m \in Nodes : view' = [view EXCEPT ![n] = IF m \in @ THEN @ \ {m} ELSE @ \cup {m}]
    BY <1>6 DEF ViewChanges
  <2>2. view' \in [Nodes -> SUBSET Nodes]
    BY <1>1, <2>1 DEF MemberType
  <2>3. /\ happened \in Nat /\ happened' = happened + 1 /\ happened' \in 0..MaxEvents
        /\ events' = [events EXCEPT ![n] = @ + 1]
        /\ UNCHANGED <<ring, config, check, missed>>
    BY <1>1, <1>6, ClusterAssumption DEF MemberType, ViewChanges, Event
  <2>4. events' \in [Nodes -> 0..happened']
    BY <1>1, <2>3 DEF MemberType
  <2> QED
    BY <1>1, <1>2, <1>3, <1>5, <2>2, <2>3, <2>4, NodeInv DEF MemberType
<1>7. CASE HandleEvent(n)
  <2>1. events' \in [Nodes -> 0..happened'] /\ happened' \in 0..MaxEvents
    BY <1>1, <1>7, ClusterAssumption DEF MemberType, HandleEvent, steady
  <2>2. check' \in [Nodes -> BOOLEAN] /\ missed' \in [Nodes -> BOOLEAN]
    BY <1>1, <1>7 DEF MemberType, GrainType, HandleEvent
  <2>3. UNCHANGED <<ring, config, view>>
    BY <1>7 DEF HandleEvent, steady
  <2> QED
    BY <1>1, <1>2, <1>3, <1>5, <2>1, <2>2, <2>3, NodeInv DEF MemberType
<1>8. CASE CheckHandler(n) \/ Deactivate(n)
  <2>1. events' = events /\ UNCHANGED <<ring, config, view>> /\ happened' \in 0..MaxEvents
        /\ happened \in Nat /\ happened' \in Nat /\ happened <= happened'
    BY <1>1, <1>8, ClusterAssumption DEF MemberType, CheckHandler, Deactivate, Event, steady
  <2>2. events' \in [Nodes -> 0..happened']
    BY <1>1, <2>1 DEF MemberType
  <2>3. check' \in [Nodes -> BOOLEAN] /\ missed' \in [Nodes -> BOOLEAN]
    BY <1>1, <1>8 DEF MemberType, CheckHandler, Deactivate
  <2> QED
    BY <1>1, <1>2, <1>3, <1>5, <2>1, <2>2, <2>3, NodeInv DEF MemberType
<1> QED
  BY <1>6, <1>7, <1>8

(* An event that leaves the views alone.                                   *)
LEMMA EventType ==
    ASSUME MemberType, Event, UNCHANGED <<ring, config, membership>>
    PROVE  MemberType'
<1>1. happened \in Nat /\ happened' = happened + 1 /\ happened' \in 0..MaxEvents
  BY ClusterAssumption DEF MemberType, Event
<1>2. events' \in [Nodes -> 0..happened']
  BY <1>1 DEF MemberType, membership
<1> QED
  BY <1>1, <1>2 DEF MemberType, membership

LEMMA NetInv ==
    ASSUME ClusterInv,
           (\E n \in Nodes : CloseAll(n)) \/ (\E k \in Clients : ConnectionLost(k)) \/ LeaseExpires
    PROVE  ClusterInv'
<1>1. MemberType /\ GrainType /\ NetType
  BY DEF ClusterInv
<1>2. Event /\ UNCHANGED <<ring, config, membership>> /\ UNCHANGED <<config, rq, inbox, exec>>
  BY DEF CloseAll, ConnectionLost, LeaseExpires
<1>3. MemberType'
  BY <1>1, <1>2, EventType
<1>4. GrainType'
  BY <1>1 DEF GrainType, CloseAll, ConnectionLost, LeaseExpires, grain
<1>5. NetShrinks
  <2>1. CASE LeaseExpires
    BY <1>1, <2>1, ShrinksOrStays DEF LeaseExpires
  <2>2. ASSUME NEW k \in Clients, ConnectionLost(k) PROVE NetShrinks
    <3>1. client' = ClosedAll({k}) /\ pool' = pool
      BY <2>2 DEF ConnectionLost
    <3>2. /\ client' \in Seq(Client) /\ Len(client') = Len(client) /\ DOMAIN client' = DOMAIN client
          /\ \A i \in DOMAIN client :
                /\ client'[i].at = client[i].at /\ client'[i].to = client[i].to
                /\ client'[i].open => client[i].open
      BY <1>1, <3>1, ClosedType
    <3> QED
      BY <1>1, <3>1, <3>2 DEF NetShrinks, NetType
  <2>3. ASSUME NEW n \in Nodes, CloseAll(n) PROVE NetShrinks
    <3> DEFINE ks == {pool[n][m] : m \in Nodes}
    <3>1. client' = ClosedAll(ks) /\ pool' = [pool EXCEPT ![n] = [m \in Nodes |-> 0]]
      BY <2>3 DEF CloseAll
    <3> HIDE DEF ks
    <3>2. /\ client' \in Seq(Client) /\ Len(client') = Len(client) /\ DOMAIN client' = DOMAIN client
          /\ \A i \in DOMAIN client :
                /\ client'[i].at = client[i].at /\ client'[i].to = client[i].to
                /\ client'[i].open => client[i].open /\ i \notin ks
      BY <1>1, <3>1, ClosedType
    <3>3. Len(client) \in Nat
      BY <1>1 DEF NetType
    <3>4. pool' \in [Nodes -> [Nodes -> 0..Len(client)]]
      BY <1>1, <3>1, <3>3 DEF NetType
    <3>5. \A i \in Nodes : i # n => pool'[i] = pool[i]
      BY <1>1, <3>1 DEF NetType
    <3>6. \A i \in DOMAIN client : client[i].at \in Nodes /\ client[i].to \in Nodes
      <4>1. \A i \in DOMAIN client : client[i] \in Client
        BY <1>1 DEF NetType
      <4> QED
        BY <4>1 DEF Client
    <3>7. \A i \in DOMAIN client :
             client'[i].open /\ pool[client[i].at][client[i].to] = i => client[i].at # n
      BY <3>2, <3>6 DEF ks
    <3>8. NetType'
      BY <1>1, <3>2, <3>4 DEF NetType
    <3> QED
      BY <3>2, <3>5, <3>6, <3>7, <3>8 DEF NetShrinks
  <2> QED
    BY <2>1, <2>2, <2>3
<1> QED
  BY <1>2, <1>3, <1>4, <1>5, NodeInv

LEMMA ClusterStart == Init => ClusterInv
<1> SUFFICES ASSUME Init PROVE ClusterInv
  OBVIOUS
<1>1. MemberType /\ GrainType
  BY ClusterAssumption DEF Init, MemberType, GrainType
<1>2. NetType /\ NoOrphanClient
  <2>1. client = << >> /\ client \in Seq(Client) /\ Len(client) = 0 /\ DOMAIN client = {}
    BY DEF Init
  <2> QED
    BY <2>1, ClusterAssumption DEF Init, NetType, NoOrphanClient
<1>3. \A q \in Requests : /\ rq[q] \in Caller /\ rq[q].pc = "place" /\ rq[q].attempt = 1
  <2>1. PICK plan \in Plans : rq = [q \in Requests |-> Asked(plan[q], "place")]
    BY DEF Init
  <2>2. ASSUME NEW q \in Requests
        PROVE  Asked(plan[q], "place") \in Caller
    <3>1. plan[q] \in [op : {"call", "post", "broadcast"}, src : Nodes]
      BY ClusterAssumption
    <3>2. 1 \in 1..3 /\ 0 \in 0..MaxClients /\ {} \in SUBSET Nodes
      BY ClusterAssumption
    <3> QED
      BY <3>1, <3>2 DEF Asked, Caller, Pcs
  <2>3. \A q \in Requests : Asked(plan[q], "place").pc = "place" /\ Asked(plan[q], "place").attempt = 1
    BY DEF Asked
  <2> QED
    BY <2>1, <2>2, <2>3
<1>4. inbox = {} /\ exec = [q \in Requests |-> 0]
  BY DEF Init
<1>5. CallType
  <2>1. rq \in [Requests -> Caller]
    BY <1>3 DEF Init
  <2> QED
    BY <1>4, <2>1 DEF CallType
<1>6. \A q \in Requests : Tries(q) /\ Routed(q) /\ Dialed(q)
  BY <1>3, <1>4 DEF Tries, Spent, Sending, Routed, Dialed, Clean, Msgs
<1> QED
  BY <1>1, <1>2, <1>5, <1>6 DEF ClusterInv

LEMMA ClusterStep == ClusterInv /\ [Next]_vars => ClusterInv'
<1> SUFFICES ASSUME ClusterInv, [Next]_vars PROVE ClusterInv'
  OBVIOUS
<1>1. ASSUME NEW q \in Requests, RouterStep(q) PROVE ClusterInv'
  BY <1>1, PlaceLocalInv, PlaceRemoteInv, PlaceNowhereInv, BroadcastInv, UsePooledInv, ConnectInv,
     PutPoolInv, SendRequestInv, WaitFailsInv, ForwardInv, ForceReleaseInv DEF RouterStep
<1>2. ASSUME NEW n \in Nodes, NodeStep(n) PROVE ClusterInv'
  BY <1>2, MembershipInv, NetInv DEF NodeStep
<1>3. ASSUME NEW m \in inbox, Executes(m) \/ Refused(m) PROVE ClusterInv'
  BY <1>3, ExecutesInv, RefusedInv
<1>4. CASE (\E k \in Clients : ConnectionLost(k)) \/ LeaseExpires
  BY <1>4, NetInv
<1>5. CASE UNCHANGED vars
  <2>1. MemberType /\ GrainType /\ NetType
    BY DEF ClusterInv
  <2>2. /\ UNCHANGED <<config, rq, inbox, exec>> /\ UNCHANGED <<steady, membership>>
        /\ UNCHANGED net /\ UNCHANGED grain
    BY <1>5 DEF vars, steady
  <2>3. MemberType' /\ GrainType' /\ NetShrinks
    BY <2>1, <2>2, MemberStays, ShrinksOrStays DEF grain, GrainType
  <2> QED
    BY <2>2, <2>3, NodeInv
<1> QED
  BY <1>1, <1>2, <1>3, <1>4, <1>5 DEF Next

(* Every variable of the cluster keeps its type: the pool names only       *)
(* clients that were made, the messages only callers there are.            *)
THEOREM AlwaysTyped == Spec => []TypeOK
<1>1. ClusterInv => TypeOK
  BY DEF ClusterInv, TypeOK
<1> QED
  BY <1>1, ClusterStart, ClusterStep, PTL DEF Spec

(* A call or a post is executed once at most, whatever connections, leases *)
(* and answers are lost on the way, and twice at most where the router may *)
(* release the lease by force (cluster.go handleLeaseCall).                *)
THEOREM AlwaysAtMostOnce == Spec => []AtMostOnce
<1>1. ClusterInv => AtMostOnce
  <2> SUFFICES ASSUME ClusterInv, NEW q \in Requests, rq[q].op # "broadcast"
               PROVE  exec[q] <= (IF config = "force" THEN 2 ELSE 1)
    BY DEF AtMostOnce
  <2>1. Tries(q) /\ CallType
    BY DEF ClusterInv
  <2>2. One(q) \/ (config = "force" /\ Two(q))
    BY <2>1, CallerParts, OneIsTwo DEF Tries, Spent, Sending, Pcs
  <2>3. exec[q] \in {0, 1} \/ (config = "force" /\ exec[q] \in {0, 1, 2})
    BY <2>2 DEF One, Two
  <2> QED
    BY <2>3
<1> QED
  BY <1>1, ClusterStart, ClusterStep, PTL DEF Spec

(* Every open connection is in its pool or was just made: two requests     *)
(* that dial one node at once leave none behind (cluster.go getOrDial).    *)
THEOREM AlwaysPooled == Spec => []NoOrphanClient
<1>1. ClusterInv => NoOrphanClient
  BY DEF ClusterInv
<1> QED
  BY <1>1, ClusterStart, ClusterStep, PTL DEF Spec
=============================================================================
