------------------------------ MODULE Cluster ------------------------------
(***************************************************************************)
(* One grain in a cluster (package cluster): each node has its own view of *)
(* the membership, a Router with a pool of RPC clients, and a migration    *)
(* coordinator.  A request goes to the node its router prefers; when the   *)
(* grain's lease is taken by another node, the router may forward it there *)
(* and, at last, release the lease by force.                               *)
(*                                                                         *)
(* A request's calls of the pool, the network and the actor are separate   *)
(* steps, so that requests, changes of membership, lost connections and    *)
(* leases that run out fall between them.  What the lease protects is the  *)
(* subject of GrainLease, what a client does of RpcClient.                 *)
(***************************************************************************)
EXTENDS Placement, Sequences

CONSTANTS
    Rings,        (* the layouts of the hash ring                           *)
    Requests,     (* requests made through a router                         *)
    Plans,        (* what each request asks for, and where it is made       *)
    Configs,      (* RouterConfig: "none", "retry" or "force"               *)
    MaxClients,   (* bound: connections made                                *)
    MaxEvents     (* bound: changes of views, lost connections, closed      *)
                  (* routers, leases run out, grains that end by themselves *)

ASSUME ClusterAssumption ==
    /\ \A r \in Rings : IsRing(r)
    /\ Plans \subseteq [Requests -> [op : {"call", "post", "broadcast"}, src : Nodes]]
    /\ Configs \subseteq {"none", "retry", "force"}
    /\ MaxClients \in Nat /\ MaxEvents \in Nat

VARIABLES
    ring, config,   (* fixed at the start                                   *)
    view,       (* Members() of each node                                   *)
    events,     (* member events the node's coordinator has not handled     *)
    check,      (* is CheckOwnership in the grain's mailbox on this node?   *)
    missed,     (* did a full mailbox refuse it, or the grain decline?      *)
    active,     (* is the grain active on this node?                        *)
    owner,      (* who holds the grain's lease, or NoNode                   *)
    pool,       (* clientPool.clients: on each node, for each address, or 0 *)
    client,     (* every client: is it open?                                *)
    rq,         (* each request's caller                                    *)
    inbox,      (* requests that have reached a node                        *)
    exec,       (* history: how often each request was executed             *)
    happened    (* history: how many events of those that MaxEvents bounds  *)

membership == <<view, events, check, missed>>
grain == <<active, owner>>
net == <<pool, client>>
steady == <<ring, config, happened>>
vars == <<ring, config, membership, grain, net, rq, inbox, exec, happened>>

Clients == 1..MaxClients

(* A caller: what it asks for and where it is made; the attempt it is at:  *)
(* callOnce, tryForward, callOnce again; the node and the client of this   *)
(* attempt; the nodes a broadcast has yet to reach; the owner that         *)
(* ErrLeaseTaken names.                                                    *)
Pcs == {"place", "dial", "pool", "send", "wait", "forward", "force", "done"}
Caller ==
    [op : {"call", "post", "broadcast"}, src : Nodes, attempt : 1..3, to : Nodes \cup {NoNode}, k : 0..MaxClients,
     todo : SUBSET Nodes, taken : Nodes \cup {NoNode}, pc : Pcs]
Client == [at : Nodes, to : Nodes, open : BOOLEAN]
Message == [q : Requests, at : Nodes, attempt : 1..3, k : 0..MaxClients]

MemberType ==
    /\ ring \in Rings /\ config \in Configs
    /\ view \in [Nodes -> SUBSET Nodes]
    /\ happened \in 0..MaxEvents
    /\ events \in [Nodes -> 0..happened]
    /\ check \in [Nodes -> BOOLEAN] /\ missed \in [Nodes -> BOOLEAN]

GrainType == active \in [Nodes -> BOOLEAN] /\ owner \in Nodes \cup {NoNode}

NetType ==
    /\ client \in Seq(Client) /\ Len(client) <= MaxClients
    /\ pool \in [Nodes -> [Nodes -> 0..Len(client)]]

CallType ==
    /\ rq \in [Requests -> Caller]
    /\ inbox \subseteq Message
    /\ exec \in [Requests -> Nat]

(* Every variable has its type.                                            *)
TypeOK == MemberType /\ GrainType /\ NetType /\ CallType

Asked(p, pc) ==
    [op |-> p.op, src |-> p.src, attempt |-> 1, to |-> NoNode, k |-> 0, todo |-> {},
     taken |-> NoNode, pc |-> pc]

Init ==
    /\ ring \in Rings /\ config \in Configs
    /\ view = [n \in Nodes |-> Nodes]
    /\ events = [n \in Nodes |-> 0]
    /\ check = [n \in Nodes |-> FALSE] /\ missed = [n \in Nodes |-> FALSE]
    /\ active = [n \in Nodes |-> FALSE] /\ owner = NoNode
    /\ pool = [n \in Nodes |-> [m \in Nodes |-> 0]]
    /\ client = << >>
    /\ \E plan \in Plans : rq = [q \in Requests |-> Asked(plan[q], "place")]
    /\ inbox = {}
    /\ exec = [q \in Requests |-> 0]
    /\ happened = 0

Preferred(n) == Place(ring, view[n])

Event == happened < MaxEvents /\ happened' = happened + 1
-----------------------------------------------------------------------------
(* Membership and migration.  A node learns that another joined or left    *)
(* and tells its coordinator; Members() has changed by then.               *)
ViewChanges(n) ==
    /\ Event
    /\ \E m \in Nodes \ {n} :
          view' = [view EXCEPT ![n] = IF m \in @ THEN @ \ {m} ELSE @ \cup {m}]
    /\ events' = [events EXCEPT ![n] = @ + 1]
    /\ UNCHANGED <<ring, config, check, missed, grain, net, rq, inbox, exec>>

(* Mutant: Run goes on when Events() is closed.                            *)
HandleEvent_Closed(n) ==
    /\ events' = [events EXCEPT ![n] = @ - 1]
    /\ check' = [check EXCEPT ![n] = @ \/ active[n]]
    /\ UNCHANGED <<steady, view, missed, grain, net, rq, inbox, exec>>

(* handleEvent: the registered notifier broadcasts CheckOwnership to the   *)
(* actors there are; a full mailbox refuses it and nobody is told.         *)
HandleEvent(n) ==
    /\ events[n] > 0
    /\ events' = [events EXCEPT ![n] = @ - 1]
    /\ \/ check' = [check EXCEPT ![n] = @ \/ active[n]] /\ UNCHANGED missed
       \/ active[n] /\ missed' = [missed EXCEPT ![n] = TRUE] /\ UNCHANGED check
    /\ UNCHANGED <<steady, view, grain, net, rq, inbox, exec>>

ShouldLeave_Inverted(n) == Preferred(n) = n

(* CheckOwnership: another node is preferred.                              *)
ShouldLeave(n) == Preferred(n) \notin {n, NoNode}

(* The grain on node n ends: Deactivate releases the lease if it is still  *)
(* the grain's.                                                            *)
Ends(n) ==
    /\ active' = [active EXCEPT ![n] = FALSE]
    /\ owner' = IF owner = n THEN NoNode ELSE owner

(* The handler of CheckOwnership, as its documentation has it: a grain     *)
(* that belongs elsewhere deactivates, or declines because its business    *)
(* does not allow it (migration.go:17, canDeactivate at line 31).          *)
CheckHandler(n) ==
    /\ check[n]
    /\ check' = [check EXCEPT ![n] = FALSE]
    /\ \/ /\ missed' = [missed EXCEPT ![n] = @ /\ ~ShouldLeave(n)]
          /\ IF active[n] /\ ShouldLeave(n) THEN Ends(n) ELSE UNCHANGED grain
       \/ /\ active[n] /\ ShouldLeave(n)
          /\ missed' = [missed EXCEPT ![n] = TRUE]
          /\ UNCHANGED grain
    /\ UNCHANGED <<steady, view, events, net, rq, inbox, exec>>

(* The grain deactivates for reasons of its own.                           *)
Deactivate(n) ==
    /\ active[n]
    /\ Event
    /\ Ends(n)
    /\ check' = [check EXCEPT ![n] = FALSE]
    /\ missed' = [missed EXCEPT ![n] = FALSE]
    /\ UNCHANGED <<ring, config, view, events, net, rq, inbox, exec>>

(* The lease runs out under its owner.                                     *)
LeaseExpires ==
    /\ Event
    /\ owner # NoNode
    /\ owner' = NoNode
    /\ UNCHANGED <<ring, config, membership, active, net, rq, inbox, exec>>
-----------------------------------------------------------------------------
(* The client pool of node n.                                              *)
ClosedAll(ks) == [k \in DOMAIN client |-> IF k \in ks THEN [client[k] EXCEPT !.open = FALSE]
                                          ELSE client[k]]
Remove(n, m) ==
    /\ client' = ClosedAll({pool[n][m]})
    /\ pool' = [pool EXCEPT ![n][m] = 0]

(* Router.Close.                                                           *)
CloseAll(n) ==
    /\ Event
    /\ \E m \in Nodes : pool[n][m] # 0
    /\ client' = ClosedAll({pool[n][m] : m \in Nodes})
    /\ pool' = [pool EXCEPT ![n] = [m \in Nodes |-> 0]]
    /\ UNCHANGED <<ring, config, membership, grain, rq, inbox, exec>>

(* A connection is lost: its client closes itself and stays in the pool.   *)
ConnectionLost(k) ==
    /\ Event
    /\ k \in DOMAIN client /\ client[k].open
    /\ client' = ClosedAll({k})
    /\ UNCHANGED <<ring, config, membership, grain, pool, rq, inbox, exec>>
-----------------------------------------------------------------------------
(* What follows on an error of q's attempt.  Only an error of the local    *)
(* actor is ErrLeaseTaken: what comes over RPC is text.                    *)
IsLeaseTaken_Any(q, err) == TRUE
IsLeaseTaken(q, err) == err = "taken" /\ rq[q].k = 0

AfterForward == IF config = "force" THEN "force" ELSE "done"

AfterError(q, err) ==
    CASE rq[q].op = "broadcast" -> "place"
      [] rq[q].op = "post" -> "done"
      [] rq[q].op = "call" /\ rq[q].attempt = 1 ->
            IF config # "none" /\ IsLeaseTaken(q, err) THEN "forward" ELSE "done"
      [] rq[q].op = "call" /\ rq[q].attempt = 2 -> AfterForward
      [] rq[q].op = "call" /\ rq[q].attempt = 3 -> "done"

(* The caller goes on at pc; once it is done nothing it knew matters.      *)
Goes(q, pc) ==
    rq' = [rq EXCEPT ![q] =
              IF pc = "done" THEN Asked([op |-> @.op, src |-> @.src], "done")
              ELSE [@ EXCEPT !.pc = pc, !.k = 0, !.taken = IF pc = "forward" THEN owner ELSE NoNode]]

Fails(q, err) == Goes(q, AfterError(q, err))

(* tryForwardCall drops the client of the owner that failed, or whichever  *)
(* has taken its place in the pool.                                        *)
DropClient(q) ==
    IF rq[q].attempt = 2 THEN Remove(rq[q].src, rq[q].to) ELSE UNCHANGED net

(* callOnce and postOnce, and Multicast for one of its ids: to the         *)
(* preferred node, the local one without RPC, where the group may refuse   *)
(* it (stopping, full mailbox).  Node{} has no address to dial.            *)
Placing(q) == rq[q].pc = "place" /\ rq[q].op # "broadcast"
Local(q) == [q |-> q, at |-> rq[q].src, attempt |-> rq[q].attempt, k |-> 0]
AfterSend(q) ==
    CASE rq[q].op = "call" -> "wait" [] rq[q].op = "post" -> "done" [] OTHER -> "place"

PlaceLocal(q) ==
    /\ Placing(q) /\ Preferred(rq[q].src) = rq[q].src
    /\ \/ inbox' = inbox \cup {Local(q)} /\ Goes(q, AfterSend(q))
       \/ Fails(q, "refused") /\ UNCHANGED inbox
    /\ UNCHANGED <<steady, membership, grain, net, exec>>

PlaceRemote(q) ==
    /\ Placing(q) /\ Preferred(rq[q].src) \notin {rq[q].src, NoNode}
    /\ rq' = [rq EXCEPT ![q].pc = "dial", ![q].to = Preferred(rq[q].src)]
    /\ UNCHANGED <<steady, membership, grain, net, inbox, exec>>

PlaceNowhere(q) ==
    /\ Placing(q) /\ Preferred(rq[q].src) = NoNode
    /\ Fails(q, "route")
    /\ UNCHANGED <<steady, membership, grain, net, inbox, exec>>

(* Broadcast: to the local actors, and unless they refuse it to one member *)
(* after the other, whatever fails.                                        *)
BroadcastLocal(q) ==
    /\ rq[q].pc = "place" /\ rq[q].op = "broadcast" /\ rq[q].to = NoNode
    /\ \/ /\ inbox' = inbox \cup {Local(q)}
          /\ rq' = [rq EXCEPT ![q].to = rq[q].src, ![q].todo = view[rq[q].src] \ {rq[q].src}]
       \/ Goes(q, "done") /\ UNCHANGED inbox
    /\ UNCHANGED <<steady, membership, grain, net, exec>>

BroadcastNext(q) ==
    /\ rq[q].pc = "place" /\ rq[q].op = "broadcast" /\ rq[q].to # NoNode
    /\ \/ rq[q].todo = {} /\ Goes(q, "done")
       \/ \E m \in rq[q].todo :
             rq' = [rq EXCEPT ![q].pc = "dial", ![q].to = m, ![q].todo = @ \ {m}]
    /\ UNCHANGED <<steady, membership, grain, net, inbox, exec>>

(* getOrDial: the pooled client, or a new connection made without the      *)
(* lock; by then another request may have pooled one.                      *)
Pooled(q) == pool[rq[q].src][rq[q].to]

UsePooled(q) ==
    /\ rq[q].pc = "dial" /\ Pooled(q) # 0
    /\ rq' = [rq EXCEPT ![q].pc = "send", ![q].k = Pooled(q)]
    /\ UNCHANGED <<steady, membership, grain, net, inbox, exec>>

Connect(q) ==
    /\ rq[q].pc = "dial" /\ Pooled(q) = 0
    /\ Len(client) < MaxClients
    /\ client' = Append(client, [at |-> rq[q].src, to |-> rq[q].to, open |-> TRUE])
    /\ rq' = [rq EXCEPT ![q].pc = "pool", ![q].k = Len(client')]
    /\ UNCHANGED <<steady, membership, grain, pool, inbox, exec>>

ConnectFails(q) ==
    /\ rq[q].pc = "dial" /\ Pooled(q) = 0
    /\ Fails(q, "route")
    /\ UNCHANGED <<steady, membership, grain, net, inbox, exec>>

PutPool_Overwrite(q) ==
    /\ rq[q].pc = "pool"
    /\ pool' = [pool EXCEPT ![rq[q].src][rq[q].to] = rq[q].k]
    /\ rq' = [rq EXCEPT ![q].pc = "send"]
    /\ UNCHANGED <<steady, membership, grain, client, inbox, exec>>

PutPool(q) ==
    /\ rq[q].pc = "pool"
    /\ IF Pooled(q) # 0
       THEN /\ client' = ClosedAll({rq[q].k})
            /\ rq' = [rq EXCEPT ![q].pc = "send", ![q].k = Pooled(q)]
            /\ UNCHANGED pool
       ELSE /\ pool' = [pool EXCEPT ![rq[q].src][rq[q].to] = rq[q].k]
            /\ rq' = [rq EXCEPT ![q].pc = "send"]
            /\ UNCHANGED client
    /\ UNCHANGED <<steady, membership, grain, inbox, exec>>

(* rpc.Call, rpc.Post, rpc.Broadcast on the client: the request arrives,   *)
(* or the client is closed.                                                *)
SendRequest(q) ==
    /\ rq[q].pc = "send" /\ client[rq[q].k].open
    /\ inbox' = inbox \cup {[q |-> q, at |-> rq[q].to, attempt |-> rq[q].attempt, k |-> rq[q].k]}
    /\ IF rq[q].op = "call" THEN rq' = [rq EXCEPT ![q].pc = "wait"] ELSE Goes(q, AfterSend(q))
    /\ UNCHANGED <<steady, membership, grain, net, exec>>

SendFails(q) ==
    /\ rq[q].pc = "send" /\ ~client[rq[q].k].open
    /\ Fails(q, "rpc")
    /\ DropClient(q)
    /\ UNCHANGED <<steady, membership, grain, inbox, exec>>

(* A request has come to its node and the grain there handles it; without  *)
(* an activation it loads the grain, unless the lease is another node's.   *)
(* The server asks its actors and never the router, so that a request goes *)
(* no further.  A broadcast reaches active grains only.                    *)
Waits(m) == rq[m.q].pc = "wait" /\ rq[m.q].attempt = m.attempt
            /\ (m.k # 0 => client[m.k].open)

Answers(m, err) ==
    IF Waits(m) THEN Fails(m.q, err) /\ DropClient(m.q) ELSE UNCHANGED <<rq, net>>

Executes(m) ==
    /\ active[m.at] \/ (rq[m.q].op # "broadcast" /\ owner \in {NoNode, m.at})
    /\ active' = [active EXCEPT ![m.at] = TRUE]
    /\ owner' = IF active[m.at] THEN owner ELSE m.at
    /\ exec' = [exec EXCEPT ![m.q] = @ + 1]
    /\ inbox' = inbox \ {m}
    /\ \/ Answers(m, "handler")
       \/ Waits(m) /\ Goes(m.q, "done") /\ UNCHANGED net
    /\ UNCHANGED <<steady, membership>>

Refused(m) ==
    /\ inbox' = inbox \ {m}
    /\ \/ Answers(m, "refused")
       \/ /\ ~active[m.at] /\ owner \notin {NoNode, m.at} /\ rq[m.q].op # "broadcast"
          /\ Answers(m, "taken")
    /\ UNCHANGED <<steady, membership, grain, exec>>

(* The caller's context ends, or the client it waits on is closed; the     *)
(* request may still be executed.                                          *)
WaitFails(q) ==
    /\ rq[q].pc = "wait"
    /\ Fails(q, "timeout")
    /\ DropClient(q)
    /\ UNCHANGED <<steady, membership, grain, inbox, exec>>

(* tryForwardCall: to the owner, if that is another node of the view.      *)
Forward(q) ==
    /\ rq[q].pc = "forward"
    /\ IF rq[q].taken \in view[rq[q].src] \ {rq[q].src}
       THEN rq' = [rq EXCEPT ![q].pc = "dial", ![q].to = rq[q].taken, ![q].attempt = 2,
                             ![q].taken = NoNode]
       ELSE Goes(q, AfterForward)
    /\ UNCHANGED <<steady, membership, grain, net, inbox, exec>>

(* ForceRelease, which may fail, and callOnce again.                       *)
ForceRelease(q) ==
    /\ rq[q].pc = "force"
    /\ \/ /\ owner' = NoNode
          /\ rq' = [rq EXCEPT ![q].pc = "place", ![q].attempt = 3, ![q].to = NoNode]
       \/ Goes(q, "done") /\ UNCHANGED owner
    /\ UNCHANGED <<steady, membership, active, net, inbox, exec>>
-----------------------------------------------------------------------------
(* The steps of Post, Call and Broadcast.  A Multicast is a Post for each  *)
(* of its ids; that ids of one node share a message, and that a local      *)
(* error ends it, are left out.                                            *)
RouterStep(q) ==
    \/ PlaceLocal(q) \/ PlaceRemote(q) \/ PlaceNowhere(q) \/ BroadcastLocal(q) \/ BroadcastNext(q)
    \/ UsePooled(q) \/ Connect(q) \/ ConnectFails(q) \/ PutPool(q)
    \/ SendRequest(q) \/ SendFails(q) \/ WaitFails(q) \/ Forward(q) \/ ForceRelease(q)

NodeStep(n) ==
    ViewChanges(n) \/ HandleEvent(n) \/ CheckHandler(n) \/ Deactivate(n) \/ CloseAll(n)

Next ==
    \/ \E q \in Requests : RouterStep(q)
    \/ \E n \in Nodes : NodeStep(n)
    \/ \E m \in inbox : Executes(m) \/ Refused(m)
    \/ \E k \in Clients : ConnectionLost(k)
    \/ LeaseExpires

Spec == Init /\ [][Next]_vars

(* The coordinator's goroutine and the grain's actor run.                  *)
FairSpec ==
    Spec /\ \A n \in Nodes : WF_vars(HandleEvent(n)) /\ WF_vars(CheckHandler(n))
-----------------------------------------------------------------------------
(* A call that meets a taken lease, a lost connection or a failing node is *)
(* executed once at most, for the router tries again only where the first  *)
(* try was refused (cluster.go handleLeaseCall).  A ForceReleaser gives    *)
(* this up: a forwarded call whose answer is lost is executed once more,   *)
(* and never a third time.                                                 *)
AtMostOnce ==
    \A q \in Requests : rq[q].op # "broadcast" => exec[q] <= (IF config = "force" THEN 2 ELSE 1)

(* Every open connection is in the pool, where RemoveClient and Close find *)
(* it, or was just made (cluster.go getOrDial): two requests that dial one *)
(* node at once leave no connection behind.                                *)
NoOrphanClient ==
    \A k \in DOMAIN client :
        client[k].open =>
            \/ pool[client[k].at][client[k].to] = k
            \/ \E q \in Requests : rq[q].pc = "pool" /\ rq[q].k = k

(* When a node's view changes, the grain's preferred node changes only if  *)
(* it has left or if the new one has joined (placement.go placeOnRing).    *)
MinimalMovement ==
    [][\A n \in Nodes : Preferred(n)' # Preferred(n)
          => Preferred(n) \notin view'[n] \/ Preferred(n)' \notin view[n]]_vars

(* A grain that is active when its node hears of a change, and belongs to  *)
(* another node by then, leaves, unless its mailbox was full, its handler  *)
(* used its right to decline (migration.go:17, canDeactivate at line 31)   *)
(* or the view changes back (migration.go handleEvent, CheckOwnership).    *)
(* Who declined is not asked again before the next change of members.      *)
Migrates ==
    \A n \in Nodes :
        active[n] /\ events[n] > 0 /\ Preferred(n) \notin {n, NoNode}
            ~> ~active[n] \/ Preferred(n) \in {n, NoNode} \/ missed[n]
=============================================================================
