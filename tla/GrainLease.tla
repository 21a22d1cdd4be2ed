----------------------------- MODULE GrainLease -----------------------------
(***************************************************************************)
(* One grain of package grain (grain/lifecycle.go, grain_lifecycle.go) and *)
(* the store that holds its snapshot and its lease (driver_mongo.go,       *)
(* driver_redis.go, driver_json.go, driver_yaml.go), used by several       *)
(* nodes.  A driver operation is one atomic step of the store: a pipeline  *)
(* update in MongoDB, a Lua script in Redis.  The JSON and YAML drivers    *)
(* are alike and stand together as "file".                                 *)
(*                                                                         *)
(* The group (module ActorGroup) runs at most one activation of the grain  *)
(* per node.  Business data is the set of updates applied to it.           *)
(***************************************************************************)
EXTENDS Integers, FiniteSets

CONSTANTS
    Nodes,         (* node ids                                              *)
    Updates,       (* changes that handlers make to the data                *)
    Deployments,   (* driver, nodes that use the store, may its I/O fail?,  *)
                   (* WithAutoPersistInterval                               *)
    LeaseTicks,    (* leaseTimeout                                          *)
    DataTicks,     (* RedisDriver.dataTTL                                   *)
    MaxGeneration, (* bound: no Load or ForceRelease beyond it              *)
    MayCrash,      (* can a node crash?                                     *)
    MayForce,      (* can ForceRelease be called?                           *)
    None           (* the empty owner, a missing snapshot                   *)

ASSUME LeaseAssumption ==
    /\ None \notin Nodes
    /\ \A U \in SUBSET Updates : U # None
    /\ Deployments \subseteq [driver : {"mongo", "redis", "file"}, nodes : SUBSET Nodes,
                              ioFails : BOOLEAN, persist : Nat]
    /\ LeaseTicks \in Nat \ {0}
    /\ DataTicks \in Nat \ {0}
    /\ MaxGeneration \in Nat
    /\ MayCrash \in BOOLEAN
    /\ MayForce \in BOOLEAN

VARIABLES
    \* --- the deployment, chosen at the start ------------------------------
    driver,      (* "mongo", "redis" or "file"                              *)
    users,       (* the nodes that use the store                            *)
    ioFails,     (* can Save and Release return an I/O error?               *)
    persist,     (* ticks until the auto-persist, 0 for none                *)
    \* --- the store's document --------------------------------------------
    exists,      (* is there a document (key, file)?                        *)
    torn,        (* was the file truncated by a crash in the middle of Save? *)
    owner,       (* lease owner                                             *)
    generation,  (* fencing token                                           *)
    snap,        (* the snapshot, None if the document has none             *)
    ttl,         (* ticks until the lease (Redis: the key) expires          *)
    late,        (* a Save whose sender died, still on its way, or None     *)
    \* --- the grain on each node ------------------------------------------
    pc,          (* where its lifecycle stands                              *)
    gen,         (* State.lease.Generation                                  *)
    data,        (* State.Data                                              *)
    timer,       (* ticks until grain_auto_persist fires, None if not set   *)
    \* --- history ---------------------------------------------------------
    granted,     (* the node of the last granted lease that was not given up *)
    saved,       (* updates some Save has confirmed                         *)
    used         (* updates handlers have made                              *)

deployment == <<driver, users, ioFails, persist>>
store == <<exists, torn, owner, generation, snap, ttl>>
grain == <<pc, gen, data, timer>>
history == <<granted, saved>>
vars == <<deployment, store, late, grain, history, used>>

Pcs == {"off", "activating", "active", "releasing", "quit", "quitrelease"}

DeploymentOK ==
    [driver |-> driver, nodes |-> users, ioFails |-> ioFails, persist |-> persist] \in Deployments

LeaseTypeOK ==
    /\ exists \in BOOLEAN
    /\ torn \in BOOLEAN
    /\ owner \in Nodes \cup {None}
    /\ generation \in Nat
    /\ snap \in (SUBSET Updates) \cup {None}
    /\ ttl \in Nat
    /\ late \in [node : Nodes, gen : Nat, data : SUBSET Updates] \cup {None}
    /\ pc \in [Nodes -> Pcs]
    /\ gen \in [Nodes -> Nat]
    /\ data \in [Nodes -> SUBSET Updates]
    /\ timer \in [Nodes -> Nat \cup {None}]
    /\ granted \in Nodes \cup {None}
    /\ saved \in SUBSET Updates
    /\ used \in SUBSET Updates

(* Every variable has its type.                                            *)
TypeOK == DeploymentOK /\ LeaseTypeOK

Init ==
    /\ \E d \in Deployments :
          driver = d.driver /\ users = d.nodes /\ ioFails = d.ioFails /\ persist = d.persist
    /\ exists = FALSE
    /\ torn = FALSE
    /\ owner = None
    /\ generation = 0
    /\ snap = None
    /\ ttl = 0
    /\ late = None
    /\ pc = [n \in Nodes |-> "off"]
    /\ gen = [n \in Nodes |-> 0]
    /\ data = [n \in Nodes |-> {}]
    /\ timer = [n \in Nodes |-> None]
    /\ granted = None
    /\ saved = {}
    /\ used = {}
-----------------------------------------------------------------------------
(* Driver.Load                                                             *)

(* The lease belongs to another node and has not expired.                  *)
Taken(n) == exists /\ owner \notin {None, n} /\ ttl > 0

(* MongoDB: the $cond of the pipeline holds for every document (its first  *)
(* alternative is an object, not a comparison), so each Load increments.   *)
NextGeneration_Kept(n) == IF exists /\ owner = n /\ ttl > 0 THEN generation ELSE generation + 1
NextGeneration_Stuck(n) == IF exists THEN generation ELSE 1
NextGeneration(n) == generation + 1

(* What Load returns of the data, and what LoadSnapshot does with it.      *)
Content == IF snap = None THEN {} ELSE snap

(* A refused Load reads the document; it must not touch the lease.         *)
LeaveTaken_Renewed == /\ ttl' = LeaseTicks
                      /\ UNCHANGED <<exists, torn, owner, generation, snap>>
LeaveTaken == UNCHANGED store

(* Load, with what it returns to activate in r.                            *)
MongoLoad(n, r) ==
    \/ /\ Taken(n) /\ r = "taken"
       /\ LeaveTaken
       /\ UNCHANGED gen
    \/ /\ ~Taken(n) /\ r = IF snap = None THEN "created" ELSE "loaded"
       /\ exists' = TRUE
       /\ owner' = n
       /\ generation' = NextGeneration(n)
       /\ ttl' = LeaseTicks
       /\ UNCHANGED <<torn, snap>>
       /\ gen' = [gen EXCEPT ![n] = generation']

(* Redis: a missing key is created, but the reply has four elements and no *)
(* not-found mark, so that Load panics on the fifth.  Every grant sets the *)
(* key's life to the lease timeout.                                        *)
RedisLoad(n, r) ==
    \/ /\ ~exists /\ r = "panic"
       /\ exists' = TRUE
       /\ owner' = n
       /\ generation' = 1
       /\ ttl' = LeaseTicks
       /\ UNCHANGED <<torn, snap, gen>>
    \/ /\ Taken(n) /\ r = "taken"
       /\ UNCHANGED <<store, gen>>
    \/ /\ exists /\ ~Taken(n) /\ r = "loaded"
       /\ owner' = n
       /\ generation' = IF owner = n THEN generation ELSE generation + 1
       /\ ttl' = LeaseTicks
       /\ UNCHANGED <<exists, torn, snap>>
       /\ gen' = [gen EXCEPT ![n] = generation']

(* Files: Load only reads.  A truncated file cannot be decoded.            *)
FileLoad(n, r) ==
    /\ r = IF torn THEN "error" ELSE IF exists THEN "loaded" ELSE "created"
    /\ gen' = IF torn THEN gen ELSE [gen EXCEPT ![n] = generation + 1]
    /\ UNCHANGED store

Load(n, r) ==
    \/ driver = "mongo" /\ MongoLoad(n, r)
    \/ driver = "redis" /\ RedisLoad(n, r)
    \/ driver = "file"  /\ FileLoad(n, r)

Results == {"created", "loaded", "taken", "panic", "error"}
Granted == {"created", "loaded", "panic"}
-----------------------------------------------------------------------------
(* Driver.Save, Driver.Release, Driver.ForceRelease                        *)

(* MongoDB and Redis match owner and generation; the file drivers match    *)
(* nothing.                                                                *)
Matches_GenerationOnly(n, g) == exists /\ generation = g
Matches(n, g) == driver = "file" \/ (exists /\ owner = n /\ generation = g)
Fence(n) == Matches(n, gen[n])

(* What a Save or Release meets: an answer, an answer that is lost after   *)
(* the store has done its work, or an error before it.  A Save that fails  *)
(* at a living client is done by then or never; only a crash leaves one    *)
(* behind (LateSave).  One that the store executes after the next Save of  *)
(* the same activation is left out: it would match, for the generation is  *)
(* that of the activation, and undo the newer one.                         *)
Outcomes == IF ioFails THEN {"answered", "lost", "failed"} ELSE {"answered"}

(* The store carries out a matching Save of d under generation g.  When    *)
(* TakeSnapshot returns nil, because nothing has changed, the store keeps  *)
(* its snapshot and only the lease is renewed; ...                         *)
Snapshots(d) == {d} \cup (IF Content = d THEN {snap} ELSE {})

MongoSave(g, d) ==
    /\ snap' \in Snapshots(d)
    /\ generation' = g
    /\ ttl' = LeaseTicks
    /\ UNCHANGED <<exists, torn, owner>>

(* ... Redis sets the key's life to dataTTL; ...                           *)
RedisSave(g, d) ==
    /\ snap' \in Snapshots(d)
    /\ generation' = g
    /\ ttl' = DataTicks
    /\ UNCHANGED <<exists, torn, owner>>

(* ... a file is written anew, with what it held before for nil.           *)
FileSave(g, d) ==
    /\ exists' = TRUE
    /\ torn' = FALSE
    /\ generation' = g
    /\ snap' = d
    /\ UNCHANGED <<owner, ttl>>

Write(g, d) ==
    \/ driver = "mongo" /\ MongoSave(g, d)
    \/ driver = "redis" /\ RedisSave(g, d)
    \/ driver = "file"  /\ FileSave(g, d)

Save(n, o) ==
    /\ IF o # "failed" /\ Fence(n)
       THEN Write(gen[n], data[n])
       ELSE UNCHANGED store
    /\ IF o = "answered" /\ Fence(n)
       THEN saved' = saved \cup data[n]
       ELSE UNCHANGED saved
    /\ UNCHANGED <<granted, late>>

(* Release clears the owner of a matching document.                        *)
MongoRelease ==
    /\ owner' = None
    /\ ttl' = LeaseTicks
    /\ UNCHANGED <<exists, torn, generation, snap>>

RedisRelease ==
    /\ owner' = None
    /\ UNCHANGED <<exists, torn, generation, snap, ttl>>

FileRelease == UNCHANGED store

Release(n, o) ==
    /\ IF o # "failed" /\ Fence(n)
       THEN /\ \/ driver = "mongo" /\ MongoRelease
               \/ driver = "redis" /\ RedisRelease
               \/ driver = "file"  /\ FileRelease
            /\ granted' = IF granted = n THEN None ELSE granted
       ELSE UNCHANGED <<store, granted>>
    /\ UNCHANGED <<saved, late>>

(* ForceRelease increments the generation of whatever it finds, and makes  *)
(* a document if there is none; ...                                        *)
MongoForceRelease ==
    /\ exists' = TRUE
    /\ owner' = None
    /\ generation' = generation + 1
    /\ ttl' = LeaseTicks
    /\ UNCHANGED <<torn, snap>>

RedisForceRelease ==
    /\ exists' = TRUE
    /\ owner' = None
    /\ generation' = generation + 1
    /\ ttl' = LeaseTicks
    /\ UNCHANGED <<torn, snap>>

(* ... a file that cannot be decoded makes it fail.                        *)
FileForceRelease ==
    /\ ~torn
    /\ exists' = TRUE
    /\ generation' = generation + 1
    /\ UNCHANGED <<torn, owner, snap, ttl>>

ForceRelease ==
    /\ MayForce
    /\ generation < MaxGeneration
    /\ \/ driver = "mongo" /\ MongoForceRelease
       \/ driver = "redis" /\ RedisForceRelease
       \/ driver = "file"  /\ FileForceRelease
    /\ granted' = None
    /\ UNCHANGED <<deployment, late, grain, saved, used>>
-----------------------------------------------------------------------------
(* The grain's lifecycle, as SetupGrain wires it.                          *)

(* OnSpawn: Activate takes the lease and the data, ...                     *)
Activate(n) ==
    /\ n \in users
    /\ pc[n] = "off"
    /\ generation < MaxGeneration
    /\ \E r \in Results :
          /\ Load(n, r)
          /\ granted' = IF r \in Granted THEN n ELSE granted
          /\ IF r \in {"created", "loaded"}
             THEN /\ pc' = [pc EXCEPT ![n] = "activating"]
                  /\ data' = [data EXCEPT ![n] = Content]
             ELSE UNCHANGED <<pc, data>>
    /\ UNCHANGED <<deployment, timer, saved, late, used>>

(* ... then the onActivate callback runs, and the auto-persist timer and   *)
(* the OnQuit hook are set; ...                                            *)
OnActivate(n) ==
    /\ pc[n] = "activating"
    /\ pc' = [pc EXCEPT ![n] = "active"]
    /\ timer' = [timer EXCEPT ![n] = IF persist > 0 THEN persist ELSE None]
    /\ UNCHANGED <<deployment, store, late, gen, data, history, used>>

(* ... an error of onActivate ends the spawn before the hook is set: the   *)
(* lease stays with the node.                                              *)
OnActivateFails(n) ==
    /\ ioFails
    /\ pc[n] = "activating"
    /\ pc' = [pc EXCEPT ![n] = "off"]
    /\ UNCHANGED <<deployment, store, late, gen, data, timer, history, used>>

(* A handler changes the data.                                             *)
Work(n, u) ==
    /\ pc[n] = "active"
    /\ u \notin used
    /\ used' = used \cup {u}
    /\ data' = [data EXCEPT ![n] = @ \cup {u}]
    /\ UNCHANGED <<deployment, store, late, pc, gen, timer, history>>

(* A handler calls Persist.                                                *)
Persist(n, o) ==
    /\ pc[n] = "active"
    /\ Save(n, o)
    /\ UNCHANGED <<deployment, grain, used>>

(* The auto-persist timer fires.  ctx.Timer fires once.                    *)
AutoPersist(n, o) ==
    /\ pc[n] = "active"
    /\ timer[n] = 0
    /\ Save(n, o)
    /\ timer' = [timer EXCEPT ![n] = None]
    /\ UNCHANGED <<deployment, pc, gen, data, used>>

(* Deactivate saves, releases whatever Save returned, and quits; ...       *)
Deactivate_NoSave(n, o) ==
    /\ pc[n] = "active"
    /\ pc' = [pc EXCEPT ![n] = "releasing"]
    /\ UNCHANGED <<deployment, store, late, gen, data, timer, history, used>>
Deactivate(n, o) ==
    /\ pc[n] = "active"
    /\ Save(n, o)
    /\ pc' = [pc EXCEPT ![n] = "releasing"]
    /\ UNCHANGED <<deployment, gen, data, timer, used>>

DeactivateRelease(n, o) ==
    /\ pc[n] = "releasing"
    /\ Release(n, o)
    /\ pc' = [pc EXCEPT ![n] = "quit"]
    /\ UNCHANGED <<deployment, gen, data, timer, used>>

(* ... Quit, CloseActor or KillActor end the handler without that.  Either *)
(* way the context is cleared: its timers stop, OnQuit persists once more  *)
(* and releases.                                                           *)
Quit(n) ==
    /\ pc[n] = "active"
    /\ pc' = [pc EXCEPT ![n] = "quit"]
    /\ UNCHANGED <<deployment, store, late, gen, data, timer, history, used>>

OnQuitPersist(n, o) ==
    /\ pc[n] = "quit"
    /\ Save(n, o)
    /\ pc' = [pc EXCEPT ![n] = "quitrelease"]
    /\ timer' = [timer EXCEPT ![n] = None]
    /\ UNCHANGED <<deployment, gen, data, used>>

OnQuitRelease(n, o) ==
    /\ pc[n] = "quitrelease"
    /\ Release(n, o)
    /\ pc' = [pc EXCEPT ![n] = "off"]
    /\ UNCHANGED <<deployment, gen, data, timer, used>>

(* The process of node n dies and is started again.  A Save that it had    *)
(* sent may reach the store afterwards (one at a time is followed).        *)
Crash(n) ==
    /\ MayCrash
    /\ pc[n] # "off"
    /\ pc' = [pc EXCEPT ![n] = "off"]
    /\ timer' = [timer EXCEPT ![n] = None]
    /\ \/ UNCHANGED late
       \/ /\ driver # "file"
          /\ pc[n] \in {"active", "quit"}
          /\ late = None
          /\ late' = [node |-> n, gen |-> gen[n], data |-> data[n]]
    /\ UNCHANGED <<deployment, store, gen, data, history, used>>

LateSave ==
    /\ late # None
    /\ late' = None
    /\ IF Matches(late.node, late.gen)
       THEN Write(late.gen, late.data)
       ELSE UNCHANGED store
    /\ UNCHANGED <<deployment, grain, history, used>>

(* The file drivers truncate the file (os.Create) before they write it.    *)
CrashInSave(n) ==
    /\ driver = "file"
    /\ MayCrash
    /\ pc[n] \in {"active", "quit"}
    /\ exists' = TRUE
    /\ torn' = TRUE
    /\ generation' = 0
    /\ snap' = None
    /\ pc' = [pc EXCEPT ![n] = "off"]
    /\ timer' = [timer EXCEPT ![n] = None]
    /\ UNCHANGED <<deployment, owner, ttl, late, gen, data, history, used>>

(* What remains of a lease one tick later.                                 *)
Elapse_Unbounded(t) == t - 1
Elapse(t) == IF t > 0 THEN t - 1 ELSE 0

(* Time passes; a due timer fires first.  An expired lease stays readable  *)
(* in MongoDB; in Redis the whole key is gone.                             *)
Tick ==
    /\ \A n \in Nodes : timer[n] # 0
    /\ timer' = [n \in Nodes |-> IF timer[n] = None THEN None ELSE timer[n] - 1]
    /\ IF driver = "redis" /\ exists /\ ttl <= 1
       THEN /\ exists' = FALSE
            /\ owner' = None
            /\ generation' = 0
            /\ snap' = None
            /\ ttl' = 0
            /\ UNCHANGED torn
       ELSE /\ ttl' = Elapse(ttl)
            /\ UNCHANGED <<exists, torn, owner, generation, snap>>
    /\ UNCHANGED <<deployment, late, pc, gen, data, granted, saved, used>>

NodeStep(n) ==
    \/ Activate(n)
    \/ OnActivate(n)
    \/ OnActivateFails(n)
    \/ \E u \in Updates : Work(n, u)
    \/ Quit(n)
    \/ \E o \in Outcomes : \/ Persist(n, o)
                      \/ AutoPersist(n, o)
                      \/ Deactivate(n, o)
                      \/ DeactivateRelease(n, o)
                      \/ OnQuitPersist(n, o)
                      \/ OnQuitRelease(n, o)
    \/ Crash(n)
    \/ CrashInSave(n)

Next == (\E n \in Nodes : NodeStep(n)) \/ LateSave \/ ForceRelease \/ Tick

Spec == Init /\ [][Next]_vars

(* Time passes, and an exit that has begun is carried through.             *)
FairSpec ==
    /\ Spec
    /\ WF_vars(Tick)
    /\ \A n \in Nodes :
          /\ WF_vars(OnActivate(n) \/ OnActivateFails(n))
          /\ WF_vars(\E o \in Outcomes : AutoPersist(n, o))
          /\ WF_vars(\E o \in Outcomes : DeactivateRelease(n, o))
          /\ WF_vars(\E o \in Outcomes : OnQuitPersist(n, o))
          /\ WF_vars(\E o \in Outcomes : OnQuitRelease(n, o))
-----------------------------------------------------------------------------
Running(n) == pc[n] # "off"

(* Fencing (driver_json.go:44 "generation does not match: the lease has    *)
(* been taken, the write is refused"): a running activation that the store *)
(* would still let write is the one it granted last - not one that was     *)
(* taken over after its lease expired, released, or forced out.  The file  *)
(* drivers do not fence.                                                   *)
NoStaleWriter ==
    driver # "file" => \A n \in Nodes : Running(n) /\ Fence(n) => granted = n

(* MongoDB: every update that a Save has confirmed is in the store, across *)
(* expired leases, takeovers, crashes and late saves of an old activation. *)
(* It rests on Load raising the generation every time, also for the owner  *)
(* it finds, although driver_mongo.go:108-110 says that this one keeps it; *)
(* and on the store executing the Saves of one activation in order.        *)
(* In Redis the whole key expires, and a crash may truncate a file.        *)
Durable == driver = "mongo" => saved \subseteq Content

(* What Durable rests on in MongoDB.  Whoever the store would let write -  *)
(* a running activation, or a Save that outlived its sender - knows all of *)
(* the stored data; and a Save that outlived its sender does not match any *)
(* more once the grain runs again on that node, because each Load moves    *)
(* the generation past every one handed out before.                        *)
OwnerGranted == owner # None => granted = owner

GenerationsBehind ==
    /\ \A n \in Nodes : gen[n] <= generation
    /\ late # None => late.gen <= generation

WriterKnowsAll ==
    \A n \in Nodes : Running(n) /\ Fence(n) => Content \subseteq data[n]

LateKnowsAll ==
    late # None /\ Matches(late.node, late.gen)
        => ~Running(late.node) /\ Content \subseteq late.data

ConfirmedKept == saved \subseteq Content

LeaseInv ==
    LeaseTypeOK /\ OwnerGranted /\ GenerationsBehind /\ WriterKnowsAll /\ LateKnowsAll /\ ConfirmedKept

MongoInv == DeploymentOK /\ (driver = "mongo" => LeaseInv)

(* MongoDB: a generation identifies one activation among those that run,   *)
(* so that the token tells a late save of an exiting grain from one of its *)
(* successor.  In Redis a key that expired starts again at 1.              *)
GenerationUnique ==
    driver = "mongo" =>
        \A m, n \in Nodes : m # n /\ Running(m) /\ Running(n) => gen[m] # gen[n]

(* A grain that gives its lease back has its whole data in the store       *)
(* (README "save snapshot -> release lease -> quit"), whether Deactivate   *)
(* or the OnQuit hook does it, if the store can be reached.  Not so in     *)
(* Redis: a node that loads its grain again keeps the generation, and a    *)
(* Save that outlived a crash overwrites what was saved since.             *)
ExitSaves ==
    [][\A n \in Nodes :
          (/\ ~ioFails /\ driver # "redis"
           /\ pc[n] \in {"releasing", "quitrelease"} /\ granted = n /\ granted' = None)
              => pc'[n] = pc[n] \/ data[n] \subseteq Content]_vars

(* A lease whose node no longer runs the grain (it crashed, or its         *)
(* activation failed after Load) becomes free for the others in time,      *)
(* however often they try.                                                 *)
OrphanFreed ==
    \A n \in Nodes :
        (owner = n /\ ~Running(n)) ~> (owner # n \/ Running(n) \/ ttl = 0)
=============================================================================
