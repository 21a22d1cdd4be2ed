-------------------------- MODULE GrainLeaseProofs --------------------------
(***************************************************************************)
(* What GrainLease promises for every set of nodes and updates and any     *)
(* timeouts.  For MongoDB, LeaseInv is inductive; the lemmas go through    *)
(* the steps that it meets: a Save and a Release (whichever action makes   *)
(* them), Load, ForceRelease, a Save that outlived its sender, a crash,    *)
(* and the steps that leave the store alone.  Types, and what the store    *)
(* has of a grain that gives its lease back, follow for the other drivers. *)
(***************************************************************************)
EXTENDS GrainLease, TLAPS

USE DEF Pcs

(* The empty store satisfies the invariant (NewMongoDriver).               *)
LEMMA InitLeaseInv == Init => LeaseInv
  <1> SUFFICES ASSUME Init PROVE LeaseInv
    OBVIOUS
  <1>1. LeaseTypeOK
    <2>1. /\ pc \in [Nodes -> Pcs]
          /\ gen \in [Nodes -> Nat]
          /\ data \in [Nodes -> SUBSET Updates]
          /\ timer \in [Nodes -> Nat \cup {None}]
      BY DEF Init
    <2>2. /\ generation \in Nat /\ ttl \in Nat
          /\ saved \in SUBSET Updates /\ used \in SUBSET Updates
      BY DEF Init
    <2>3. exists \in BOOLEAN /\ torn \in BOOLEAN
      BY Zenon DEF Init
    <2>4. /\ owner \in Nodes \cup {None} /\ granted \in Nodes \cup {None}
          /\ snap \in (SUBSET Updates) \cup {None}
          /\ late \in [node : Nodes, gen : Nat, data : SUBSET Updates] \cup {None}
      BY Zenon DEF Init
    <2> QED
      BY <2>1, <2>2, <2>3, <2>4, Zenon DEF LeaseTypeOK
  <1>2. OwnerGranted /\ GenerationsBehind /\ ConfirmedKept
    BY DEF Init, OwnerGranted, GenerationsBehind, ConfirmedKept, Content
  <1>3. WriterKnowsAll /\ LateKnowsAll
    BY DEF Init, WriterKnowsAll, LateKnowsAll, Running
  <1> QED
    BY <1>1, <1>2, <1>3 DEF LeaseInv

(* MongoDriver.Save, called from Persist, the timer, Deactivate or OnQuit. *)
(* The filter lets n write only if it owns the lease; then n knows all of  *)
(* the stored data, and no late Save of n can match while n runs.          *)
LEMMA SaveInv ==
    ASSUME LeaseInv, driver = "mongo", driver' = driver, NEW n \in Nodes, NEW o \in Outcomes,
           Running(n), Save(n, o), UNCHANGED <<gen, data>>,
           pc' \in [Nodes -> Pcs], \A m \in Nodes : Running(m)' => Running(m),
           timer' \in [Nodes -> Nat \cup {None}], UNCHANGED used
    PROVE  LeaseInv'
  <1> USE DEF LeaseInv
  <1>1. LeaseTypeOK'
    <2>1. CASE o # "failed" /\ Fence(n)
      <3>1. snap' \in (SUBSET Updates) \cup {None}
        BY <2>1 DEF LeaseTypeOK, Save, Write, MongoSave, Snapshots
      <3>2. ttl' \in Nat /\ generation' \in Nat
        BY <2>1, LeaseAssumption DEF LeaseTypeOK, Save, Write, MongoSave, Snapshots
      <3>3. UNCHANGED <<exists, torn, owner>>
        BY <2>1 DEF Save, Write, MongoSave, Snapshots
      <3>4. saved' \in SUBSET Updates /\ UNCHANGED <<granted, late>>
        BY <2>1 DEF LeaseTypeOK, Save
      <3> QED
        BY <3>1, <3>2, <3>3, <3>4, Zenon DEF LeaseTypeOK
    <2>2. CASE ~(o # "failed" /\ Fence(n))
      BY <2>2 DEF LeaseTypeOK, Save, store
    <2> QED
      BY <2>1, <2>2
  <1>2. OwnerGranted' /\ GenerationsBehind'
    <2>1. CASE o # "failed" /\ Fence(n)
      BY <2>1
         DEF LeaseTypeOK, Save, Write, MongoSave, Snapshots, Fence, Matches,
             OwnerGranted, GenerationsBehind
    <2>2. CASE ~(o # "failed" /\ Fence(n))
      BY <2>2 DEF LeaseTypeOK, Save, store, OwnerGranted, GenerationsBehind
    <2> QED
      BY <2>1, <2>2
  <1>3. WriterKnowsAll'
    <2>1. CASE o # "failed" /\ Fence(n)
      BY <2>1
         DEF LeaseTypeOK, Save, Write, MongoSave, Snapshots, Fence, Matches,
             WriterKnowsAll, Content
    <2>2. CASE ~(o # "failed" /\ Fence(n))
      BY <2>2 DEF LeaseTypeOK, Save, store, Fence, Matches, WriterKnowsAll, Content
    <2> QED
      BY <2>1, <2>2
  <1>4. LateKnowsAll'
    <2>1. CASE o # "failed" /\ Fence(n)
      BY <2>1
         DEF LeaseTypeOK, Save, Write, MongoSave, Snapshots, Fence, Matches,
             LateKnowsAll, Content
    <2>2. CASE ~(o # "failed" /\ Fence(n))
      BY <2>2 DEF LeaseTypeOK, Save, store, Fence, Matches, LateKnowsAll, Content
    <2> QED
      BY <2>1, <2>2
  <1>5. ConfirmedKept'
    <2>1. CASE o # "failed" /\ Fence(n)
      <3>1. Content \subseteq data[n] /\ saved' \subseteq saved \cup data[n]
        BY <2>1 DEF WriterKnowsAll, Save
      <3>2. Content' = data[n]
        BY <2>1, LeaseAssumption DEF LeaseTypeOK, Save, Write, MongoSave, Snapshots, Content
      <3> QED
        BY <3>1, <3>2 DEF ConfirmedKept
    <2>2. CASE ~(o # "failed" /\ Fence(n))
      BY <2>2 DEF LeaseTypeOK, Save, store, ConfirmedKept, Content
    <2> QED
      BY <2>1, <2>2
  <1> QED
    BY <1>1, <1>2, <1>3, <1>4, <1>5

(* MongoDriver.Release: with no owner nobody matches any more.             *)
LEMMA ReleaseInv ==
    ASSUME LeaseInv, driver = "mongo", driver' = driver, NEW n \in Nodes, NEW o \in Outcomes,
           Release(n, o), UNCHANGED <<gen, data, timer, used>>,
           pc' \in [Nodes -> Pcs], \A m \in Nodes : Running(m)' => Running(m)
    PROVE  LeaseInv'
  <1> USE DEF LeaseInv
  <1>1. LeaseTypeOK'
    <2>1. ttl' \in Nat /\ owner' \in Nodes \cup {None} /\ granted' \in Nodes \cup {None}
      BY LeaseAssumption DEF LeaseTypeOK, Release, MongoRelease, store
    <2>2. UNCHANGED <<exists, torn, generation, snap, saved, late>>
      BY DEF Release, MongoRelease, store
    <2> QED
      BY <2>1, <2>2, Zenon DEF LeaseTypeOK
  <1>2. OwnerGranted' /\ GenerationsBehind' /\ ConfirmedKept'
    <2>1. CASE o # "failed" /\ Fence(n)
      BY <2>1
         DEF LeaseTypeOK, Release, MongoRelease, OwnerGranted, GenerationsBehind,
             ConfirmedKept, Content
    <2>2. CASE ~(o # "failed" /\ Fence(n))
      BY <2>2
         DEF Release, MongoRelease, store, OwnerGranted, GenerationsBehind,
             ConfirmedKept, Content
    <2> QED
      BY <2>1, <2>2
  <1>3. WriterKnowsAll' /\ LateKnowsAll'
    <2>1. CASE o # "failed" /\ Fence(n)
      BY <2>1, LeaseAssumption
         DEF LeaseTypeOK, Release, MongoRelease, WriterKnowsAll, LateKnowsAll, Fence, Matches, Content
    <2>2. CASE ~(o # "failed" /\ Fence(n))
      BY <2>2
         DEF LeaseTypeOK, Release, MongoRelease, store, WriterKnowsAll, LateKnowsAll,
             Fence, Matches, Content
    <2> QED
      BY <2>1, <2>2
  <1> QED
    BY <1>1, <1>2, <1>3

(* MongoDriver.Load and activate: a refused Load changes nothing; a        *)
(* granted one reads the stored data and moves past all generations, so    *)
(* that no earlier Save matches.                                           *)
LEMMA ActivateInv ==
    ASSUME LeaseInv, driver = "mongo", driver' = driver, NEW n \in Nodes, Activate(n)
    PROVE  LeaseInv'
  <1> USE DEF LeaseInv
  <1>0. PICK r \in Results :
           /\ MongoLoad(n, r)
           /\ granted' = IF r \in Granted THEN n ELSE granted
           /\ IF r \in {"created", "loaded"}
              THEN /\ pc' = [pc EXCEPT ![n] = "activating"]
                   /\ data' = [data EXCEPT ![n] = Content]
              ELSE UNCHANGED <<pc, data>>
    BY DEF Activate, Load
  <1>1. CASE Taken(n)
    <2>1. UNCHANGED <<store, late, pc, gen, data, timer, history, used>>
      BY <1>0, <1>1 DEF MongoLoad, LeaveTaken, Activate, Granted, history
    <2>2. LeaseTypeOK'
      BY <2>1, Zenon DEF LeaseTypeOK, store, history
    <2> QED
      BY <2>1, <2>2 DEF store, history, OwnerGranted, GenerationsBehind, WriterKnowsAll,
                        LateKnowsAll, ConfirmedKept, Running, Fence, Matches, Content
  <1>2. CASE ~Taken(n)
    <2>1. /\ exists' = TRUE
          /\ owner' = n
          /\ generation' = generation + 1
          /\ gen' = [gen EXCEPT ![n] = generation + 1]
          /\ ttl' = LeaseTicks
          /\ UNCHANGED <<torn, snap, timer, saved, late, used>>
      BY <1>0, <1>2 DEF MongoLoad, NextGeneration, Activate
    <2>2. /\ granted' = n
          /\ pc' = [pc EXCEPT ![n] = "activating"]
          /\ data' = [data EXCEPT ![n] = Content]
      BY <1>0, <1>2 DEF MongoLoad, Granted
    <2>3. LeaseTypeOK'
      <3>1. /\ generation' \in Nat /\ gen' \in [Nodes -> Nat] /\ ttl' \in Nat
        BY <2>1, LeaseAssumption DEF LeaseTypeOK
      <3>2. pc' \in [Nodes -> Pcs] /\ data' \in [Nodes -> SUBSET Updates]
        <4>1. Content \in SUBSET Updates
          <5>1. CASE snap = None
            BY <5>1 DEF Content
          <5>2. CASE snap # None
            BY <5>2, Zenon DEF LeaseTypeOK, Content
          <5> QED
            BY <5>1, <5>2
        <4> QED
          BY <2>2, <4>1 DEF LeaseTypeOK
      <3>3. exists' \in BOOLEAN /\ owner' \in Nodes \cup {None} /\ granted' \in Nodes \cup {None}
        BY <2>1, <2>2
      <3> QED
        BY <2>1, <2>2, <3>1, <3>2, <3>3, Zenon DEF LeaseTypeOK
    <2>4. OwnerGranted' /\ GenerationsBehind' /\ ConfirmedKept'
      BY <2>1, <2>2 DEF LeaseTypeOK, OwnerGranted, GenerationsBehind, ConfirmedKept, Content
    <2>5. WriterKnowsAll'
      BY <2>1, <2>2 DEF LeaseTypeOK, WriterKnowsAll, Fence, Matches, Content
    <2>6. LateKnowsAll'
      BY <2>1, <2>2 DEF LeaseTypeOK, LateKnowsAll, GenerationsBehind, Matches
    <2> QED
      BY <2>3, <2>4, <2>5, <2>6
  <1> QED
    BY <1>1, <1>2

(* MongoDriver.ForceRelease takes the lease from everybody.                *)
LEMMA ForceReleaseInv ==
    ASSUME LeaseInv, driver = "mongo", driver' = driver, ForceRelease
    PROVE  LeaseInv'
  <1> USE DEF LeaseInv
  <1>1. LeaseTypeOK'
    <2>1. generation' \in Nat /\ ttl' \in Nat /\ snap' = snap
      BY LeaseAssumption DEF ForceRelease, MongoForceRelease, LeaseTypeOK
    <2>2. exists' \in BOOLEAN /\ owner' \in Nodes \cup {None} /\ granted' \in Nodes \cup {None}
      BY DEF ForceRelease, MongoForceRelease
    <2> QED
      BY <2>1, <2>2, Zenon DEF ForceRelease, MongoForceRelease, LeaseTypeOK, grain
  <1>2. OwnerGranted' /\ GenerationsBehind' /\ ConfirmedKept'
    BY
       DEF ForceRelease, MongoForceRelease, grain, LeaseTypeOK, OwnerGranted,
           GenerationsBehind, ConfirmedKept, Content
  <1>3. WriterKnowsAll' /\ LateKnowsAll'
    BY LeaseAssumption
       DEF ForceRelease, MongoForceRelease, grain, LeaseTypeOK, WriterKnowsAll,
           LateKnowsAll, Fence, Matches
  <1> QED
    BY <1>1, <1>2, <1>3

(* A Save whose sender died is written only if nobody has taken the lease  *)
(* since, and then it holds all of the stored data.                        *)
LEMMA LateSaveInv ==
    ASSUME LeaseInv, driver = "mongo", driver' = driver, LateSave
    PROVE  LeaseInv'
  <1> USE DEF LeaseInv
  <1>0. late \in [node : Nodes, gen : Nat, data : SUBSET Updates] /\ late' = None
    BY DEF LateSave, LeaseTypeOK
  <1>1. CASE Matches(late.node, late.gen)
    <2>1. /\ Content \subseteq late.data
          /\ ~Running(late.node)
          /\ exists /\ owner = late.node /\ generation = late.gen
      BY <1>0, <1>1 DEF LateSave, LateKnowsAll, Matches
    <2>2. UNCHANGED <<exists, torn, owner, generation>>
      BY <1>0, <1>1, <2>1 DEF LateSave, Write, MongoSave, Snapshots
    <2>3. snap' \in (SUBSET Updates) \cup {None} /\ ttl' \in Nat /\ Content' = late.data
      BY <1>0, <1>1, LeaseAssumption
         DEF LateSave, Write, MongoSave, Snapshots, LeaseTypeOK, Content
    <2>4. LeaseTypeOK'
      BY <1>0, <2>2, <2>3, Zenon DEF LateSave, LeaseTypeOK, grain, history
    <2>5. OwnerGranted' /\ GenerationsBehind' /\ LateKnowsAll'
      BY <1>0, <2>2
         DEF LateSave, LeaseTypeOK, grain, history, OwnerGranted, GenerationsBehind,
             LateKnowsAll
    <2>6. WriterKnowsAll' /\ ConfirmedKept'
      BY <2>1, <2>2, <2>3
         DEF LateSave, grain, history, WriterKnowsAll, Running, Fence, Matches, ConfirmedKept
    <2> QED
      BY <2>4, <2>5, <2>6
  <1>2. CASE ~Matches(late.node, late.gen)
    <2>1. UNCHANGED <<store, grain, history, used>>
      BY <1>2 DEF LateSave
    <2>2. LeaseTypeOK'
      BY <1>0, <2>1, Zenon DEF LeaseTypeOK, store, grain, history
    <2> QED
      BY <1>0, <2>1, <2>2 DEF store, grain, history, OwnerGranted, GenerationsBehind,
             WriterKnowsAll, LateKnowsAll, ConfirmedKept, Running, Fence, Matches, Content
  <1> QED
    BY <1>1, <1>2

(* A crash may leave a Save on its way; it knows what its sender knew.     *)
LEMMA CrashInv ==
    ASSUME LeaseInv, driver = "mongo", driver' = driver, NEW n \in Nodes, Crash(n)
    PROVE  LeaseInv'
  <1> USE DEF LeaseInv
  <1>0. UNCHANGED <<store, gen, data, history, used>>
    BY DEF Crash
  <1>1. /\ pc' \in [Nodes -> Pcs] /\ timer' \in [Nodes -> Nat \cup {None}]
        /\ ~Running(n)' /\ \A m \in Nodes : Running(m)' => Running(m)
        /\ Running(n)
    BY DEF Crash, LeaseTypeOK, Running
  <1>2. CASE UNCHANGED late
    <2>1. LeaseTypeOK'
      BY <1>0, <1>1, <1>2, Zenon DEF LeaseTypeOK, store, history
    <2> QED
      BY <1>0, <1>1, <1>2, <2>1
         DEF LeaseTypeOK, store, history, OwnerGranted, GenerationsBehind,
             WriterKnowsAll, LateKnowsAll, ConfirmedKept, Fence, Matches, Content
  <1>3. CASE late' = [node |-> n, gen |-> gen[n], data |-> data[n]]
    <2>1. late' \in [node : Nodes, gen : Nat, data : SUBSET Updates]
      BY <1>3 DEF LeaseTypeOK
    <2>2. LeaseTypeOK'
      BY <1>0, <1>1, <2>1, Zenon DEF LeaseTypeOK, store, history
    <2>3. OwnerGranted' /\ GenerationsBehind' /\ ConfirmedKept'
      BY <1>0, <1>3
         DEF LeaseTypeOK, store, history, OwnerGranted, GenerationsBehind, ConfirmedKept,
             Content
    <2>4. WriterKnowsAll' /\ LateKnowsAll'
      BY <1>0, <1>1, <1>3
         DEF LeaseTypeOK, store, WriterKnowsAll, LateKnowsAll, Fence, Matches,
             Content
    <2> QED
      BY <2>2, <2>3, <2>4
  <1> QED
    BY <1>2, <1>3 DEF Crash

(* The steps that touch neither the store nor who may write to it.         *)
LEMMA QuietInv ==
    ASSUME LeaseInv, driver' = driver, UNCHANGED <<late, gen, granted, saved>>,
           UNCHANGED <<exists, torn, owner, generation, snap>>, ttl' \in Nat,
           data' \in [Nodes -> SUBSET Updates], \A m \in Nodes : data[m] \subseteq data'[m],
           pc' \in [Nodes -> Pcs], \A m \in Nodes : Running(m)' => Running(m),
           timer' \in [Nodes -> Nat \cup {None}],
           used' \in SUBSET Updates
    PROVE  LeaseInv'
  <1> USE DEF LeaseInv
  <1>1. LeaseTypeOK'
    BY Zenon DEF LeaseTypeOK
  <1>2. OwnerGranted' /\ GenerationsBehind' /\ ConfirmedKept'
    BY DEF OwnerGranted, GenerationsBehind, ConfirmedKept, Content
  <1>3. WriterKnowsAll' /\ LateKnowsAll'
    BY DEF LeaseTypeOK, WriterKnowsAll, LateKnowsAll, Fence, Matches, Content
  <1> QED
    BY <1>1, <1>2, <1>3

(* Every step of a node's grain (SetupGrain's hooks and the handlers).     *)
LEMMA NodeInv ==
    ASSUME LeaseInv, driver = "mongo", driver' = driver, persist \in Nat,
           NEW n \in Nodes, NodeStep(n)
    PROVE  LeaseInv'
  <1> USE DEF LeaseInv
  <1>1. CASE Activate(n)
    BY <1>1, ActivateInv
  <1>2. CASE OnActivate(n) \/ Quit(n)
    <2>1. /\ pc' \in [Nodes -> Pcs] /\ \A m \in Nodes : Running(m)' => Running(m)
          /\ timer' \in [Nodes -> Nat \cup {None}]
      BY <1>2, LeaseAssumption DEF OnActivate, Quit, LeaseTypeOK, Running
    <2> QED
      BY <1>2, <2>1, QuietInv DEF OnActivate, Quit, store, history, LeaseTypeOK
  <1>3. CASE OnActivateFails(n)
    <2>1. /\ pc' \in [Nodes -> Pcs] /\ \A m \in Nodes : Running(m)' => Running(m)
      BY <1>3 DEF OnActivateFails, LeaseTypeOK, Running
    <2> QED
      BY <1>3, <2>1, QuietInv DEF OnActivateFails, store, history, LeaseTypeOK
  <1>4. ASSUME NEW u \in Updates, Work(n, u) PROVE LeaseInv'
    <2>1. /\ data' \in [Nodes -> SUBSET Updates]
          /\ \A m \in Nodes : data[m] \subseteq data'[m]
          /\ used' \in SUBSET Updates
      BY <1>4 DEF Work, LeaseTypeOK
    <2> QED
      BY <1>4, <2>1, QuietInv DEF Work, store, history, LeaseTypeOK, Running
  <1>5. ASSUME NEW o \in Outcomes,
               Persist(n, o) \/ AutoPersist(n, o) \/ Deactivate(n, o) \/ OnQuitPersist(n, o)
        PROVE  LeaseInv'
    <2>1. Running(n) /\ Save(n, o) /\ UNCHANGED <<gen, data, used>>
      BY <1>5 DEF Persist, AutoPersist, Deactivate, OnQuitPersist, Running, grain
    <2>2. /\ pc' \in [Nodes -> Pcs] /\ \A m \in Nodes : Running(m)' => Running(m)
          /\ timer' \in [Nodes -> Nat \cup {None}]
      BY <1>5
         DEF Persist, AutoPersist, Deactivate, OnQuitPersist, Running, grain,
             LeaseTypeOK
    <2> QED
      BY <2>1, <2>2, SaveInv
  <1>6. ASSUME NEW o \in Outcomes, DeactivateRelease(n, o) \/ OnQuitRelease(n, o)
        PROVE  LeaseInv'
    <2>1. Release(n, o) /\ UNCHANGED <<gen, data, timer, used>>
      BY <1>6 DEF DeactivateRelease, OnQuitRelease
    <2>2. pc' \in [Nodes -> Pcs] /\ \A m \in Nodes : Running(m)' => Running(m)
      BY <1>6 DEF DeactivateRelease, OnQuitRelease, Running, LeaseTypeOK
    <2> QED
      BY <2>1, <2>2, ReleaseInv
  <1>7. CASE Crash(n)
    BY <1>7, CrashInv
  <1>8. CASE CrashInSave(n)
    BY <1>8 DEF CrashInSave
  <1> QED
    BY <1>1, <1>2, <1>3, <1>4, <1>5, <1>6, <1>7, <1>8 DEF NodeStep

(* Time only takes from the lease.                                         *)
LEMMA TickInv ==
    ASSUME LeaseInv, driver = "mongo", driver' = driver, Tick
    PROVE  LeaseInv'
  <1> USE DEF LeaseInv
  <1>1. ttl' \in Nat /\ UNCHANGED <<exists, torn, owner, generation, snap>>
    BY DEF Tick, Elapse, LeaseTypeOK
  <1>2. timer' \in [Nodes -> Nat \cup {None}]
    BY DEF Tick, LeaseTypeOK
  <1> QED
    BY <1>1, <1>2, QuietInv DEF Tick, LeaseTypeOK, Running

(* No step changes the deployment.                                         *)
LEMMA DeploymentStays == [Next]_vars => UNCHANGED deployment
  <1> SUFFICES ASSUME [Next]_vars PROVE UNCHANGED deployment
    OBVIOUS
  <1>1. ASSUME NEW n \in Nodes, NodeStep(n) PROVE UNCHANGED deployment
    <2>1. CASE Activate(n) \/ OnActivate(n) \/ OnActivateFails(n) \/ Quit(n) \/ Crash(n) \/ CrashInSave(n)
      BY <2>1, Zenon
         DEF Activate, OnActivate, OnActivateFails, Quit, Crash, CrashInSave, deployment
    <2>2. ASSUME NEW u \in Updates, Work(n, u) PROVE UNCHANGED deployment
      BY <2>2, Zenon DEF Work, deployment
    <2>3. ASSUME NEW o \in Outcomes,
                 \/ Persist(n, o) \/ AutoPersist(n, o) \/ Deactivate(n, o)
                 \/ DeactivateRelease(n, o) \/ OnQuitPersist(n, o) \/ OnQuitRelease(n, o)
          PROVE  UNCHANGED deployment
      BY <2>3, Zenon DEF Persist, AutoPersist, Deactivate, DeactivateRelease, OnQuitPersist,
                         OnQuitRelease, deployment
    <2> QED
      BY <1>1, <2>1, <2>2, <2>3 DEF NodeStep
  <1>2. CASE LateSave \/ ForceRelease \/ Tick
    BY <1>2, Zenon DEF LateSave, ForceRelease, Tick, deployment
  <1>3. CASE UNCHANGED vars
    BY <1>3 DEF vars
  <1> QED
    BY <1>1, <1>2, <1>3 DEF Next

(* LeaseInv is an invariant of the grain and its MongoDB store: lifecycle, *)
(* driver, crashes and late requests together.                             *)
THEOREM LeaseInvariance == Spec => []MongoInv
  <1>1. Init => MongoInv
    <2>1. Init => DeploymentOK
      BY LeaseAssumption DEF Init, DeploymentOK
    <2> QED
      BY <2>1, InitLeaseInv DEF MongoInv
  <1>2. MongoInv /\ [Next]_vars => MongoInv'
    <2> SUFFICES ASSUME MongoInv, [Next]_vars PROVE MongoInv'
      OBVIOUS
    <2>1. UNCHANGED deployment
      BY DeploymentStays
    <2>2. DeploymentOK' /\ driver' = driver /\ persist \in Nat
      BY <2>1, LeaseAssumption DEF MongoInv, DeploymentOK, deployment
    <2>3. ASSUME driver = "mongo" PROVE LeaseInv'
      <3>0. LeaseInv
        BY <2>3 DEF MongoInv
      <3>1. CASE UNCHANGED vars
        <4>1. LeaseTypeOK'
          BY <3>0, <3>1, Zenon DEF LeaseInv, LeaseTypeOK, vars, store, grain, history
        <4> QED
          BY <2>2, <3>0, <3>1, <4>1
             DEF LeaseInv, vars, store, grain, history, OwnerGranted, GenerationsBehind,
                 WriterKnowsAll, LateKnowsAll, ConfirmedKept, Running, Fence, Matches, Content
      <3> QED
        BY <2>2, <2>3, <3>0, <3>1, NodeInv, LateSaveInv, ForceReleaseInv, TickInv DEF Next
    <2> QED
      BY <2>2, <2>3 DEF MongoInv
  <1> QED
    BY <1>1, <1>2, PTL DEF Spec

(* No update that MongoDriver.Save has confirmed is ever lost from the     *)
(* store (driver_mongo.go:172 "prevents stale writes").                    *)
THEOREM AlwaysDurable == Spec => []Durable
  <1>1. MongoInv => Durable
    BY DEF MongoInv, LeaseInv, ConfirmedKept, Durable
  <1> QED
    BY <1>1, LeaseInvariance, PTL

(* Fencing.  In MongoDB and in Redis the owner that the store records is   *)
(* the node whose lease was granted last.                                  *)
FenceInv == driver # "file" => OwnerGranted

LEMMA FenceNode ==
    ASSUME driver # "file", driver' = driver, OwnerGranted, NEW n \in Nodes, NodeStep(n)
    PROVE  OwnerGranted'
  <1> USE DEF OwnerGranted
  <1>1. CASE Activate(n)
    BY <1>1 DEF Activate, Load, MongoLoad, RedisLoad, FileLoad, LeaveTaken, store, Granted
  <1>2. CASE OnActivate(n) \/ OnActivateFails(n) \/ Quit(n) \/ Crash(n)
    BY <1>2 DEF OnActivate, OnActivateFails, Quit, Crash, store, history
  <1>3. ASSUME NEW u \in Updates, Work(n, u) PROVE OwnerGranted'
    BY <1>3 DEF Work, store, history
  <1>4. ASSUME NEW o \in Outcomes,
               Persist(n, o) \/ AutoPersist(n, o) \/ Deactivate(n, o) \/ OnQuitPersist(n, o)
        PROVE  OwnerGranted'
    <2>1. Save(n, o)
      BY <1>4 DEF Persist, AutoPersist, Deactivate, OnQuitPersist
    <2> QED
      BY <2>1 DEF Save, Write, MongoSave, RedisSave, FileSave, store
  <1>5. ASSUME NEW o \in Outcomes, DeactivateRelease(n, o) \/ OnQuitRelease(n, o)
        PROVE  OwnerGranted'
    <2>1. Release(n, o)
      BY <1>5 DEF DeactivateRelease, OnQuitRelease
    <2> QED
      BY <2>1 DEF Release, MongoRelease, RedisRelease, FileRelease, store
  <1>6. CASE CrashInSave(n)
    BY <1>6 DEF CrashInSave
  <1> QED
    BY <1>1, <1>2, <1>3, <1>4, <1>5, <1>6 DEF NodeStep

(* A running activation that passes the filter of MongoDriver.Save or of   *)
(* RedisDriver's saveLua is the one whose lease was granted last.          *)
THEOREM AlwaysFenced == Spec => []NoStaleWriter
  <1>1. Init => FenceInv
    BY DEF Init, FenceInv, OwnerGranted
  <1>2. FenceInv /\ [Next]_vars => FenceInv'
    <2> SUFFICES ASSUME FenceInv, [Next]_vars, driver' # "file" PROVE OwnerGranted'
      BY DEF FenceInv
    <2>1. driver' = driver /\ driver # "file" /\ OwnerGranted
      BY DeploymentStays DEF deployment, FenceInv
    <2>2. ASSUME NEW n \in Nodes, NodeStep(n) PROVE OwnerGranted'
      BY <2>1, <2>2, FenceNode
    <2>3. CASE LateSave
      BY <2>1, <2>3
         DEF LateSave, Write, MongoSave, RedisSave, FileSave, store, history, OwnerGranted
    <2>4. CASE ForceRelease
      BY <2>1, <2>4 DEF ForceRelease, MongoForceRelease, RedisForceRelease, OwnerGranted
    <2>5. CASE Tick
      BY <2>1, <2>5 DEF Tick, OwnerGranted
    <2>6. CASE UNCHANGED vars
      BY <2>1, <2>6 DEF vars, store, history, OwnerGranted
    <2> QED
      BY <2>2, <2>3, <2>4, <2>5, <2>6 DEF Next
  <1>3. FenceInv => NoStaleWriter
    BY LeaseAssumption DEF FenceInv, OwnerGranted, NoStaleWriter, Fence, Matches
  <1> QED
    BY <1>1, <1>2, <1>3, PTL DEF Spec

(* Only MongoDriver.Load hands out generations; the other steps leave them *)
(* alone and start no activation.                                          *)
LEMMA GenerationsKept ==
    ASSUME LeaseTypeOK, driver = "mongo", NEW n \in Nodes, NodeStep(n), ~Activate(n)
    PROVE  gen' = gen /\ \A m \in Nodes : Running(m)' => Running(m)
  <1> USE DEF Running
  <1>1. CASE OnActivate(n) \/ OnActivateFails(n) \/ Quit(n) \/ Crash(n)
    BY <1>1 DEF OnActivate, OnActivateFails, Quit, Crash, LeaseTypeOK
  <1>2. ASSUME NEW u \in Updates, Work(n, u)
        PROVE  gen' = gen /\ \A m \in Nodes : Running(m)' => Running(m)
    BY <1>2 DEF Work
  <1>3. ASSUME NEW o \in Outcomes,
               \/ Persist(n, o) \/ AutoPersist(n, o) \/ Deactivate(n, o)
               \/ DeactivateRelease(n, o) \/ OnQuitPersist(n, o) \/ OnQuitRelease(n, o)
        PROVE  gen' = gen /\ \A m \in Nodes : Running(m)' => Running(m)
    BY <1>3 DEF Persist, AutoPersist, Deactivate, DeactivateRelease, OnQuitPersist, OnQuitRelease,
                grain, LeaseTypeOK
  <1>4. CASE CrashInSave(n)
    BY <1>4 DEF CrashInSave
  <1> QED
    BY <1>1, <1>2, <1>3, <1>4 DEF NodeStep

(* In MongoDB no two running activations hold the same fencing token       *)
(* (MongoDriver.Load's generation).                                        *)
THEOREM AlwaysUnique == Spec => []GenerationUnique
  <1>1. Init => GenerationUnique
    BY DEF Init, GenerationUnique, Running
  <1>2. MongoInv /\ GenerationUnique /\ [Next]_vars => GenerationUnique'
    <2> SUFFICES ASSUME MongoInv, GenerationUnique, [Next]_vars, driver' = "mongo",
                        NEW k \in Nodes, NEW m \in Nodes, k # m, Running(k)', Running(m)'
                 PROVE  gen'[k] # gen'[m]
      BY DEF GenerationUnique
    <2>1. driver = "mongo" /\ LeaseInv
      BY DeploymentStays DEF deployment, MongoInv
    <2>2. LeaseTypeOK /\ GenerationsBehind /\ (Running(k) /\ Running(m) => gen[k] # gen[m])
      BY <2>1 DEF LeaseInv, GenerationUnique
    <2>3. ASSUME gen' = gen, \A i \in Nodes : Running(i)' => Running(i) PROVE gen'[k] # gen'[m]
      BY <2>2, <2>3
    <2>4. ASSUME NEW n \in Nodes, Activate(n) PROVE gen'[k] # gen'[m]
      <3>1. PICK r \in Results :
               /\ MongoLoad(n, r)
               /\ IF r \in {"created", "loaded"}
                  THEN pc' = [pc EXCEPT ![n] = "activating"]
                  ELSE UNCHANGED pc
        BY <2>1, <2>4 DEF Activate, Load
      <3>2. CASE Taken(n)
        <4>1. gen' = gen /\ pc' = pc
          BY <3>1, <3>2 DEF MongoLoad
        <4> QED
          BY <2>3, <4>1 DEF Running
      <3>3. CASE ~Taken(n)
        <4>1. gen' = [gen EXCEPT ![n] = generation + 1] /\ pc' = [pc EXCEPT ![n] = "activating"]
          BY <3>1, <3>3 DEF MongoLoad, NextGeneration
        <4> QED
          BY <2>2, <4>1 DEF Running, LeaseTypeOK, GenerationsBehind
      <3> QED
        BY <3>2, <3>3
    <2>5. ASSUME NEW n \in Nodes, NodeStep(n), ~Activate(n) PROVE gen'[k] # gen'[m]
      BY <2>1, <2>2, <2>3, <2>5, GenerationsKept
    <2>6. CASE LateSave \/ ForceRelease \/ Tick \/ UNCHANGED vars
      BY <2>3, <2>6 DEF LateSave, ForceRelease, Tick, vars, grain, Running
    <2> QED
      BY <2>4, <2>5, <2>6 DEF Next
  <1> QED
    BY <1>1, <1>2, LeaseInvariance, PTL DEF Spec
-----------------------------------------------------------------------------
(* Type correctness, with every driver.  A Save or a Release leaves the    *)
(* document with its types.                                                *)
StoreTyped ==
    /\ exists \in BOOLEAN /\ torn \in BOOLEAN
    /\ owner \in Nodes \cup {None}
    /\ generation \in Nat /\ ttl \in Nat
    /\ snap \in (SUBSET Updates) \cup {None}

GrainTyped ==
    /\ pc \in [Nodes -> Pcs]
    /\ gen \in [Nodes -> Nat]
    /\ data \in [Nodes -> SUBSET Updates]
    /\ timer \in [Nodes -> Nat \cup {None}]

HistoryTyped ==
    /\ late \in [node : Nodes, gen : Nat, data : SUBSET Updates] \cup {None}
    /\ granted \in Nodes \cup {None}
    /\ saved \in SUBSET Updates
    /\ used \in SUBSET Updates

LEMMA TypedParts == LeaseTypeOK <=> StoreTyped /\ GrainTyped /\ HistoryTyped
  BY Zenon DEF LeaseTypeOK, StoreTyped, GrainTyped, HistoryTyped

LEMMA WriteTyped ==
    ASSUME StoreTyped, NEW g \in Nat, NEW d \in SUBSET Updates, Write(g, d)
    PROVE  StoreTyped'
  <1>1. snap' \in (SUBSET Updates) \cup {None} /\ generation' \in Nat /\ ttl' \in Nat
    BY LeaseAssumption
       DEF StoreTyped, Write, MongoSave, RedisSave, FileSave, Snapshots
  <1>2. owner' \in Nodes \cup {None}
    BY DEF StoreTyped, Write, MongoSave, RedisSave, FileSave
  <1>3. exists' \in BOOLEAN /\ torn' \in BOOLEAN
    BY Zenon DEF StoreTyped, Write, MongoSave, RedisSave, FileSave
  <1> QED
    BY <1>1, <1>2, <1>3, Zenon DEF StoreTyped

LEMMA SaveTyped ==
    ASSUME StoreTyped, GrainTyped, HistoryTyped, NEW n \in Nodes, NEW o, Save(n, o), UNCHANGED used
    PROVE  StoreTyped' /\ HistoryTyped'
  <1>1. gen[n] \in Nat /\ data[n] \in SUBSET Updates
    BY DEF GrainTyped
  <1>2. StoreTyped'
    <2>1. CASE UNCHANGED store
      BY <2>1, Zenon DEF StoreTyped, store
    <2> QED
      BY <1>1, <2>1, WriteTyped DEF Save
  <1>3. saved' \in SUBSET Updates
    BY <1>1 DEF Save, HistoryTyped
  <1> QED
    BY <1>2, <1>3 DEF Save, HistoryTyped

LEMMA ReleaseTyped ==
    ASSUME StoreTyped, HistoryTyped, NEW n \in Nodes, NEW o, Release(n, o), UNCHANGED used
    PROVE  StoreTyped' /\ HistoryTyped'
  <1>1. owner' \in Nodes \cup {None} /\ generation' \in Nat /\ ttl' \in Nat
    BY LeaseAssumption DEF StoreTyped, Release, MongoRelease, RedisRelease, FileRelease, store
  <1>2. UNCHANGED <<exists, torn, snap>>
    BY DEF Release, MongoRelease, RedisRelease, FileRelease, store
  <1>3. granted' \in Nodes \cup {None}
    BY DEF Release, HistoryTyped
  <1>4. StoreTyped'
    BY <1>1, <1>2, Zenon DEF StoreTyped
  <1> QED
    BY <1>3, <1>4 DEF Release, HistoryTyped

LEMMA ActivateTyped ==
    ASSUME StoreTyped, GrainTyped, HistoryTyped, NEW n \in Nodes, Activate(n)
    PROVE  StoreTyped' /\ GrainTyped' /\ HistoryTyped'
  <1>1. PICK r \in Results :
           /\ Load(n, r)
           /\ granted' = IF r \in Granted THEN n ELSE granted
           /\ IF r \in {"created", "loaded"}
              THEN /\ pc' = [pc EXCEPT ![n] = "activating"]
                   /\ data' = [data EXCEPT ![n] = Content]
              ELSE UNCHANGED <<pc, data>>
    BY DEF Activate
  <1>2. UNCHANGED <<timer, saved, late, used>>
    BY DEF Activate
  <1>3. Content \in SUBSET Updates
    BY DEF Content, StoreTyped
  <1>4. StoreTyped'
    <2>1. /\ owner' \in Nodes \cup {None} /\ generation' \in Nat /\ ttl' \in Nat
      BY <1>1, LeaseAssumption
         DEF StoreTyped, Load, MongoLoad, RedisLoad, FileLoad, LeaveTaken, NextGeneration, store
    <2>2. UNCHANGED <<torn, snap>> /\ exists' \in {exists, TRUE}
      BY <1>1 DEF Load, MongoLoad, RedisLoad, FileLoad, LeaveTaken, store
    <2>3. exists' \in BOOLEAN /\ torn' \in BOOLEAN
      BY <2>2, Zenon DEF StoreTyped
    <2> QED
      BY <2>1, <2>2, <2>3, Zenon DEF StoreTyped
  <1>5. gen' \in [Nodes -> Nat]
    <2>1. gen' = gen \/ gen' = [gen EXCEPT ![n] = generation'] \/ gen' = [gen EXCEPT ![n] = generation + 1]
      BY <1>1 DEF Load, MongoLoad, RedisLoad, FileLoad
    <2> QED
      BY <1>4, <2>1 DEF StoreTyped, GrainTyped
  <1>6. GrainTyped'
    BY <1>1, <1>2, <1>3, <1>5 DEF GrainTyped
  <1>7. HistoryTyped'
    BY <1>1, <1>2 DEF HistoryTyped
  <1> QED
    BY <1>4, <1>6, <1>7

LEMMA NodeTyped ==
    ASSUME StoreTyped, GrainTyped, HistoryTyped, persist \in Nat, NEW n \in Nodes, NodeStep(n)
    PROVE  StoreTyped' /\ GrainTyped' /\ HistoryTyped'
  <1>1. CASE Activate(n)
    BY <1>1, ActivateTyped
  <1>2. CASE OnActivate(n) \/ OnActivateFails(n) \/ Quit(n) \/ Crash(n)
    <2>1. UNCHANGED store /\ UNCHANGED <<gen, data, used>> /\ UNCHANGED history
      BY <1>2 DEF OnActivate, OnActivateFails, Quit, Crash
    <2>2. StoreTyped'
      BY <2>1, Zenon DEF StoreTyped, store
    <2>3. GrainTyped'
      BY <1>2, <2>1 DEF GrainTyped, OnActivate, OnActivateFails, Quit, Crash
    <2>4. late' = late \/ late' = [node |-> n, gen |-> gen[n], data |-> data[n]]
      BY <1>2 DEF OnActivate, OnActivateFails, Quit, Crash
    <2>5. late' \in [node : Nodes, gen : Nat, data : SUBSET Updates] \cup {None}
      BY <2>4 DEF HistoryTyped, GrainTyped
    <2> QED
      BY <2>1, <2>2, <2>3, <2>5 DEF HistoryTyped, history
  <1>3. ASSUME NEW u \in Updates, Work(n, u) PROVE StoreTyped' /\ GrainTyped' /\ HistoryTyped'
    <2>1. StoreTyped'
      BY <1>3, Zenon DEF Work, store, StoreTyped
    <2>2. GrainTyped' /\ HistoryTyped'
      BY <1>3 DEF Work, GrainTyped, HistoryTyped, history
    <2> QED
      BY <2>1, <2>2
  <1>4. ASSUME NEW o \in Outcomes,
               Persist(n, o) \/ AutoPersist(n, o) \/ Deactivate(n, o) \/ OnQuitPersist(n, o)
        PROVE  StoreTyped' /\ GrainTyped' /\ HistoryTyped'
    <2>1. Save(n, o) /\ UNCHANGED used
      BY <1>4 DEF Persist, AutoPersist, Deactivate, OnQuitPersist
    <2>2. GrainTyped'
      BY <1>4 DEF GrainTyped, Persist, AutoPersist, Deactivate, OnQuitPersist, grain
    <2> QED
      BY <2>1, <2>2, SaveTyped
  <1>5. ASSUME NEW o \in Outcomes, DeactivateRelease(n, o) \/ OnQuitRelease(n, o)
        PROVE  StoreTyped' /\ GrainTyped' /\ HistoryTyped'
    <2>1. Release(n, o) /\ UNCHANGED used
      BY <1>5 DEF DeactivateRelease, OnQuitRelease
    <2>2. GrainTyped'
      BY <1>5 DEF GrainTyped, DeactivateRelease, OnQuitRelease
    <2> QED
      BY <2>1, <2>2, ReleaseTyped
  <1>6. CASE CrashInSave(n)
    <2>1. StoreTyped'
      BY <1>6 DEF CrashInSave, StoreTyped
    <2>2. GrainTyped' /\ HistoryTyped'
      BY <1>6 DEF CrashInSave, GrainTyped, HistoryTyped, history
    <2> QED
      BY <2>1, <2>2
  <1> QED
    BY <1>1, <1>2, <1>3, <1>4, <1>5, <1>6 DEF NodeStep

(* The document, the grains and the Save on its way keep their types, with *)
(* every driver, through crashes and truncated files.                      *)
THEOREM AlwaysTyped == Spec => []TypeOK
  <1>1. Init => TypeOK
    <2>1. Init => DeploymentOK
      BY LeaseAssumption DEF Init, DeploymentOK
    <2> QED
      BY <2>1, InitLeaseInv DEF TypeOK, LeaseInv
  <1>2. TypeOK /\ [Next]_vars => TypeOK'
    <2> SUFFICES ASSUME TypeOK, [Next]_vars PROVE TypeOK'
      OBVIOUS
    <2>1. StoreTyped /\ GrainTyped /\ HistoryTyped
      BY TypedParts DEF TypeOK
    <2>2. DeploymentOK' /\ persist \in Nat
      BY DeploymentStays, LeaseAssumption DEF TypeOK, DeploymentOK, deployment
    <2> SUFFICES StoreTyped' /\ GrainTyped' /\ HistoryTyped'
      BY <2>2, Zenon DEF TypeOK, LeaseTypeOK, StoreTyped, GrainTyped, HistoryTyped
    <2>3. ASSUME NEW n \in Nodes, NodeStep(n) PROVE StoreTyped' /\ GrainTyped' /\ HistoryTyped'
      BY <2>1, <2>2, <2>3, NodeTyped
    <2>4. CASE LateSave
      <3>1. late \in [node : Nodes, gen : Nat, data : SUBSET Updates] /\ late' = None
        BY <2>1, <2>4 DEF LateSave, HistoryTyped
      <3>2. StoreTyped'
        <4>1. CASE UNCHANGED store
          BY <2>1, <4>1, Zenon DEF StoreTyped, store
        <4>2. CASE Write(late.gen, late.data)
          <5>1. late.gen \in Nat /\ late.data \in SUBSET Updates
            BY <3>1
          <5>2. PICK g \in Nat, d \in SUBSET Updates : g = late.gen /\ d = late.data
            BY <5>1
          <5> QED
            BY <2>1, <4>2, <5>2, WriteTyped
        <4> QED
          BY <2>4, <4>1, <4>2 DEF LateSave
      <3> QED
        BY <2>1, <2>4, <3>1, <3>2 DEF LateSave, GrainTyped, HistoryTyped, grain, history
    <2>5. CASE ForceRelease
      <3>1. StoreTyped'
        <4>1. /\ owner' \in Nodes \cup {None} /\ generation' \in Nat /\ ttl' \in Nat
              /\ UNCHANGED <<torn, snap>> /\ exists' = TRUE
          BY <2>1, <2>5, LeaseAssumption
             DEF ForceRelease, MongoForceRelease, RedisForceRelease, FileForceRelease, StoreTyped
        <4> QED
          BY <2>1, <4>1, Zenon DEF StoreTyped
      <3> QED
        BY <2>1, <2>5, <3>1 DEF ForceRelease, GrainTyped, HistoryTyped, grain
    <2>6. CASE Tick
      <3>1. timer' \in [Nodes -> Nat \cup {None}]
        BY <2>1, <2>6 DEF Tick, GrainTyped
      <3>2. generation' \in Nat /\ ttl' \in Nat /\ owner' \in Nodes \cup {None}
            /\ snap' \in (SUBSET Updates) \cup {None}
        BY <2>1, <2>6 DEF Tick, Elapse, StoreTyped
      <3>3. exists' \in BOOLEAN /\ torn' \in BOOLEAN
        BY <2>1, <2>6, Zenon DEF Tick, StoreTyped
      <3>4. StoreTyped'
        BY <3>2, <3>3, Zenon DEF StoreTyped
      <3> QED
        BY <2>1, <2>6, <3>1, <3>4 DEF Tick, GrainTyped, HistoryTyped
    <2>7. CASE UNCHANGED vars
      <3>1. StoreTyped'
        BY <2>1, <2>7, Zenon DEF vars, store, StoreTyped
      <3> QED
        BY <2>1, <2>7, <3>1 DEF vars, grain, history, GrainTyped, HistoryTyped
    <2> QED
      BY <2>3, <2>4, <2>5, <2>6, <2>7 DEF Next
  <1> QED
    BY <1>1, <1>2, PTL DEF Spec
-----------------------------------------------------------------------------
(* Deactivate and OnQuit save before they release.  What the store holds   *)
(* when the grain of node n is about to release, if I/O does not fail:     *)
(* everything, as long as the store would accept that release.             *)
Leaving(n) == pc[n] \in {"releasing", "quitrelease"}

ExitInv ==
    /\ \A n \in Nodes : Running(n) => n \in users
    /\ driver = "file" => late = None
    /\ ~ioFails /\ driver # "redis" =>
          \A n \in Nodes : Leaving(n) /\ Fence(n) => data[n] \subseteq Content

(* The files are local to a process: "no distributed contention for the    *)
(* lease, the owner is always the current process" (driver_json.go:74).    *)
FilesAlone == \A d \in Deployments : d.driver = "file" => \A m, n \in d.nodes : m = n

(* A step of the grain on n itself; n is about to release only after it    *)
(* has saved.                                                              *)
LEMMA ExitOwn ==
    ASSUME LeaseTypeOK, ExitInv, driver # "redis", ~ioFails, driver' = driver,
           driver \in {"mongo", "redis", "file"},
           NEW n \in Nodes, NodeStep(n), Leaving(n)', Fence(n)'
    PROVE  data'[n] \subseteq Content'
  <1>1. PICK o \in Outcomes : Save(n, o) /\ UNCHANGED <<gen, data>>
    <2>1. pc \in [Nodes -> Pcs] /\ pc'[n] \in {"releasing", "quitrelease"}
      BY DEF LeaseTypeOK, Leaving
    <2>2. ~Activate(n)
      BY <2>1 DEF Activate
    <2>3. ~OnActivate(n) /\ ~OnActivateFails(n) /\ ~Quit(n) /\ ~Crash(n) /\ ~CrashInSave(n)
      BY <2>1 DEF OnActivate, OnActivateFails, Quit, Crash, CrashInSave
    <2>4. \A u \in Updates : ~Work(n, u)
      BY <2>1 DEF Work
    <2>5. \A o \in Outcomes : /\ ~Persist(n, o) /\ ~AutoPersist(n, o)
                             /\ ~DeactivateRelease(n, o) /\ ~OnQuitRelease(n, o)
      BY <2>1 DEF Persist, AutoPersist, DeactivateRelease, OnQuitRelease, grain
    <2>6. \E o \in Outcomes : Deactivate(n, o) \/ OnQuitPersist(n, o)
      BY <2>2, <2>3, <2>4, <2>5 DEF NodeStep
    <2> QED
      BY <2>6 DEF Deactivate, OnQuitPersist
  <1>2. o = "answered"
    BY DEF Outcomes
  <1>3. data[n] \in SUBSET Updates
    BY DEF LeaseTypeOK
  <1>4. CASE Fence(n)
    <2>1. Write(gen[n], data[n])
      BY <1>1, <1>2, <1>4 DEF Save
    <2>2. snap' \in Snapshots(data[n])
      BY <2>1 DEF Write, MongoSave, FileSave, Snapshots
    <2>3. Content' = data[n]
      BY <1>3, <2>2, LeaseAssumption DEF Snapshots, Content
    <2> QED
      BY <1>1, <2>3
  <1>5. CASE ~Fence(n)
    <2>1. UNCHANGED store
      BY <1>1, <1>5 DEF Save
    <2> QED
      BY <1>1, <1>5, <2>1 DEF Fence, Matches, store
  <1> QED
    BY <1>4, <1>5

(* A step of another node's grain takes the fence away or leaves the data  *)
(* alone.                                                                  *)
LEMMA ExitOther ==
    ASSUME FilesAlone, TypeOK, ExitInv, ~ioFails, driver # "redis", UNCHANGED deployment,
           NEW n \in Nodes, NEW k \in Nodes, n # k, NodeStep(n), Leaving(k)', Fence(k)'
    PROVE  data'[k] \subseteq Content'
  <1>1. LeaseTypeOK /\ DeploymentOK
    BY DEF TypeOK
  <1>2. pc'[k] = pc[k] /\ gen'[k] = gen[k] /\ data'[k] = data[k]
    <2>1. /\ \A o : Persist(n, o) \/ AutoPersist(n, o) \/ Deactivate(n, o) \/ OnQuitPersist(n, o)
                    \/ DeactivateRelease(n, o) \/ OnQuitRelease(n, o)
                 => pc'[k] = pc[k] /\ gen'[k] = gen[k] /\ data'[k] = data[k]
      BY <1>1 DEF LeaseTypeOK, Persist, AutoPersist, Deactivate, OnQuitPersist, DeactivateRelease,
                  OnQuitRelease, grain
    <2>2. \A u : Work(n, u) => pc'[k] = pc[k] /\ gen'[k] = gen[k] /\ data'[k] = data[k]
      BY <1>1 DEF LeaseTypeOK, Work
    <2>3. Activate(n) => pc'[k] = pc[k] /\ gen'[k] = gen[k] /\ data'[k] = data[k]
      BY <1>1 DEF LeaseTypeOK, Activate, Load, MongoLoad, RedisLoad, FileLoad
    <2>4. OnActivate(n) \/ OnActivateFails(n) \/ Quit(n) \/ Crash(n) \/ CrashInSave(n)
             => pc'[k] = pc[k] /\ gen'[k] = gen[k] /\ data'[k] = data[k]
      BY <1>1 DEF LeaseTypeOK, OnActivate, OnActivateFails, Quit, Crash, CrashInSave
    <2> QED
      BY <2>1, <2>2, <2>3, <2>4 DEF NodeStep
  <1>3. Leaving(k) /\ Running(k)
    BY <1>2 DEF Leaving, Running
  <1>4. n \in users
    BY DEF ExitInv, Running, NodeStep, Activate, OnActivate, OnActivateFails, Work, Quit, Persist,
           AutoPersist, Deactivate, DeactivateRelease, OnQuitPersist, OnQuitRelease, Crash, CrashInSave
  <1>5. driver = "mongo"
    <2>1. driver = "file" => \A i, j \in users : i = j
      BY <1>1 DEF FilesAlone, DeploymentOK
    <2>2. driver \in {"mongo", "redis", "file"}
      BY <1>1, LeaseAssumption DEF DeploymentOK
    <2> QED
      BY <1>3, <1>4, <2>1, <2>2 DEF ExitInv
  <1>6. exists' /\ owner' = k /\ generation' = gen[k] /\ k # None /\ n # None
    BY <1>2, <1>5, LeaseAssumption DEF Fence, Matches, deployment
  <1>7. UNCHANGED <<exists, owner, generation, snap>>
    <2>1. CASE Activate(n)
      BY <1>5, <1>6, <2>1 DEF Activate, Load, MongoLoad, LeaveTaken, store
    <2>2. CASE OnActivate(n) \/ OnActivateFails(n) \/ Quit(n) \/ Crash(n)
      BY <2>2 DEF OnActivate, OnActivateFails, Quit, Crash, store
    <2>3. ASSUME NEW u \in Updates, Work(n, u) PROVE UNCHANGED <<exists, owner, generation, snap>>
      BY <2>3 DEF Work, store
    <2>4. ASSUME NEW o \in Outcomes,
                 Persist(n, o) \/ AutoPersist(n, o) \/ Deactivate(n, o) \/ OnQuitPersist(n, o)
          PROVE  UNCHANGED <<exists, owner, generation, snap>>
      <3>1. Save(n, o)
        BY <2>4 DEF Persist, AutoPersist, Deactivate, OnQuitPersist
      <3>2. ~Fence(n)
        BY <1>5, <1>6, <3>1 DEF Save, Write, MongoSave, store, Fence, Matches
      <3> QED
        BY <3>1, <3>2 DEF Save, store
    <2>5. ASSUME NEW o \in Outcomes, DeactivateRelease(n, o) \/ OnQuitRelease(n, o)
          PROVE  UNCHANGED <<exists, owner, generation, snap>>
      <3>1. Release(n, o)
        BY <2>5 DEF DeactivateRelease, OnQuitRelease
      <3> QED
        BY <1>5, <1>6, <3>1 DEF Release, MongoRelease, store
    <2>6. ~CrashInSave(n)
      BY <1>5 DEF CrashInSave
    <2> QED
      BY <2>1, <2>2, <2>3, <2>4, <2>5, <2>6 DEF NodeStep
  <1>8. Fence(k)
    BY <1>5, <1>6, <1>7 DEF Fence, Matches
  <1> QED
    BY <1>2, <1>3, <1>5, <1>7, <1>8 DEF ExitInv, Content

LEMMA ExitStep ==
    ASSUME FilesAlone, TypeOK, MongoInv, ExitInv, [Next]_vars
    PROVE  ExitInv'
  <1>1. /\ UNCHANGED deployment /\ driver' = driver /\ users' = users /\ ioFails' = ioFails
        /\ LeaseTypeOK /\ DeploymentOK /\ driver \in {"mongo", "redis", "file"}
    BY DeploymentStays, LeaseAssumption DEF deployment, TypeOK, DeploymentOK
  <1>2. \A n \in Nodes : Running(n)' => n \in users'
    <2> SUFFICES ASSUME NEW k \in Nodes, Running(k)', ~Running(k) PROVE k \in users
      BY <1>1 DEF ExitInv
    <2>1. pc \in [Nodes -> Pcs] /\ pc[k] = "off" /\ pc'[k] # "off"
      BY <1>1 DEF LeaseTypeOK, Running
    <2>2. \E n \in Nodes : NodeStep(n)
      BY <2>1 DEF Next, LateSave, ForceRelease, Tick, vars, grain
    <2>3. PICK n \in Nodes : NodeStep(n)
      BY <2>2
    <2>4. n = k
      BY <2>1, <2>3 DEF NodeStep, Activate, OnActivate, OnActivateFails, Work, Quit, Persist,
           AutoPersist, Deactivate, DeactivateRelease, OnQuitPersist, OnQuitRelease, Crash,
           CrashInSave, grain
    <2>5. Activate(k)
      BY <2>1, <2>3, <2>4 DEF NodeStep, OnActivate, OnActivateFails, Work, Quit, Persist,
           AutoPersist, Deactivate, DeactivateRelease, OnQuitPersist, OnQuitRelease, Crash,
           CrashInSave, grain
    <2> QED
      BY <2>5 DEF Activate
  <1>3. driver' = "file" => late' = None
    <2> SUFFICES ASSUME driver = "file", late = None, late' # None PROVE FALSE
      BY <1>1 DEF ExitInv
    <2> QED
      BY DEF Next, vars, NodeStep, LateSave, ForceRelease, Tick, Activate, OnActivate,
           OnActivateFails, Work, Quit, Persist, AutoPersist, Deactivate, DeactivateRelease,
           OnQuitPersist, OnQuitRelease, Crash, CrashInSave, Save, Release
  <1>4. ASSUME ~ioFails, driver # "redis", NEW k \in Nodes, Leaving(k)', Fence(k)'
        PROVE  data'[k] \subseteq Content'
    <2>1. ASSUME NEW n \in Nodes, NodeStep(n) PROVE data'[k] \subseteq Content'
      <3>1. CASE n = k
        BY <1>1, <1>4, <2>1, <3>1, ExitOwn
      <3>2. CASE n # k
        BY <1>1, <1>4, <2>1, <3>2, ExitOther
      <3> QED
        BY <3>1, <3>2
    <2>2. CASE LateSave \/ ForceRelease \/ Tick \/ UNCHANGED vars
      <3>1. UNCHANGED <<pc, gen, data>>
        BY <2>2 DEF LateSave, ForceRelease, Tick, vars, grain
      <3>2. Leaving(k) /\ Running(k)
        BY <1>4, <3>1 DEF Leaving, Running
      <3>3. Fence(k) /\ snap' = snap
        <4>1. CASE driver = "file"
          BY <1>4, <2>2, <4>1
             DEF LateSave, ForceRelease, FileForceRelease, Tick, vars, store, ExitInv, Fence, Matches
        <4>2. CASE driver = "mongo"
          <5>1. exists' /\ owner' = k /\ generation' = gen[k] /\ k # None
            BY <1>1, <1>4, <3>1, <4>2, LeaseAssumption DEF Fence, Matches
          <5>2. CASE LateSave
            <6>1. late \in [node : Nodes, gen : Nat, data : SUBSET Updates]
              BY <1>1, <5>2 DEF LateSave, LeaseTypeOK
            <6>2. CASE Matches(late.node, late.gen)
              <7>1. ~Running(late.node) /\ owner = late.node
                BY <4>2, <5>2, <6>2 DEF LateSave, MongoInv, LeaseInv, LateKnowsAll, Matches
              <7>2. owner' = owner
                BY <4>2, <5>2, <6>2 DEF LateSave, Write, MongoSave
              <7> QED
                BY <3>2, <5>1, <7>1, <7>2
            <6>3. CASE ~Matches(late.node, late.gen)
              BY <4>2, <5>1, <5>2, <6>3 DEF LateSave, store, Fence, Matches
            <6> QED
              BY <6>2, <6>3
          <5>3. CASE ForceRelease
            BY <4>2, <5>1, <5>3 DEF ForceRelease, MongoForceRelease
          <5>4. CASE Tick \/ UNCHANGED vars
            BY <4>2, <5>1, <5>4 DEF Tick, vars, store, Fence, Matches
          <5> QED
            BY <2>2, <5>2, <5>3, <5>4
        <4> QED
          BY <1>1, <1>4, <4>1, <4>2
      <3> QED
        BY <1>4, <3>1, <3>2, <3>3 DEF ExitInv, Content
    <2> QED
      BY <2>1, <2>2 DEF Next
  <1> QED
    BY <1>1, <1>2, <1>3, <1>4 DEF ExitInv

(* A grain that gives its lease back has its whole data in the store, when *)
(* the store can be reached (Deactivate, and SetupGrain's OnQuit hook).    *)
THEOREM AlwaysExitSaves == FilesAlone => (Spec => ExitSaves)
  <1> SUFFICES ASSUME FilesAlone PROVE Spec => ExitSaves
    OBVIOUS
  <1>1. Init => ExitInv
    BY DEF Init, ExitInv, Running, Leaving
  <1>2. TypeOK /\ MongoInv /\ ExitInv /\ [Next]_vars => ExitInv'
    BY ExitStep
  <1>3. TypeOK /\ ExitInv /\ [Next]_vars
        => [\A n \in Nodes :
              (/\ ~ioFails /\ driver # "redis"
               /\ pc[n] \in {"releasing", "quitrelease"} /\ granted = n /\ granted' = None)
                  => pc'[n] = pc[n] \/ data[n] \subseteq Content]_vars
    <2> SUFFICES ASSUME TypeOK, ExitInv, Next, NEW n \in Nodes, ~ioFails, driver # "redis",
                        pc[n] \in {"releasing", "quitrelease"}, granted = n, granted' = None,
                        pc'[n] # pc[n]
                 PROVE  data[n] \subseteq Content
      OBVIOUS
    <2>1. n # None
      BY LeaseAssumption
    <2>2. PICK m \in Nodes : NodeStep(m)
      BY DEF Next, LateSave, ForceRelease, Tick, grain
    <2>3. m # None
      BY LeaseAssumption
    <2>4. PICK o \in Outcomes : Release(m, o)
      <3>1. ~Activate(m)
        BY <2>1, <2>3 DEF Activate
      <3> QED
        BY <2>1, <2>2, <3>1 DEF NodeStep, OnActivate, OnActivateFails, Work, Quit, Persist,
             AutoPersist, Deactivate, DeactivateRelease, OnQuitPersist, OnQuitRelease, Crash,
             CrashInSave, Save, history
    <2>5. m = n /\ Fence(n)
      BY <2>1, <2>4 DEF Release
    <2> QED
      BY <2>5 DEF ExitInv, Leaving
  <1> QED
    BY <1>1, <1>2, <1>3, AlwaysTyped, LeaseInvariance, PTL DEF Spec, ExitSaves
=============================================================================
