-------------------------- MODULE ActorGroupProofs --------------------------
(***************************************************************************)
(* Proofs about ActorGroup, for any number of ids, requests and closers,   *)
(* any mailbox capacity and any handler behaviour.                         *)
(***************************************************************************)
EXTENDS ActorGroup, TLAPS

(* Only a single-target request spawns, so Id names an id of the group.    *)
SpawnerOK ==
    \A c \in Requests :
        pc[c] \in {"lock", "reuse", "waitdone"} \/ rpc[c] # "off"
            => req[c].kind \in {"post", "call"}

(* A goroutine that is about to use the runtime it found has found one.    *)
TargetOK ==
    /\ \A c \in Requests : pc[c] \in {"hold", "reuse", "waitdone"} => tgt[c] \in Requests
    /\ \A k \in Closers : cpc[k] = "unhold" => ctgt[k] \in Requests

(* g.mu admits one writer.                                                 *)
WriterOK ==
    \A c, d \in Requests :
        pc[c] \in {"reuse", "waitdone"} /\ pc[d] \in {"reuse", "waitdone"} => c = d

(* While spawnActor waits for the old runtime, Lock keeps the map entry.   *)
WaitOK ==
    \A c \in Requests : pc[c] = "waitdone" => actors[Id(c)] = tgt[c]

(* A request that has not resolved its actor yet has not spawned one.      *)
FreshOK ==
    \A c \in Requests : rpc[c] # "off" => pc[c] \in {"send", "unhold", "done"}

(* The map leads from an id to a runtime that was spawned for this id.     *)
MapOK ==
    \A id \in Ids : actors[id] # None =>
        rpc[actors[id]] # "off" /\ Id(actors[id]) = id

(* invokeBatch has a message to invoke.                                    *)
BatchOK == \A r \in Requests : rpc[r] = "invoke" => buf[r] # << >>

(* The inductive invariant.                                                *)
Control == /\ SpawnerOK
           /\ TargetOK
           /\ WriterOK
           /\ WaitOK
           /\ FreshOK
           /\ MapOK
           /\ BatchOK
           /\ SingleActivation
IndInv == TypeOK /\ Control

USE DEF groupVars, runVars, reqVars, closeVars, inputs, history

LEMMA IdInIds ==
    ASSUME RequestType, NEW c \in Requests, req[c].kind # "multi"
    PROVE  Id(c) \in Ids
<1>1. req[c] \in Shapes
  BY DEF RequestType
<1>2. PICK id \in Ids : req[c].ids = {id}
  BY <1>1, GroupAssumption
<1> QED
  BY <1>2 DEF Id

LEMMA InitIndInv == Init => IndInv
<1> SUFFICES ASSUME Init PROVE IndInv
  OBVIOUS
<1>1. GroupType
  <2>1. actors \in [Ids -> Requests \cup {None}]
    BY DEF Init
  <2>2. stopping \in BOOLEAN
    BY DEF Init
  <2>3. idle \in Int
    BY DEF Init
  <2> QED
    BY <2>1, <2>2, <2>3 DEF GroupType
<1>8. RuntimeType
  BY DEF Init, RuntimeType
<1>2. RunType
  BY DEF Init, RunType, RunPcs
<1>3. RequestType
  <2>1. \A c \in Requests : req[c].ids \subseteq Ids
    BY GroupAssumption DEF Init, Shape
  <2>2. todo \in [Requests -> SUBSET Ids]
    BY <2>1 DEF Init
  <2> QED
    BY <2>2 DEF Init, RequestType, ReqPcs, Errs
<1>4. CloserType
  BY DEF Init, CloserType, ClosePcs
<1>5. HistoryType
  BY DEF Init, HistoryType, Crashes
<1>6. SpawnerOK /\ TargetOK /\ WriterOK /\ WaitOK /\ FreshOK /\ MapOK /\ BatchOK
  BY DEF Init, SpawnerOK, TargetOK, WriterOK, WaitOK, FreshOK, MapOK, BatchOK
<1>7. SingleActivation
  BY DEF Init, SingleActivation, Live
<1> QED
  BY <1>1, <1>2, <1>3, <1>4, <1>5, <1>6, <1>7, <1>8
     DEF IndInv, TypeOK, Control

LEMMA UnholdType ==
    ASSUME RuntimeType, crashed \in Crashes, NEW a \in Requests, Unhold(a)
    PROVE  /\ holder' \in [Requests -> Int]
           /\ mclosed' \in [Requests -> BOOLEAN]
           /\ crashed' \in Crashes
<1>1. holder' \in [Requests -> Int]
  <2>1. holder \in [Requests -> Int]
    BY DEF RuntimeType
  <2>2. holder' = [holder EXCEPT ![a] = @ - 1]
    BY DEF Unhold
  <2> QED
    BY <2>1, <2>2
<1>2. mclosed' \in [Requests -> BOOLEAN]
  BY DEF RuntimeType, Unhold
<1>3. crashed' \in Crashes
  BY DEF Unhold, Crashes
<1> QED
  BY <1>1, <1>2, <1>3

LEMMA InsertType ==
    ASSUME TypeOK, NEW c \in Requests, Insert(c)
    PROVE  TypeOK'
<1> USE DEF TypeOK
<1>1. GroupType'
  <2>1. actors' \in [Ids -> Requests \cup {None}]
    BY DEF Insert, GroupType
  <2>2. stopping' \in BOOLEAN
    BY DEF Insert, GroupType
  <2>3. idle' \in Int
    <3>1. idle \in Int /\ idle' = idle + 1
      BY DEF Insert, GroupType
    <3> QED
      BY <3>1
  <2> QED
    BY <2>1, <2>2, <2>3 DEF GroupType
<1>2. RuntimeType'
  BY DEF Insert, RuntimeType, SpawnHolder
<1>3. RunType'
  BY DEF Insert, RunType, RunPcs
<1>4. RequestType'
  BY DEF Insert, RequestType, ReqPcs
<1>5. CloserType' /\ HistoryType'
  BY DEF Insert, CloserType, HistoryType
<1> QED
  BY <1>1, <1>2, <1>3, <1>4, <1>5

LEMMA RequestTypeOK ==
    ASSUME IndInv, NEW c \in Requests, RequestStep(c)
    PROVE  TypeOK'
<1> USE DEF IndInv, TypeOK, Control
<1>1. CASE CheckStopping(c)
  <2>1. RequestType'
    BY <1>1 DEF CheckStopping, RequestType, ReqPcs, Errs
  <2>2. GroupType' /\ RuntimeType' /\ RunType' /\ CloserType' /\ HistoryType'
    BY <1>1 DEF CheckStopping, GroupType, RuntimeType, RunType, CloserType, HistoryType
  <2> QED
    BY <2>1, <2>2 DEF TypeOK
<1>2. CASE RLock(c)
  <2>1. RequestType'
    BY <1>2 DEF RLock, RequestType, ReqPcs, Errs
  <2>2. GroupType' /\ RuntimeType' /\ RunType' /\ CloserType' /\ HistoryType'
    BY <1>2 DEF RLock, GroupType, RuntimeType, RunType, CloserType, HistoryType
  <2> QED
    BY <2>1, <2>2 DEF TypeOK
<1>3. ASSUME NEW id \in Ids, LookUp(c, id) PROVE TypeOK'
  <2>1. RequestType'
    <3>1. actors[id] \in Requests \cup {None}
      BY DEF GroupType
    <3>2. CASE Found(id)
      BY <1>3, <3>1, <3>2 DEF LookUp, RequestType, ReqPcs
    <3>3. CASE ~Found(id)
      BY <1>3, <3>3 DEF LookUp, RequestType
    <3> QED
      BY <3>2, <3>3
  <2>2. GroupType' /\ RuntimeType' /\ RunType' /\ CloserType' /\ HistoryType'
    BY <1>3 DEF LookUp, GroupType, RuntimeType, RunType, CloserType, HistoryType
  <2> QED
    BY <2>1, <2>2 DEF TypeOK
<1>4. CASE Hold(c)
  <2>1. RequestType'
    <3>1. tgt[c] \in Requests
      BY <1>4 DEF Hold, TargetOK
    <3> QED
      BY <1>4, <3>1 DEF Hold, RequestType, ReqPcs
  <2>2. RuntimeType'
    <3>1. holder \in [Requests -> Int] /\ holder' = [holder EXCEPT ![tgt[c]] = @ + 1]
      BY <1>4 DEF Hold, RuntimeType
    <3>2. tgt[c] \in Requests
      BY <1>4 DEF Hold, TargetOK
    <3>3. holder' \in [Requests -> Int]
      BY <3>1, <3>2
    <3> QED
      BY <1>4, <3>3 DEF Hold, RuntimeType
  <2>3. GroupType' /\ RunType' /\ CloserType' /\ HistoryType'
    BY <1>4 DEF Hold, GroupType, RunType, CloserType, HistoryType
  <2> QED
    BY <2>1, <2>2, <2>3 DEF TypeOK
<1>5. CASE RUnlock(c)
  <2>1. RequestType'
    BY <1>5 DEF RUnlock, RequestType, ReqPcs, Errs
  <2>2. GroupType' /\ RuntimeType' /\ RunType' /\ CloserType' /\ HistoryType'
    BY <1>5 DEF RUnlock, GroupType, RuntimeType, RunType, CloserType, HistoryType
  <2> QED
    BY <2>1, <2>2 DEF TypeOK
<1>6. CASE SpawnActor(c)
  <2>1. CASE stopping
    <3>1. HistoryType'
      BY <1>6, <2>1 DEF SpawnActor, HistoryType, Crashes
    <3>2. GroupType' /\ RuntimeType' /\ RunType' /\ RequestType' /\ CloserType'
      BY <1>6, <2>1 DEF SpawnActor, GroupType, RuntimeType, RunType, RequestType, CloserType
    <3> QED
      BY <3>1, <3>2
  <2>2. CASE ~stopping /\ actors[Id(c)] = None
    BY <1>6, <2>2, InsertType DEF SpawnActor
  <2>3. CASE ~stopping /\ actors[Id(c)] # None
    <3>1. actors[Id(c)] \in Requests \cup {None}
      BY <1>6, IdInIds DEF SpawnActor, SpawnerOK, GroupType
    <3>2. RequestType'
      BY <1>6, <2>3, <3>1 DEF SpawnActor, RequestType, ReqPcs
    <3>3. GroupType' /\ RuntimeType' /\ RunType' /\ CloserType' /\ HistoryType'
      BY <1>6, <2>3 DEF SpawnActor, GroupType, RuntimeType, RunType, CloserType, HistoryType
    <3> QED
      BY <3>2, <3>3
  <2> QED
    BY <2>1, <2>2, <2>3
<1>7. CASE SpawnReuse(c)
  <2>1. RequestType'
    <3>1. tgt[c] \in Requests
      BY <1>7 DEF SpawnReuse, TargetOK
    <3> QED
      BY <1>7, <3>1 DEF SpawnReuse, RequestType, ReqPcs
  <2>2. RuntimeType'
    <3>1. holder \in [Requests -> Int] /\ holder' = [holder EXCEPT ![tgt[c]] = @ + 1]
      BY <1>7 DEF SpawnReuse, RuntimeType
    <3>2. tgt[c] \in Requests
      BY <1>7 DEF SpawnReuse, TargetOK
    <3>3. holder' \in [Requests -> Int]
      BY <3>1, <3>2
    <3> QED
      BY <1>7, <3>3 DEF SpawnReuse, RuntimeType
  <2>3. GroupType' /\ RunType' /\ CloserType' /\ HistoryType'
    BY <1>7 DEF SpawnReuse, GroupType, RunType, CloserType, HistoryType
  <2> QED
    BY <2>1, <2>2, <2>3 DEF TypeOK
<1>8. CASE SpawnWaited(c)
  BY <1>8, InsertType DEF SpawnWaited
<1>9. CASE RefCheck(c)
  <2>1. RequestType'
    BY <1>9 DEF RefCheck, RequestType, ReqPcs, Errs
  <2>2. GroupType' /\ RuntimeType' /\ RunType' /\ CloserType' /\ HistoryType'
    BY <1>9 DEF RefCheck, GroupType, RuntimeType, RunType, CloserType, HistoryType
  <2> QED
    BY <2>1, <2>2 DEF TypeOK
<1>10. ASSUME NEW a \in Requests, Send(c, a) PROVE TypeOK'
  <2>1. RequestType'
    BY <1>10 DEF Send, RequestType, ReqPcs, Errs
  <2>2. RuntimeType'
    <3>1. CASE Full(a) \/ mclosed[a]
      BY <1>10, <3>1 DEF Send, RuntimeType
    <3>2. CASE ~(Full(a) \/ mclosed[a])
      <4>1. Append(mailbox[a], c) \in Seq(Requests)
        BY DEF RuntimeType
      <4> QED
        BY <1>10, <3>2, <4>1 DEF Send, RuntimeType
    <3> QED
      BY <3>1, <3>2
  <2>3. HistoryType'
    <3>1. CASE Full(a) \/ mclosed[a]
      BY <1>10, <3>1 DEF Send, HistoryType, Crashes
    <3>2. CASE ~(Full(a) \/ mclosed[a])
      <4>1. crashed' \in Crashes /\ outcome' \in [Requests -> [Requests -> Seq(Outcomes)]]
        BY <1>10, <3>2 DEF Send, HistoryType, Crashes
      <4>2. accepted' = [accepted EXCEPT ![c] = @ \cup {a}]
        BY <1>10, <3>2 DEF Send
      <4>3. accepted \in [Requests -> SUBSET Requests]
        BY DEF HistoryType
      <4>4. accepted' \in [Requests -> SUBSET Requests]
        BY <1>10, <4>2, <4>3
      <4> QED
        BY <4>1, <4>4 DEF HistoryType
    <3> QED
      BY <3>1, <3>2
  <2>4. GroupType' /\ RunType' /\ CloserType'
    BY <1>10 DEF Send, GroupType, RunType, CloserType
  <2> QED
    BY <2>1, <2>2, <2>3, <2>4 DEF TypeOK
<1>11. ASSUME NEW a \in Requests, Release(c, a) PROVE TypeOK'
  <2>1. RequestType'
    BY <1>11 DEF Release, RequestType, ReqPcs, Errs
  <2>2. RuntimeType'
    BY <1>11, UnholdType DEF Release, RuntimeType, HistoryType
  <2>3. HistoryType'
    BY <1>11, UnholdType DEF Release, HistoryType
  <2>4. GroupType' /\ RunType' /\ CloserType'
    BY <1>11 DEF Release, GroupType, RunType, CloserType
  <2> QED
    BY <2>1, <2>2, <2>3, <2>4 DEF TypeOK
<1> QED
  BY <1>1, <1>2, <1>3, <1>4, <1>5, <1>6, <1>7, <1>8, <1>9, <1>10, <1>11
     DEF RequestStep

LEMMA SettleType ==
    ASSUME HistoryType, NEW r \in Requests, NEW ms, NEW o \in Outcomes,
           Settle(r, ms, o), UNCHANGED <<crashed, accepted>>
    PROVE  HistoryType'
<1>1. \A c \in Requests : outcome[c] \in [Requests -> Seq(Outcomes)]
  BY DEF HistoryType
<1>2. \A c \in Requests : Append(outcome[c][r], o) \in Seq(Outcomes)
  BY <1>1
<1>3. \A c \in Requests : [outcome[c] EXCEPT ![r] = Append(@, o)]
                                \in [Requests -> Seq(Outcomes)]
  BY <1>1, <1>2
<1>4. outcome' \in [Requests -> [Requests -> Seq(Outcomes)]]
  BY <1>1, <1>3 DEF Settle
<1> QED
  BY <1>4 DEF HistoryType

LEMMA InvokeNextType ==
    ASSUME RunType, NEW r \in Requests, buf[r] # << >>, InvokeNext(r)
    PROVE  /\ buf' \in [Requests -> Seq(Requests)]
           /\ recov' \in [Requests -> {"none", "panicreq", "drop"}]
           /\ rpc' \in [Requests -> RunPcs]
<1>1. Tail(buf[r]) \in Seq(Requests)
  BY DEF RunType
<1>2. buf' \in [Requests -> Seq(Requests)]
  BY <1>1 DEF RunType, InvokeNext
<1>3. recov' \in [Requests -> {"none", "panicreq", "drop"}]
  BY DEF RunType, InvokeNext
<1>4. rpc' \in [Requests -> RunPcs]
  BY DEF RunType, InvokeNext, RunPcs
<1> QED
  BY <1>2, <1>3, <1>4

LEMMA SettleIdleType ==
    ASSUME idle \in Int, NEW was \in BOOLEAN, NEW now \in BOOLEAN,
           SettleIdle(was, now)
    PROVE  idle' \in Int
<1>1. CASE was /\ ~now
  <2>1. idle' = idle + 1
    BY <1>1, Zenon DEF SettleIdle
  <2> QED
    BY <2>1
<1>2. CASE ~was /\ now
  <2>1. idle' = idle - 1
    BY <1>2, Zenon DEF SettleIdle
  <2> QED
    BY <2>1
<1>3. CASE ~(was /\ ~now) /\ ~(~was /\ now)
  BY <1>3, Zenon DEF SettleIdle
<1> QED
  BY <1>1, <1>2, <1>3

LEMMA TakeType ==
    ASSUME RuntimeType, RunType, NEW r \in Requests, Take(r)
    PROVE  /\ buf' \in [Requests -> Seq(Requests)]
           /\ mailbox' \in [Requests -> Seq(Requests)]
<1>1. mailbox[r] \in Seq(Requests) /\ mailbox[r] # << >>
  BY DEF RuntimeType, Take
<1>2. Head(mailbox[r]) \in Requests /\ Tail(mailbox[r]) \in Seq(Requests)
  BY <1>1
<1>3. Append(buf[r], Head(mailbox[r])) \in Seq(Requests)
  BY <1>2 DEF RunType
<1> QED
  BY <1>2, <1>3 DEF RuntimeType, RunType, Take

LEMMA RunTypeOK ==
    ASSUME IndInv, NEW r \in Requests, RunStep(r)
    PROVE  TypeOK'
<1> USE DEF IndInv, TypeOK, Control
<1>1. CASE Top(r)
  <2>1. RunType'
    BY <1>1 DEF Top, RunType, RunPcs
  <2>2. GroupType' /\ RuntimeType' /\ RequestType' /\ CloserType' /\ HistoryType'
    BY <1>1 DEF Top, GroupType, RuntimeType, RequestType, CloserType, HistoryType
  <2> QED
    BY <2>1, <2>2
<1>2. CASE Pump(r)
  <2>1. RunType' /\ RuntimeType'
    <3>1. CASE Take(r)
      <4>1. rpc' = rpc
        BY <1>2, <3>1 DEF Pump, Take
      <4> QED
        BY <1>2, <3>1, <4>1, TakeType DEF Pump, RunType, RuntimeType
    <3>2. CASE ~Take(r)
      BY <1>2, <3>2 DEF Pump, RunType, RuntimeType, RunPcs
    <3> QED
      BY <3>1, <3>2
  <2>2. GroupType' /\ RequestType' /\ CloserType' /\ HistoryType'
    BY <1>2 DEF Pump, GroupType, RequestType, CloserType, HistoryType
  <2> QED
    BY <2>1, <2>2
<1>3. CASE Recv(r)
  <2>1. RunType' /\ RuntimeType'
    <3>1. CASE Take(r)
      <4>1. rpc' = [rpc EXCEPT ![r] = "pump"]
        BY <1>3, <3>1 DEF Recv, Take
      <4> QED
        BY <1>3, <3>1, <4>1, TakeType DEF Recv, RunType, RuntimeType, RunPcs
    <3>2. CASE ~Take(r)
      BY <1>3, <3>2 DEF Recv, RunType, RuntimeType, RunPcs
    <3> QED
      BY <3>1, <3>2
  <2>2. GroupType' /\ RequestType' /\ CloserType' /\ HistoryType'
    BY <1>3 DEF Recv, GroupType, RequestType, CloserType, HistoryType
  <2> QED
    BY <2>1, <2>2
<1>4. CASE BatchLoop(r)
  <2>1. RunType'
    BY <1>4 DEF BatchLoop, RunType, RunPcs
  <2>2. GroupType' /\ RuntimeType' /\ RequestType' /\ CloserType' /\ HistoryType'
    BY <1>4 DEF BatchLoop, GroupType, RuntimeType, RequestType, CloserType, HistoryType
  <2> QED
    BY <2>1, <2>2
<1>5. CASE Deny(r)
  <2>1. RunType'
    <3>1. buf[r] # << >>
      BY <1>5 DEF Deny, BatchOK
    <3> QED
      BY <1>5, <3>1, InvokeNextType DEF Deny, RunType
  <2>2. HistoryType'
    BY <1>5, SettleType DEF Deny, Outcomes
  <2>3. GroupType' /\ RuntimeType' /\ RequestType' /\ CloserType'
    BY <1>5 DEF Deny, GroupType, RuntimeType, RequestType, CloserType
  <2> QED
    BY <2>1, <2>2, <2>3
<1>6. CASE OnSpawnFails(r)
  <2>1. RunType'
    <3>1. buf[r] # << >>
      BY <1>6 DEF OnSpawnFails, BatchOK
    <3> QED
      BY <1>6, <3>1, InvokeNextType DEF OnSpawnFails, RunType
  <2>2. HistoryType'
    BY <1>6, SettleType DEF OnSpawnFails, Outcomes
  <2>3. GroupType' /\ RuntimeType' /\ RequestType' /\ CloserType'
    BY <1>6 DEF OnSpawnFails, GroupType, RuntimeType, RequestType, CloserType
  <2> QED
    BY <2>1, <2>2, <2>3
<1>7. ASSUME NEW now \in BOOLEAN, Invoke(r, now) PROVE TypeOK'
  <2>1. RunType'
    <3>1. buf[r] # << >>
      BY <1>7 DEF Invoke, BatchOK
    <3>2. ctx' \in [Requests -> {"nil", "idle", "active"}]
      BY <1>7 DEF Invoke, RunType
    <3> QED
      BY <1>7, <3>1, <3>2, InvokeNextType DEF Invoke, RunType
  <2>2. HistoryType'
    BY <1>7, SettleType DEF Invoke, Outcomes
  <2>3. GroupType'
    <3>1. idle' \in Int
      BY <1>7, SettleIdleType DEF Invoke, GroupType
    <3> QED
      BY <1>7, <3>1 DEF Invoke, GroupType
  <2>4. RuntimeType' /\ RequestType' /\ CloserType'
    BY <1>7 DEF Invoke, RuntimeType, RequestType, CloserType
  <2> QED
    BY <2>1, <2>2, <2>3, <2>4
<1>8. ASSUME NEW now \in BOOLEAN, InvokePanics(r, now) PROVE TypeOK'
  <2>1. RunType'
    BY <1>8 DEF InvokePanics, RunType, RunPcs
  <2>2. HistoryType'
    BY <1>8, SettleType DEF InvokePanics, Outcomes
  <2>3. GroupType'
    <3>1. idle' \in Int
      BY <1>8, SettleIdleType DEF InvokePanics, GroupType
    <3> QED
      BY <1>8, <3>1 DEF InvokePanics, GroupType
  <2>4. RuntimeType' /\ RequestType' /\ CloserType'
    BY <1>8 DEF InvokePanics, RuntimeType, RequestType, CloserType
  <2> QED
    BY <2>1, <2>2, <2>3, <2>4
<1>9. CASE ActorQuit(r)
  <2>1. rpc' \in [Requests -> RunPcs]
    BY <1>9 DEF ActorQuit, RunType, RunPcs
  <2>2. buf' \in [Requests -> Seq(Requests)] /\ mailbox' \in [Requests -> Seq(Requests)]
    <3>1. mailbox[r] \in Seq(Requests) /\ << >> \in Seq(Requests)
      BY DEF RuntimeType
    <3> QED
      BY <1>9, <3>1 DEF ActorQuit, RunType, RuntimeType
  <2>3. /\ holder' \in [Requests -> Int]
        /\ mclosed' \in [Requests -> BOOLEAN]
        /\ crashed' \in Crashes
    <3>1. CASE Unhold(r)
      BY <3>1, UnholdType DEF HistoryType
    <3>2. CASE UNCHANGED <<holder, mclosed, crashed>>
      BY <3>2 DEF RuntimeType, HistoryType
    <3> QED
      BY <1>9, <3>1, <3>2 DEF ActorQuit
  <2>4. closed' \in [Requests -> BOOLEAN]
    BY <1>9 DEF ActorQuit, RuntimeType
  <2>5. RunType' /\ RuntimeType'
    BY <1>9, <2>1, <2>2, <2>3, <2>4 DEF ActorQuit, RunType, RuntimeType
  <2>6. HistoryType'
    BY <1>9, <2>3 DEF ActorQuit, HistoryType
  <2>7. GroupType' /\ RequestType' /\ CloserType'
    BY <1>9 DEF ActorQuit, GroupType, RequestType, CloserType
  <2> QED
    BY <2>5, <2>6, <2>7
<1>10. CASE Exit(r)
  <2>1. RunType'
    BY <1>10 DEF Exit, RunType, RunPcs
  <2>2. HistoryType'
    BY <1>10, SettleType DEF Exit, Outcomes
  <2>3. GroupType'
    <3>1. idle \in Int /\ (idle' = idle - 1 \/ idle' = idle)
      BY <1>10 DEF Exit, GroupType
    <3>2. idle' \in Int
      BY <3>1
    <3> QED
      BY <1>10, <3>2 DEF Exit, GroupType
  <2>4. RuntimeType' /\ RequestType' /\ CloserType'
    BY <1>10 DEF Exit, RuntimeType, RequestType, CloserType
  <2> QED
    BY <2>1, <2>2, <2>3, <2>4
<1>11. CASE Drain(r)
  <2>1. CASE mailbox[r] = << >>
    <3>1. RunType'
      BY <1>11, <2>1 DEF Drain, RunType, RunPcs
    <3>2. GroupType' /\ RuntimeType' /\ RequestType' /\ CloserType' /\ HistoryType'
      BY <1>11, <2>1 DEF Drain, GroupType, RuntimeType, RequestType, CloserType, HistoryType
    <3> QED
      BY <3>1, <3>2
  <2>2. CASE mailbox[r] # << >>
    <3>1. HistoryType'
      BY <1>11, <2>2, SettleType DEF Drain, Outcomes
    <3>2. RuntimeType'
      <4>1. Tail(mailbox[r]) \in Seq(Requests)
        BY <2>2 DEF RuntimeType
      <4> QED
        BY <1>11, <2>2, <4>1 DEF Drain, RuntimeType
    <3>3. GroupType' /\ RunType' /\ RequestType' /\ CloserType'
      BY <1>11, <2>2 DEF Drain, GroupType, RunType, RequestType, CloserType
    <3> QED
      BY <3>1, <3>2, <3>3
  <2> QED
    BY <2>1, <2>2
<1>12. CASE RemoveActor(r)
  <2>1. GroupType'
    <3>1. actors' \in [Ids -> Requests \cup {None}]
      BY <1>12 DEF RemoveActor, GroupType
    <3> QED
      BY <1>12, <3>1 DEF RemoveActor, GroupType
  <2>2. RunType'
    BY <1>12 DEF RemoveActor, RunType, RunPcs
  <2>3. RuntimeType' /\ RequestType' /\ CloserType' /\ HistoryType'
    BY <1>12 DEF RemoveActor, RuntimeType, RequestType, CloserType, HistoryType
  <2> QED
    BY <2>1, <2>2, <2>3
<1> QED
  BY <1>1, <1>2, <1>3, <1>4, <1>5, <1>6, <1>7, <1>8, <1>9, <1>10, <1>11, <1>12
     DEF RunStep

LEMMA CloserTypeOK ==
    ASSUME IndInv, NEW k \in Closers, CloserStep(k)
    PROVE  TypeOK'
<1> USE DEF IndInv, TypeOK, Control
<1>0. Mapped(k) \subseteq Requests
  <2>1. cop[k].ids \subseteq Ids
    BY GroupAssumption DEF CloserType, Closing
  <2> QED
    BY <2>1 DEF Mapped, GroupType
<1>1. CASE CloseFlag(k)
  <2>1. CloserType'
    BY <1>1 DEF CloseFlag, CloserType, ClosePcs
  <2>2. GroupType'
    <3>1. stopping' \in BOOLEAN
      BY <1>1 DEF CloseFlag, GroupType
    <3> QED
      BY <1>1, <3>1 DEF CloseFlag, GroupType
  <2>3. RuntimeType' /\ RunType' /\ RequestType' /\ HistoryType'
    BY <1>1 DEF CloseFlag, RuntimeType, RunType, RequestType, HistoryType
  <2> QED
    BY <2>1, <2>2, <2>3
<1>2. CASE CloseLookUp(k)
  <2>1. CloserType'
    BY <1>0, <1>2 DEF CloseLookUp, CloserType, ClosePcs
  <2>2. GroupType' /\ RuntimeType' /\ RunType' /\ RequestType' /\ HistoryType'
    BY <1>2 DEF CloseLookUp, GroupType, RuntimeType, RunType, RequestType, HistoryType
  <2> QED
    BY <2>1, <2>2
<1>3. ASSUME NEW a \in Requests, CloseCas(k, a) PROVE TypeOK'
  <2>1. CloserType'
    BY <1>3 DEF CloseCas, AfterClosing, CloserType, ClosePcs
  <2>2. RuntimeType'
    BY <1>3 DEF CloseCas, RuntimeType
  <2>3. GroupType' /\ RunType' /\ RequestType' /\ HistoryType'
    BY <1>3 DEF CloseCas, GroupType, RunType, RequestType, HistoryType
  <2> QED
    BY <2>1, <2>2, <2>3
<1>4. CASE CloseUnhold(k)
  <2>0. ctgt[k] \in Requests /\ Unhold(ctgt[k])
    BY <1>4 DEF CloseUnhold, TargetOK
  <2>1. CloserType'
    BY <1>4 DEF CloseUnhold, AfterClosing, CloserType, ClosePcs
  <2>2. RuntimeType'
    BY <1>4, <2>0, UnholdType DEF CloseUnhold, RuntimeType, HistoryType
  <2>3. HistoryType'
    BY <1>4, <2>0, UnholdType DEF CloseUnhold, HistoryType
  <2>4. GroupType' /\ RunType' /\ RequestType'
    BY <1>4 DEF CloseUnhold, GroupType, RunType, RequestType
  <2> QED
    BY <2>1, <2>2, <2>3, <2>4
<1>5. CASE JoinLookUp(k)
  <2>1. CloserType'
    BY <1>0, <1>5 DEF JoinLookUp, CloserType, ClosePcs
  <2>2. GroupType' /\ RuntimeType' /\ RunType' /\ RequestType' /\ HistoryType'
    BY <1>5 DEF JoinLookUp, GroupType, RuntimeType, RunType, RequestType, HistoryType
  <2> QED
    BY <2>1, <2>2
<1>6. CASE Join(k)
  <2>1. CloserType'
    BY <1>6 DEF Join, CloserType, ClosePcs
  <2>2. GroupType' /\ RuntimeType' /\ RunType' /\ RequestType' /\ HistoryType'
    BY <1>6 DEF Join, GroupType, RuntimeType, RunType, RequestType, HistoryType
  <2> QED
    BY <2>1, <2>2
<1> QED
  BY <1>1, <1>2, <1>3, <1>4, <1>5, <1>6 DEF CloserStep

LEMMA IdUnchanged ==
    ASSUME NEW c, UNCHANGED req
    PROVE  Id(c)' = Id(c)
BY Zenon DEF Id

(* A step that leaves alone what Control speaks of.                         *)
LEMMA ControlFrame ==
    ASSUME Control, UNCHANGED <<actors, rpc, buf, req, pc, tgt, cpc, ctgt>>
    PROVE  Control'
<1>1. \A d : Id(d)' = Id(d)
  BY IdUnchanged
<1>2. SpawnerOK' /\ TargetOK' /\ WriterOK' /\ FreshOK' /\ BatchOK'
  BY DEF Control, SpawnerOK, TargetOK, WriterOK, FreshOK, BatchOK
<1>3. WaitOK' /\ MapOK' /\ SingleActivation'
  BY <1>1 DEF Control, WaitOK, MapOK, SingleActivation, Live
<1> QED
  BY <1>2, <1>3 DEF Control

(* A request step that stays away from the map and ends outside the steps   *)
(* that need a lock or a target.                                            *)
LEMMA RequestFrame ==
    ASSUME Control, RequestType, NEW c \in Requests, NEW s,
           s \notin {"hold", "lock", "reuse", "waitdone"},
           pc[c] \in {"send", "unhold", "done"} => s \in {"send", "unhold", "done"},
           pc' = [pc EXCEPT ![c] = s],
           UNCHANGED <<actors, rpc, buf, req, tgt, cpc, ctgt>>
    PROVE  Control'
<1> USE DEF Control
<1>0. \A d : Id(d)' = Id(d)
  BY IdUnchanged
<1>1. SpawnerOK' /\ FreshOK'
  BY DEF SpawnerOK, FreshOK, RequestType
<1>2. TargetOK' /\ WriterOK'
  BY DEF TargetOK, WriterOK, RequestType
<1>3. WaitOK'
  BY <1>0 DEF WaitOK, RequestType
<1>4. MapOK' /\ BatchOK' /\ SingleActivation'
  BY <1>0 DEF MapOK, BatchOK, SingleActivation, Live
<1> QED
  BY <1>1, <1>2, <1>3, <1>4

(* The map insert, when no run loop serves the id and nobody else waits.   *)
LEMMA InsertControl ==
    ASSUME IndInv, NEW c \in Requests, Insert(c),
           pc[c] \in {"lock", "waitdone"},
           \A d \in Requests \ {c} : pc[d] # "waitdone",
           \A r \in Requests : Live(r) => actors[Id(c)] # r
    PROVE  Control'
<1> USE DEF IndInv, TypeOK, Control
<1>0. \A d : Id(d)' = Id(d)
  BY IdUnchanged DEF Insert
<1>1. SpawnerOK' /\ FreshOK'
  BY DEF Insert, SpawnerOK, FreshOK, RequestType, RunType
<1>2. TargetOK' /\ WriterOK'
  BY DEF Insert, TargetOK, WriterOK, RequestType
<1>3. WaitOK'
  BY DEF Insert, WaitOK, RequestType
<1>4. BatchOK'
  BY DEF Insert, BatchOK, RunType
<1>5. SingleActivation'
  <2>1. Id(c) \in Ids /\ actors'[Id(c)] = c
    BY IdInIds DEF Insert, GroupType, SpawnerOK
  <2>2. ASSUME NEW r \in Requests, Live(r)', r # c PROVE actors'[Id(r)] = r
    <3>1. Live(r)
      BY <2>2 DEF Insert, Live, RunType
    <3>2. actors[Id(r)] = r
      BY <3>1 DEF SingleActivation
    <3>3. Id(r) # Id(c)
      BY <3>1, <3>2
    <3>4. Id(r) \in Ids
      BY <3>1, IdInIds DEF SpawnerOK, Live
    <3> QED
      BY <3>2, <3>3, <3>4 DEF Insert, GroupType
  <2> QED
    BY <1>0, <2>1, <2>2 DEF SingleActivation
<1>6. MapOK'
  BY <1>0 DEF Insert, MapOK, GroupType, RunType
<1> QED
  BY <1>1, <1>2, <1>3, <1>4, <1>5, <1>6

LEMMA RequestControlOK ==
    ASSUME IndInv, NEW c \in Requests, RequestStep(c)
    PROVE  Control'
<1> USE DEF IndInv, TypeOK
<1>1. CASE CheckStopping(c)
  BY <1>1, RequestFrame DEF CheckStopping
<1>2. CASE RLock(c)
  BY <1>2, RequestFrame DEF RLock
<1>3. ASSUME NEW id \in Ids, LookUp(c, id) PROVE Control'
  <2>0. \A d : Id(d)' = Id(d)
    BY <1>3, IdUnchanged DEF LookUp
  <2>1. SpawnerOK' /\ FreshOK'
    BY <1>3 DEF LookUp, Control, SpawnerOK, FreshOK, RequestType
  <2>2. TargetOK'
    <3>1. actors[id] # None => actors[id] \in Requests
      BY DEF GroupType
    <3> QED
      BY <1>3, <3>1 DEF LookUp, Found, Control, TargetOK, RequestType
  <2>3. WriterOK'
    BY <1>3 DEF LookUp, Control, WriterOK, RequestType
  <2>4. WaitOK'
    BY <1>3, <2>0 DEF LookUp, Control, WaitOK, RequestType
  <2>5. MapOK' /\ BatchOK' /\ SingleActivation'
    BY <1>3, <2>0 DEF LookUp, Control, MapOK, BatchOK, SingleActivation, Live
  <2> QED
    BY <2>1, <2>2, <2>3, <2>4, <2>5 DEF Control
<1>4. CASE Hold(c)
  BY <1>4, RequestFrame DEF Hold
<1>5. CASE RUnlock(c)
  <2>0. \A d : Id(d)' = Id(d)
    BY <1>5, IdUnchanged DEF RUnlock
  <2>1. SpawnerOK' /\ FreshOK'
    BY <1>5 DEF RUnlock, Control, SpawnerOK, FreshOK, RequestType
  <2>2. TargetOK' /\ WriterOK'
    BY <1>5 DEF RUnlock, Control, TargetOK, WriterOK, RequestType
  <2>3. WaitOK'
    BY <1>5, <2>0 DEF RUnlock, Control, WaitOK, RequestType
  <2>4. MapOK' /\ BatchOK' /\ SingleActivation'
    BY <1>5, <2>0 DEF RUnlock, Control, MapOK, BatchOK, SingleActivation, Live
  <2> QED
    BY <2>1, <2>2, <2>3, <2>4 DEF Control
<1>6. CASE SpawnActor(c)
  <2>0. pc[c] = "lock" /\ \A d \in Requests : pc[d] \notin {"reuse", "waitdone"}
    BY <1>6 DEF SpawnActor, WLocked
  <2>1. CASE stopping
    BY <1>6, <2>1, ControlFrame DEF SpawnActor
  <2>2. CASE ~stopping /\ actors[Id(c)] = None
    <3>1. Insert(c)
      BY <1>6, <2>2 DEF SpawnActor
    <3>2. \A r \in Requests : actors[Id(c)] # r
      BY <2>2, GroupAssumption
    <3> QED
      BY <2>0, <3>1, <3>2, InsertControl
  <2>3. CASE ~stopping /\ actors[Id(c)] # None
    <3>0. \A d : Id(d)' = Id(d)
      BY <1>6, <2>3, IdUnchanged DEF SpawnActor
    <3>1. actors[Id(c)] \in Requests
      BY <2>0, <2>3, IdInIds DEF Control, SpawnerOK, GroupType
    <3>2. PICK s \in {"waitdone", "reuse"} : pc' = [pc EXCEPT ![c] = s]
      BY <1>6, <2>3 DEF SpawnActor
    <3>3. /\ tgt' = [tgt EXCEPT ![c] = actors[Id(c)]]
          /\ UNCHANGED <<actors, rpc, buf, req, cpc, ctgt>>
      BY <1>6, <2>3 DEF SpawnActor
    <3>4. SpawnerOK' /\ FreshOK'
      BY <2>0, <3>2, <3>3 DEF Control, SpawnerOK, FreshOK, RequestType
    <3>5. TargetOK'
      BY <3>1, <3>2, <3>3 DEF Control, TargetOK, RequestType
    <3>6. WriterOK'
      BY <2>0, <3>2 DEF Control, WriterOK, RequestType
    <3>7. WaitOK'
      BY <2>0, <3>0, <3>2, <3>3 DEF Control, WaitOK, RequestType
    <3>8. MapOK' /\ BatchOK' /\ SingleActivation'
      BY <3>0, <3>3 DEF Control, MapOK, BatchOK, SingleActivation, Live
    <3> QED
      BY <3>4, <3>5, <3>6, <3>7, <3>8 DEF Control
  <2> QED
    BY <2>1, <2>2, <2>3
<1>7. CASE SpawnReuse(c)
  BY <1>7, RequestFrame DEF SpawnReuse
<1>8. CASE SpawnWaited(c)
  <2>1. pc[c] = "waitdone" /\ Insert(c)
    BY <1>8 DEF SpawnWaited
  <2>2. \A d \in Requests \ {c} : pc[d] # "waitdone"
    BY <2>1 DEF Control, WriterOK
  <2>3. \A r \in Requests : Live(r) => actors[Id(c)] # r
    BY <1>8, <2>1 DEF SpawnWaited, OldIsGone, Done, Live, Control, WaitOK
  <2> QED
    BY <2>1, <2>2, <2>3, InsertControl
<1>9. CASE RefCheck(c)
  BY <1>9, RequestFrame DEF RefCheck
<1>10. ASSUME NEW a \in Requests, Send(c, a) PROVE Control'
  BY <1>10, RequestFrame DEF Send
<1>11. ASSUME NEW a \in Requests, Release(c, a) PROVE Control'
  BY <1>11, RequestFrame DEF Release
<1> QED
  BY <1>1, <1>2, <1>3, <1>4, <1>5, <1>6, <1>7, <1>8, <1>9, <1>10, <1>11
     DEF RequestStep

(* A step of a run loop that leaves the map alone.                          *)
LEMMA RunFrame ==
    ASSUME Control, RunType, NEW r \in Requests, NEW s,
           rpc[r] # "off",
           s # "off",
           Live(r) \/ s \in {"remove", "dead"},
           rpc' = [rpc EXCEPT ![r] = s],
           s = "invoke" => buf'[r] # << >>,
           \A d \in Requests \ {r} : buf'[d] = buf[d],
           UNCHANGED <<actors, req, pc, tgt, cpc, ctgt>>
    PROVE  Control'
<1> USE DEF Control
<1>0. \A d : Id(d)' = Id(d)
  BY IdUnchanged
<1>1. SpawnerOK' /\ FreshOK'
  BY DEF SpawnerOK, FreshOK, RunType
<1>2. TargetOK' /\ WriterOK' /\ WaitOK'
  BY <1>0 DEF TargetOK, WriterOK, WaitOK
<1>3. BatchOK'
  BY DEF BatchOK, RunType
<1>4. MapOK' /\ SingleActivation'
  BY <1>0 DEF MapOK, SingleActivation, Live, RunType
<1> QED
  BY <1>1, <1>2, <1>3, <1>4

LEMMA InvokeNextBatch ==
    ASSUME RunType, NEW r \in Requests, buf[r] # << >>, InvokeNext(r)
    PROVE  /\ \E s \in {"loop", "invoke"} :
                /\ rpc' = [rpc EXCEPT ![r] = s]
                /\ s = "invoke" => buf'[r] # << >>
           /\ \A d \in Requests \ {r} : buf'[d] = buf[d]
<1>1. buf[r] \in Seq(Requests) /\ buf'[r] = Tail(buf[r])
  BY DEF RunType, InvokeNext
<1>2. Len(buf[r]) # 1 => Tail(buf[r]) # << >>
  <2>1. Len(buf[r]) \in Nat /\ Len(buf[r]) # 0
    BY <1>1
  <2>2. Len(Tail(buf[r])) = Len(buf[r]) - 1
    BY <1>1
  <2>3. SUFFICES ASSUME Tail(buf[r]) = << >> PROVE Len(buf[r]) = 1
    OBVIOUS
  <2>4. Len(<< >>) = 0
    OBVIOUS
  <2>5. Len(Tail(buf[r])) = 0
    BY <2>3, <2>4, Zenon
  <2> QED
    BY <2>1, <2>2, <2>5
<1> QED
  BY <1>1, <1>2 DEF RunType, InvokeNext

LEMMA RunControlOK ==
    ASSUME IndInv, NEW r \in Requests, RunStep(r)
    PROVE  Control'
<1> USE DEF IndInv, TypeOK
<1>0. rpc[r] = "invoke" => buf[r] # << >>
  BY DEF Control, BatchOK
<1>1. CASE Top(r)
  BY <1>1, RunFrame DEF Top, Live
<1>2. CASE Pump(r)
  <2>1. PICK s \in {"pump", "recv", "loop"} : rpc' = [rpc EXCEPT ![r] = s]
    BY <1>2 DEF Pump, Take, RunType
  <2>2. \A d \in Requests \ {r} : buf'[d] = buf[d]
    BY <1>2 DEF Pump, Take, RunType
  <2> QED
    BY <1>2, <2>1, <2>2, RunFrame DEF Pump, Live
<1>3. CASE Recv(r)
  <2>1. PICK s \in {"pump", "exit"} : rpc' = [rpc EXCEPT ![r] = s]
    BY <1>3 DEF Recv, Take
  <2>2. \A d \in Requests \ {r} : buf'[d] = buf[d]
    BY <1>3 DEF Recv, Take, RunType
  <2> QED
    BY <1>3, <2>1, <2>2, RunFrame DEF Recv, Live
<1>4. CASE BatchLoop(r)
  <2>1. PICK s \in {"quit", "top", "exit", "invoke"} :
           rpc' = [rpc EXCEPT ![r] = s] /\ (s = "invoke" => buf[r] # << >>)
    BY <1>4 DEF BatchLoop
  <2> QED
    BY <1>4, <2>1, RunFrame DEF BatchLoop, Live
<1>5. CASE Deny(r)
  BY <1>0, <1>5, RunFrame, InvokeNextBatch DEF Deny, Live
<1>6. CASE OnSpawnFails(r)
  BY <1>0, <1>6, RunFrame, InvokeNextBatch DEF OnSpawnFails, Live
<1>7. ASSUME NEW now \in BOOLEAN, Invoke(r, now) PROVE Control'
  BY <1>0, <1>7, RunFrame, InvokeNextBatch DEF Invoke, Live
<1>8. ASSUME NEW now \in BOOLEAN, InvokePanics(r, now) PROVE Control'
  BY <1>8, RunFrame DEF InvokePanics, Live
<1>9. CASE ActorQuit(r)
  <2>1. PICK s \in {"top", "exit"} : rpc' = [rpc EXCEPT ![r] = s]
    BY <1>9 DEF ActorQuit
  <2>2. \A d \in Requests \ {r} : buf'[d] = buf[d]
    BY <1>9 DEF ActorQuit, RunType
  <2> QED
    BY <1>9, <2>1, <2>2, RunFrame DEF ActorQuit, Live
<1>10. CASE Exit(r)
  <2>1. \A d \in Requests \ {r} : buf'[d] = buf[d]
    BY <1>10 DEF Exit, RunType
  <2> QED
    BY <1>10, <2>1, RunFrame DEF Exit, Live
<1>11. CASE Drain(r)
  <2>1. PICK s \in {"drain", "remove"} : rpc' = [rpc EXCEPT ![r] = s]
    BY <1>11 DEF Drain, RunType
  <2> QED
    BY <1>11, <2>1, RunFrame DEF Drain, Live
<1>12. CASE RemoveActor(r)
  <2>0. \A d : Id(d)' = Id(d)
    BY <1>12, IdUnchanged DEF RemoveActor
  <2>1. SpawnerOK' /\ FreshOK'
    BY <1>12 DEF RemoveActor, Control, SpawnerOK, FreshOK, RunType
  <2>2. TargetOK' /\ WriterOK'
    BY <1>12 DEF RemoveActor, Control, TargetOK, WriterOK
  <2>3. WaitOK'
    BY <1>12 DEF RemoveActor, WLocked, WaitOK
  <2>4. BatchOK'
    BY <1>12 DEF RemoveActor, Control, BatchOK, RunType
  <2>5. SingleActivation'
    <3>1. ASSUME NEW d \in Requests, Live(d)' PROVE actors'[Id(d)] = d
      <4>1. Live(d) /\ d # r
        BY <1>12, <3>1 DEF RemoveActor, Live, RunType
      <4>2. actors[Id(d)] = d
        BY <4>1 DEF Control, SingleActivation
      <4>3. Id(d) \in Ids
        BY <4>1, IdInIds DEF Control, SpawnerOK, Live
      <4> QED
        BY <1>12, <4>1, <4>2, <4>3 DEF RemoveActor
    <3> QED
      BY <2>0, <3>1 DEF SingleActivation
  <2>6. MapOK'
    BY <1>12, <2>0 DEF RemoveActor, Control, MapOK, RunType
  <2> QED
    BY <2>1, <2>2, <2>3, <2>4, <2>5, <2>6 DEF Control
<1> QED
  BY <1>1, <1>2, <1>3, <1>4, <1>5, <1>6, <1>7, <1>8, <1>9, <1>10, <1>11, <1>12
     DEF RunStep

LEMMA CloserControlOK ==
    ASSUME IndInv, NEW k \in Closers, CloserStep(k)
    PROVE  Control'
<1> USE DEF IndInv, TypeOK
<1>1. UNCHANGED <<actors, rpc, buf, req, pc, tgt>>
  BY DEF CloserStep, CloseFlag, CloseLookUp, CloseCas, CloseUnhold, JoinLookUp, Join
<1>2. \A j \in Closers : cpc'[j] = "unhold" => ctgt'[j] \in Requests
  BY DEF CloserStep, CloseFlag, CloseLookUp, CloseCas, CloseUnhold, JoinLookUp,
         Join, AfterClosing, CloserType, Control, TargetOK
<1>3. \A d : Id(d)' = Id(d)
  BY <1>1, IdUnchanged
<1>4. SpawnerOK' /\ WriterOK' /\ FreshOK' /\ BatchOK'
  BY <1>1 DEF Control, SpawnerOK, WriterOK, FreshOK, BatchOK
<1>5. TargetOK'
  BY <1>1, <1>2 DEF Control, TargetOK
<1>6. WaitOK' /\ MapOK' /\ SingleActivation'
  BY <1>1, <1>3 DEF Control, WaitOK, MapOK, SingleActivation, Live
<1> QED
  BY <1>4, <1>5, <1>6 DEF Control
-----------------------------------------------------------------------------
LEMMA StutterIndInv ==
    ASSUME IndInv, UNCHANGED vars
    PROVE  IndInv'
<1>1. TypeOK'
  BY DEF IndInv, TypeOK, GroupType, RuntimeType, RunType, RequestType, CloserType,
         HistoryType, vars
<1>2. Control'
  BY ControlFrame DEF IndInv, vars
<1> QED
  BY <1>1, <1>2 DEF IndInv

LEMMA NextIndInv == IndInv /\ [Next]_vars => IndInv'
<1> SUFFICES ASSUME IndInv, [Next]_vars PROVE IndInv'
  OBVIOUS
<1>1. ASSUME NEW c \in Requests, RequestStep(c) PROVE IndInv'
  BY <1>1, RequestTypeOK, RequestControlOK DEF IndInv
<1>2. ASSUME NEW r \in Requests, RunStep(r) PROVE IndInv'
  BY <1>2, RunTypeOK, RunControlOK DEF IndInv
<1>3. ASSUME NEW k \in Closers, CloserStep(k) PROVE IndInv'
  BY <1>3, CloserTypeOK, CloserControlOK DEF IndInv
<1>4. CASE UNCHANGED vars
  BY <1>4, StutterIndInv
<1> QED
  BY <1>1, <1>2, <1>3, <1>4 DEF Next, Terminated

(* The invariant holds in every reachable state.                           *)
THEOREM Invariance == Spec => []IndInv
<1> QED
  BY InitIndInv, NextIndInv, PTL DEF Spec

(* Type correctness of the group, for every instance.                      *)
THEOREM TypeCorrect == Spec => []TypeOK
<1>1. IndInv => TypeOK
  BY DEF IndInv
<1> QED
  BY <1>1, Invariance, PTL

(* No two run loops ever serve one actor: spawnActor inserts a new runtime *)
(* only when the map has none or its predecessor has closed doneCh, and    *)
(* removeActor deletes only its own entry.                                 *)
THEOREM AlwaysSingleActivation == Spec => []SingleActivation
<1>1. IndInv => SingleActivation
  BY DEF IndInv, Control
<1> QED
  BY <1>1, Invariance, PTL
-----------------------------------------------------------------------------
(* The group implements ActorRegistry.                                     *)

(* A step that starts and ends no service is a stutter of the registry.    *)
LEMMA ServingFrame ==
    ASSUME UNCHANGED actors,
           \A r \in Requests : Live(r)' <=> Live(r),
           \A r \in Requests : rpc'[r] = "off" <=> rpc[r] = "off",
           GroupType
    PROVE  UNCHANGED <<Serving, Used>>
<1>1. Serving' = Serving
  BY DEF Serving, GroupType
<1>2. Used' = Used
  BY DEF Used
<1> QED
  BY <1>1, <1>2

(* spawnActor's insert activates the id.                                   *)
LEMMA InsertActivates ==
    ASSUME IndInv, NEW c \in Requests, Insert(c),
           pc[c] \in {"lock", "waitdone"},
           \A r \in Requests : Live(r) => actors[Id(c)] # r
    PROVE  Registry!Activate(Id(c), c)
<1> USE DEF IndInv, TypeOK, Control
<1>1. Id(c) \in Ids
  BY IdInIds DEF SpawnerOK
<1>2. rpc[c] = "off"
  BY DEF FreshOK
<1>3. Serving[Id(c)] = None
  BY <1>1 DEF Serving, GroupType
<1>4. c \notin Used
  BY <1>2 DEF Used
<1>5. /\ \A r \in Requests \ {c} : rpc'[r] = rpc[r]
      /\ rpc'[c] = "top"
      /\ \A id \in Ids \ {Id(c)} : actors'[id] = actors[id]
      /\ actors'[Id(c)] = c
  BY <1>1 DEF Insert, GroupType, RunType
<1>6. Used' = Used \cup {c}
  BY <1>5 DEF Used
<1>7. ASSUME NEW id \in Ids \ {Id(c)} PROVE Serving'[id] = Serving[id]
  <2>1. actors[id] # c
    BY <1>2, GroupAssumption DEF MapOK
  <2> QED
    BY <1>5, <2>1 DEF Serving, Live, GroupType
<1>8. Serving'[Id(c)] = c
  BY <1>1, <1>5, GroupAssumption DEF Serving, Live
<1>9. Serving' = [Serving EXCEPT ![Id(c)] = c]
  BY <1>1, <1>7, <1>8 DEF Serving
<1> QED
  BY <1>3, <1>4, <1>6, <1>9 DEF Registry!Activate

(* A request step activates its id or changes no service.                  *)
LEMMA RequestRefines ==
    ASSUME IndInv, NEW c \in Requests, RequestStep(c)
    PROVE  Registry!Next \/ UNCHANGED <<Serving, Used>>
<1> USE DEF IndInv, TypeOK
<1>1. CASE UNCHANGED <<actors, rpc>>
  BY <1>1, ServingFrame DEF Live
<1>2. CASE SpawnActor(c) /\ Insert(c)
  <2>1. pc[c] = "lock" /\ actors[Id(c)] = None
    BY <1>2, GroupAssumption DEF SpawnActor, Insert, RequestType
  <2>2. \A r \in Requests : actors[Id(c)] # r
    BY <2>1, GroupAssumption
  <2> QED
    BY <1>2, <2>1, <2>2, InsertActivates, IdInIds
       DEF Registry!Next, Control, SpawnerOK
<1>3. CASE SpawnWaited(c)
  <2>1. pc[c] = "waitdone" /\ Insert(c)
    BY <1>3 DEF SpawnWaited
  <2>2. \A r \in Requests : Live(r) => actors[Id(c)] # r
    BY <1>3, <2>1 DEF SpawnWaited, OldIsGone, Done, Live, Control, WaitOK
  <2> QED
    BY <2>1, <2>2, InsertActivates, IdInIds DEF Registry!Next, Control, SpawnerOK
<1> QED
  BY <1>1, <1>2, <1>3 DEF RequestStep, CheckStopping, RLock, LookUp, Hold, RUnlock,
     SpawnActor, SpawnReuse, RefCheck, Send, Release

(* close(doneCh) retires the id; no other step of a run loop changes a     *)
(* service, removeActor included.                                          *)
LEMMA RunRefines ==
    ASSUME IndInv, NEW r \in Requests, RunStep(r)
    PROVE  Registry!Next \/ UNCHANGED <<Serving, Used>>
<1> USE DEF IndInv, TypeOK
<1>1. CASE RemoveActor(r)
  <2>1. Used' = Used
    BY <1>1 DEF RemoveActor, RunType, Used
  <2>2. ASSUME NEW id \in Ids PROVE Serving'[id] = Serving[id]
    <3>1. CASE actors[id] = r
      BY <1>1, <3>1 DEF RemoveActor, Serving, Live
    <3>2. CASE actors[id] # r
      BY <1>1, <3>2 DEF RemoveActor, Serving, Live, RunType, GroupType
    <3> QED
      BY <3>1, <3>2
  <2>3. Serving' = Serving
    BY <2>2 DEF Serving
  <2> QED
    BY <2>1, <2>3
<1>2. CASE Drain(r) /\ mailbox[r] = << >>
  <2>1. Live(r) /\ rpc' = [rpc EXCEPT ![r] = "remove"] /\ UNCHANGED actors
    BY <1>2 DEF Drain, Live
  <2>2. Id(r) \in Ids /\ actors[Id(r)] = r
    BY <2>1, IdInIds DEF Control, SpawnerOK, SingleActivation, Live
  <2>3. Used' = Used
    BY <2>1 DEF Used, RunType, Live
  <2>4. ASSUME NEW id \in Ids \ {Id(r)} PROVE Serving'[id] = Serving[id]
    <3>1. actors[id] # r
      BY GroupAssumption DEF Control, MapOK
    <3> QED
      BY <2>1, <3>1 DEF Serving, Live, RunType, GroupType
  <2>5. Serving'[Id(r)] = None /\ Serving[Id(r)] # None
    BY <2>1, <2>2, GroupAssumption DEF Serving, Live, RunType
  <2>6. Serving' = [Serving EXCEPT ![Id(r)] = None]
    BY <2>2, <2>4, <2>5 DEF Serving
  <2> QED
    BY <2>2, <2>3, <2>5, <2>6 DEF Registry!Next, Registry!Retire
<1>3. CASE ~RemoveActor(r) /\ ~(Drain(r) /\ mailbox[r] = << >>)
  <2>1. UNCHANGED actors /\ Live(r)
    BY <1>3 DEF RunStep, Top, Pump, Recv, BatchLoop, Deny, OnSpawnFails, Invoke,
       InvokePanics, ActorQuit, Exit, Drain, Live
  <2>2. \E s : rpc' = [rpc EXCEPT ![r] = s] /\ s \notin {"off", "remove", "dead"}
    BY <1>3 DEF RunStep, Top, Pump, Recv, BatchLoop, Deny, OnSpawnFails, Invoke,
       InvokePanics, InvokeNext, ActorQuit, Exit, Drain, RunType
  <2> QED
    BY <2>1, <2>2, ServingFrame DEF Live, RunType
<1> QED
  BY <1>1, <1>2, <1>3

(* The group implements the registry: every id is served by at most one    *)
(* runtime, and a runtime serves once.                                     *)
THEOREM GroupImplementsRegistry == Spec => ImplementsRegistry
<1>1. Init => Registry!Init
  BY DEF Init, Registry!Init, Serving, Used, Live
<1>2. IndInv /\ [Next]_vars => [Registry!Next]_<<Serving, Used>>
  <2> SUFFICES ASSUME IndInv, [Next]_vars
               PROVE  Registry!Next \/ UNCHANGED <<Serving, Used>>
    OBVIOUS
  <2>1. ASSUME UNCHANGED <<actors, rpc>> PROVE UNCHANGED <<Serving, Used>>
    BY <2>1, ServingFrame DEF IndInv, TypeOK, Live
  <2>2. ASSUME NEW k \in Closers, CloserStep(k) PROVE UNCHANGED <<actors, rpc>>
    BY <2>2 DEF CloserStep, CloseFlag, CloseLookUp, CloseCas, CloseUnhold,
       JoinLookUp, Join
  <2> QED
    BY <2>1, <2>2, RequestRefines, RunRefines DEF Next, Terminated, vars
<1> QED
  BY <1>1, <1>2, Invariance, PTL DEF Spec, ImplementsRegistry, Registry!Spec
=============================================================================
