----------------------- MODULE ActorGroupSafetyProofs -----------------------
(***************************************************************************)
(* Proofs of the safety invariants of ActorGroup that rest on its          *)
(* reference counts and on what a mailbox and a batch contain, for any     *)
(* number of ids, requests and closers, any mailbox capacity and any       *)
(* handler behaviour.  IndInv of ActorGroupProofs is used throughout.      *)
(***************************************************************************)
EXTENDS ActorGroupProofs, FiniteSetTheorems, SequenceTheorems

(* ----------------------------- reference counts ------------------------ *)

FiniteRefs ==
    \A r \in Requests : IsFiniteSet(Holders(r)) /\ IsFiniteSet(Owing(r))

(* A runtime that was not spawned is unknown to everybody.                 *)
FreshRefs ==
    \A r \in Requests : rpc[r] = "off" =>
        /\ ~closed[r]
        /\ Holders(r) = {}
        /\ Owing(r) = {}
        /\ \A k \in Closers : r \notin ctodo[k]
        /\ \A c \in Requests : pc[c] \in {"hold", "reuse"} => tgt[c] # r

(* A request holds nothing before its lookup and on its way to spawnActor. *)
NoneHeld ==
    \A c \in Requests :
        pc[c] \in {"start", "rlock", "lock", "reuse", "waitdone"} => held[c] = {}

(* The lookup visits an id once, so it never holds one runtime twice.      *)
LookOK ==
    \A c \in Requests :
        /\ pc[c] \in {"look", "hold"} => \A a \in held[c] : Id(a) \notin todo[c]
        /\ pc[c] = "hold" => Id(tgt[c]) \notin todo[c] /\ tgt[c] \notin held[c]

(* The inductive invariant behind RefCount.                                *)
RefInv == /\ FiniteRefs
          /\ FreshRefs
          /\ NoneHeld
          /\ LookOK
          /\ RefCount

(* ------------------------------ retirement ----------------------------- *)

Retired == {"exit", "drain", "remove", "dead"}

(* Without closers only actorQuit sets closed, and it ends the run loop.   *)
ClosedOK ==
    \A r \in Requests : /\ closed[r] <=> rpc[r] \in Retired
                        /\ mclosed[r] => closed[r]

(* g.mu keeps a runtime open from the lookup to the hold.                  *)
TargetOpen ==
    \A c \in Requests : pc[c] \in {"hold", "reuse"} => ~closed[tgt[c]]

(* What a request still sends to it holds, and what it holds is open.      *)
HeldOpen ==
    \A c \in Requests :
        /\ pc[c] \notin {"unhold", "done"} => togo[c] \subseteq held[c]
        /\ \A a \in held[c] : ~closed[a]

(* The inductive invariant behind HeldAlive and MailboxSafe.               *)
OpenInv == /\ ClosedOK
           /\ TargetOpen
           /\ HeldOpen
           /\ MailboxSafe

(* ------------------------------- idle count ---------------------------- *)

IdleSet == {r \in Requests : CountedIdle(r)}

(* A run loop quits without a context, and a runtime starts without one.   *)
NoContext == \A r \in Requests : rpc[r] \in {"off", "quit", "exit"} => ctx[r] = "nil"

(* The inductive invariant behind IdleExact.                               *)
IdleInv == /\ IsFiniteSet(IdleSet)
           /\ NoContext
           /\ IdleExact

(* ------------------------------ conservation --------------------------- *)

NoRepeat(s) == \A i, j \in DOMAIN s : s[i] = s[j] => i = j

(* A message is queued once, and once in the batch.                        *)
OnceOK(r) == NoRepeat(mailbox[r]) /\ NoRepeat(buf[r])

(* Where the batch is empty, and where a recovery message may stand in it. *)
BatchEmpty(r) ==
    rpc[r] \in {"off", "recv", "quit", "drain", "remove", "dead"} => buf[r] = << >>
RecovOK(r) ==
    recov[r] # "none" => /\ rpc[r] \in {"loop", "invoke", "exit"}
                         /\ buf[r] # << >>
                         /\ rpc[r] # "exit" => ctx[r] # "nil"

(* A request sends once to each runtime.                                   *)
SendOnce ==
    \A c \in Requests :
        /\ togo[c] \cap accepted[c] = {}
        /\ pc[c] \notin {"send", "unhold", "done"} => accepted[c] = {}

(* The inductive invariant behind Conservation.                            *)
MessageInv == /\ \A r \in Requests : OnceOK(r) /\ BatchEmpty(r) /\ RecovOK(r)
              /\ SendOnce
              /\ Conservation

USE DEF groupVars, runVars, reqVars, closeVars, inputs, history
-----------------------------------------------------------------------------
(* Facts about counting, stated once.                                      *)

LEMMA AddOne ==
    ASSUME NEW S, IsFiniteSet(S), NEW x, x \notin S
    PROVE  /\ IsFiniteSet(S \cup {x})
           /\ Cardinality(S) \in Nat
           /\ Cardinality(S \cup {x}) = Cardinality(S) + 1
BY FS_AddElement, FS_CardinalityType

LEMMA DropOne ==
    ASSUME NEW S, IsFiniteSet(S), NEW x \in S
    PROVE  /\ IsFiniteSet(S \ {x})
           /\ Cardinality(S) \in Nat
           /\ Cardinality(S \ {x}) = Cardinality(S) - 1
BY FS_RemoveElement, FS_CardinalityType

LEMMA NoElement == IsFiniteSet({}) /\ Cardinality({}) = 0
BY FS_EmptySet
-----------------------------------------------------------------------------
(* The reference counts.                                                   *)

LEMMA InitRef == Init => RefInv
<1> SUFFICES ASSUME Init PROVE RefInv
  OBVIOUS
<1>1. \A r \in Requests : Holders(r) = {} /\ Owing(r) = {}
  BY DEF Init, Holders, Owing
<1>2. FiniteRefs
  BY <1>1, NoElement DEF FiniteRefs
<1>3. FreshRefs
  BY <1>1 DEF Init, FreshRefs
<1>4. NoneHeld
  BY DEF Init, NoneHeld
<1>5. LookOK
  BY DEF Init, LookOK
<1>6. RefCount
  BY DEF Init, RefCount
<1> QED
  BY <1>2, <1>3, <1>4, <1>5, <1>6 DEF RefInv

(* The part of the invariant that counts.                                  *)
Counts == FiniteRefs /\ RefCount

(* A step that neither takes nor gives back a reference.                   *)
LEMMA CountFrame ==
    ASSUME Counts, UNCHANGED <<holder, closed, held>>,
           \A r \in Requests : Owing(r)' = Owing(r),
           \A r \in Requests : rpc'[r] # "off" => rpc[r] # "off"
    PROVE  /\ Counts'
           /\ \A r \in Requests : Holders(r)' = Holders(r)
<1>1. \A r \in Requests : Holders(r)' = Holders(r)
  BY DEF Holders
<1>2. FiniteRefs'
  BY <1>1 DEF Counts, FiniteRefs
<1>3. RefCount'
  BY <1>1 DEF Counts, RefCount
<1> QED
  BY <1>1, <1>2, <1>3 DEF Counts

LEMMA OwingFrame ==
    ASSUME UNCHANGED <<cpc, ctgt>>, NEW r
    PROVE  Owing(r)' = Owing(r)
BY DEF Owing

(* hold: request c takes a reference to a.                                 *)
LEMMA CountGain ==
    ASSUME TypeOK, Counts, NEW c \in Requests, NEW a \in Requests,
           rpc[a] # "off",
           a \notin held[c],
           holder' = [holder EXCEPT ![a] = @ + 1],
           held' = [held EXCEPT ![c] = @ \cup {a}],
           UNCHANGED <<closed, rpc, cpc, ctgt>>
    PROVE  /\ Counts'
           /\ \A r \in Requests \ {a} : Holders(r)' = Holders(r)
           /\ \A r \in Requests : Owing(r)' = Owing(r)
<1> USE DEF TypeOK
<1>1. \A r \in Requests : Owing(r)' = Owing(r)
  BY OwingFrame
<1>2. /\ \A r \in Requests \ {a} : Holders(r)' = Holders(r)
      /\ Holders(a)' = Holders(a) \cup {c}
      /\ c \notin Holders(a)
  BY DEF Holders, RequestType
<1>3. /\ IsFiniteSet(Holders(a)')
      /\ Cardinality(Holders(a)) \in Nat
      /\ Cardinality(Holders(a)') = Cardinality(Holders(a)) + 1
  <2>1. PICK S : S = Holders(a)
    OBVIOUS
  <2> QED
    BY <1>2, <2>1, AddOne DEF Counts, FiniteRefs
<1>4. FiniteRefs'
  BY <1>1, <1>2, <1>3 DEF Counts, FiniteRefs
<1>5. Cardinality(Owing(a)) \in Nat
  BY FS_CardinalityType DEF Counts, FiniteRefs
<1>6. holder[a] = (IF closed[a] THEN 0 ELSE 1) + Cardinality(Holders(a))
                  + Cardinality(Owing(a))
  BY DEF Counts, RefCount
<1>7. holder'[a] = holder[a] + 1 /\ closed'[a] = closed[a] /\ holder[a] \in Int
  BY DEF RuntimeType
<1>8. holder'[a] = (IF closed'[a] THEN 0 ELSE 1) + Cardinality(Holders(a)')
                   + Cardinality(Owing(a)')
  BY <1>1, <1>3, <1>5, <1>6, <1>7
<1>9. ASSUME NEW r \in Requests \ {a}, rpc[r] # "off"
      PROVE  holder'[r] = (IF closed'[r] THEN 0 ELSE 1) + Cardinality(Holders(r)')
                          + Cardinality(Owing(r)')
  BY <1>1, <1>2, <1>9 DEF Counts, RefCount, RuntimeType
<1>10. RefCount'
  BY <1>8, <1>9 DEF RefCount
<1> QED
  BY <1>1, <1>2, <1>4, <1>10 DEF Counts

(* unhold by request c.                                                    *)
LEMMA CountLose ==
    ASSUME TypeOK, Counts, NEW c \in Requests, NEW a \in held[c], a \in Requests,
           rpc[a] # "off",
           holder' = [holder EXCEPT ![a] = @ - 1],
           held' = [held EXCEPT ![c] = @ \ {a}],
           UNCHANGED <<closed, rpc, cpc, ctgt>>
    PROVE  /\ Counts'
           /\ \A r \in Requests : Holders(r)' \subseteq Holders(r)
           /\ \A r \in Requests : Owing(r)' = Owing(r)
<1> USE DEF TypeOK
<1>1. \A r \in Requests : Owing(r)' = Owing(r)
  BY OwingFrame
<1>2. /\ \A r \in Requests \ {a} : Holders(r)' = Holders(r)
      /\ Holders(a)' = Holders(a) \ {c}
      /\ c \in Holders(a)
  BY DEF Holders, RequestType
<1>3. /\ IsFiniteSet(Holders(a)')
      /\ Cardinality(Holders(a)) \in Nat
      /\ Cardinality(Holders(a)') = Cardinality(Holders(a)) - 1
  <2>1. PICK S : S = Holders(a)
    OBVIOUS
  <2> QED
    BY <1>2, <2>1, DropOne DEF Counts, FiniteRefs
<1>4. FiniteRefs'
  BY <1>1, <1>2, <1>3 DEF Counts, FiniteRefs
<1>5. Cardinality(Owing(a)) \in Nat
  BY FS_CardinalityType DEF Counts, FiniteRefs
<1>6. holder[a] = (IF closed[a] THEN 0 ELSE 1) + Cardinality(Holders(a))
                  + Cardinality(Owing(a))
  BY DEF Counts, RefCount
<1>7. holder'[a] = holder[a] - 1 /\ closed'[a] = closed[a] /\ holder[a] \in Int
  BY DEF RuntimeType
<1>8. holder'[a] = (IF closed'[a] THEN 0 ELSE 1) + Cardinality(Holders(a)')
                   + Cardinality(Owing(a)')
  BY <1>1, <1>3, <1>5, <1>6, <1>7
<1>9. ASSUME NEW r \in Requests \ {a}, rpc[r] # "off"
      PROVE  holder'[r] = (IF closed'[r] THEN 0 ELSE 1) + Cardinality(Holders(r)')
                          + Cardinality(Owing(r)')
  BY <1>1, <1>2, <1>9 DEF Counts, RefCount, RuntimeType
<1>10. RefCount'
  BY <1>8, <1>9 DEF RefCount
<1> QED
  BY <1>1, <1>2, <1>4, <1>10 DEF Counts

(* A request step that takes and gives back no reference.                  *)
LEMMA RefRequestFrame ==
    ASSUME IndInv, RefInv, NEW c \in Requests, NEW s,
           pc' = [pc EXCEPT ![c] = s],
           s \notin {"hold", "reuse"},
           s \in {"start", "rlock", "look", "lock", "waitdone"} => held[c] = {},
           UNCHANGED <<holder, closed, held, todo, rpc, cpc, ctgt, ctodo, req>>,
           \A d \in Requests \ {c} : tgt'[d] = tgt[d]
    PROVE  RefInv'
<1> USE DEF IndInv, TypeOK, RefInv
<1>1. \A d : Id(d)' = Id(d)
  BY IdUnchanged
<1>2. \A r \in Requests : Owing(r)' = Owing(r)
  BY OwingFrame
<1>3. Counts' /\ \A r \in Requests : Holders(r)' = Holders(r)
  BY <1>2, CountFrame DEF Counts
<1>4. FreshRefs'
  BY <1>2, <1>3 DEF FreshRefs, RequestType
<1>5. NoneHeld'
  BY DEF NoneHeld, RequestType
<1>6. LookOK'
  BY <1>1 DEF LookOK, RequestType
<1> QED
  BY <1>3, <1>4, <1>5, <1>6 DEF Counts

(* spawnActor's insert: two references, the group's and the caller's.      *)
LEMMA RefInsert ==
    ASSUME IndInv, RefInv, NEW c \in Requests, Insert(c),
           pc[c] \in {"lock", "waitdone"}
    PROVE  RefInv'
<1> USE DEF IndInv, TypeOK, RefInv
<1>0. rpc[c] = "off"
  BY DEF Control, FreshOK
<1>1. \A d : Id(d)' = Id(d)
  BY IdUnchanged DEF Insert
<1>2. \A r \in Requests : Owing(r)' = Owing(r)
  BY OwingFrame DEF Insert
<1>3. Holders(c) = {} /\ Owing(c) = {} /\ ~closed[c] /\ held[c] = {}
  BY <1>0 DEF FreshRefs, NoneHeld
<1>4. /\ \A r \in Requests \ {c} : Holders(r)' = Holders(r)
      /\ Holders(c)' = {c}
  BY <1>3 DEF Holders, Insert, RequestType
<1>5. IsFiniteSet(Holders(c)') /\ Cardinality(Holders(c)') = 1
  BY <1>4, FS_Singleton
<1>6. FiniteRefs'
  BY <1>2, <1>4, <1>5 DEF FiniteRefs
<1>7. RefCount'
  <2>1. holder'[c] = 2 /\ ~closed'[c]
    BY <1>3 DEF Insert, SpawnHolder, RuntimeType
  <2>2. Cardinality(Owing(c)') = 0
    BY <1>2, <1>3, NoElement
  <2>3. holder'[c] = (IF closed'[c] THEN 0 ELSE 1) + Cardinality(Holders(c)')
                     + Cardinality(Owing(c)')
    BY <1>5, <2>1, <2>2
  <2>4. ASSUME NEW r \in Requests \ {c}, rpc'[r] # "off"
        PROVE  holder'[r] = (IF closed'[r] THEN 0 ELSE 1) + Cardinality(Holders(r)')
                            + Cardinality(Owing(r)')
    BY <1>2, <1>4, <2>4 DEF Insert, RefCount, RuntimeType, RunType
  <2> QED
    BY <2>3, <2>4 DEF RefCount
<1>8. FreshRefs'
  BY <1>2, <1>4 DEF Insert, FreshRefs, RequestType, RunType
<1>9. NoneHeld'
  BY DEF Insert, NoneHeld, RequestType
<1>10. LookOK'
  BY <1>1 DEF Insert, LookOK, RequestType
<1> QED
  BY <1>6, <1>7, <1>8, <1>9, <1>10

LEMMA RequestRef ==
    ASSUME IndInv, RefInv, NEW c \in Requests, RequestStep(c)
    PROVE  RefInv'
<1> USE DEF IndInv, TypeOK
<1>0. pc[c] \in {"start", "rlock", "lock", "reuse", "waitdone"} => held[c] = {}
  BY DEF RefInv, NoneHeld
<1>1. CASE CheckStopping(c)
  BY <1>0, <1>1, RefRequestFrame DEF CheckStopping
<1>2. CASE RLock(c)
  BY <1>0, <1>2, RefRequestFrame DEF RLock
<1>3. ASSUME NEW id \in Ids, LookUp(c, id) PROVE RefInv'
  <2> USE DEF RefInv
  <2>0. actors[id] # None => /\ actors[id] \in Requests
                             /\ rpc[actors[id]] # "off"
                             /\ Id(actors[id]) = id
    BY DEF GroupType, Control, MapOK
  <2>1. \A d : Id(d)' = Id(d)
    BY <1>3, IdUnchanged DEF LookUp
  <2>2. \A r \in Requests : Owing(r)' = Owing(r)
    BY <1>3, OwingFrame DEF LookUp
  <2>3. Counts' /\ \A r \in Requests : Holders(r)' = Holders(r)
    BY <1>3, <2>2, CountFrame DEF LookUp, Counts
  <2>4. FreshRefs'
    BY <1>3, <2>0, <2>2, <2>3 DEF LookUp, Found, FreshRefs, RequestType
  <2>5. NoneHeld'
    BY <1>3 DEF LookUp, NoneHeld, RequestType
  <2>6. LookOK'
    <3>1. \A a \in held[c] : Id(a) \notin todo[c]
      BY <1>3 DEF LookUp, LookOK
    <3>2. \A d \in Requests \ {c} : todo'[d] = todo[d] /\ tgt'[d] = tgt[d] /\ pc'[d] = pc[d]
      BY <1>3 DEF LookUp, RequestType
    <3>3. todo'[c] = todo[c] \ {id} /\ held' = held /\ id \in todo[c]
      BY <1>3 DEF LookUp, RequestType
    <3>4. CASE Found(id)
      <4>1. tgt'[c] = actors[id] /\ actors[id] \notin held[c]
        BY <1>3, <2>0, <3>1, <3>3, <3>4 DEF LookUp, Found, RequestType
      <4> QED
        BY <2>0, <2>1, <3>1, <3>2, <3>3, <3>4, <4>1 DEF LookOK, Found
    <3>5. CASE ~Found(id)
      BY <1>3, <2>1, <3>1, <3>2, <3>3, <3>5 DEF LookUp, LookOK
    <3> QED
      BY <3>4, <3>5
  <2> QED
    BY <2>3, <2>4, <2>5, <2>6 DEF Counts
<1>4. CASE Hold(c)
  <2> USE DEF RefInv
  <2>0. PICK a : a = tgt[c]
    OBVIOUS
  <2>1. a \in Requests /\ rpc[a] # "off" /\ a \notin held[c] /\ Id(a) \notin todo[c]
    BY <1>4, <2>0 DEF Hold, Control, TargetOK, FreshRefs, LookOK
  <2>2. \A d : Id(d)' = Id(d)
    BY <1>4, IdUnchanged DEF Hold
  <2>3. /\ holder' = [holder EXCEPT ![a] = @ + 1]
        /\ held' = [held EXCEPT ![c] = @ \cup {a}]
        /\ pc' = [pc EXCEPT ![c] = "look"]
        /\ UNCHANGED <<closed, rpc, cpc, ctgt, ctodo, tgt, todo>>
    BY <1>4, <2>0 DEF Hold
  <2>4. /\ Counts'
        /\ \A r \in Requests \ {a} : Holders(r)' = Holders(r)
        /\ \A r \in Requests : Owing(r)' = Owing(r)
    BY <2>1, <2>3, CountGain DEF Counts
  <2>5. FreshRefs'
    BY <2>1, <2>3, <2>4 DEF FreshRefs, RequestType
  <2>6. NoneHeld'
    BY <2>3 DEF NoneHeld, RequestType
  <2>7. LookOK'
    BY <1>4, <2>1, <2>2, <2>3 DEF Hold, LookOK, RequestType
  <2> QED
    BY <2>4, <2>5, <2>6, <2>7 DEF Counts
<1>5. CASE RUnlock(c)
  <2>1. PICK s : pc' = [pc EXCEPT ![c] = s] /\ s \in {"refcheck", "send", "lock", "done"}
                 /\ (s = "lock" => held[c] = {})
    BY <1>5 DEF RUnlock
  <2> QED
    BY <1>5, <2>1, RefRequestFrame DEF RUnlock
<1>6. CASE SpawnActor(c)
  <2>1. CASE stopping
    <3>1. pc' = [pc EXCEPT ![c] = "lock"]
      BY <1>6, <2>1 DEF SpawnActor, RequestType
    <3> QED
      BY <1>0, <1>6, <2>1, <3>1, RefRequestFrame DEF SpawnActor
  <2>2. CASE ~stopping /\ actors[Id(c)] = None
    BY <1>6, <2>2, RefInsert DEF SpawnActor
  <2>3. CASE ~stopping /\ actors[Id(c)] # None
    <3>1. PICK a : a = actors[Id(c)]
      OBVIOUS
    <3>2. a \in Requests /\ rpc[a] # "off"
      BY <1>6, <2>3, <3>1, IdInIds DEF SpawnActor, Control, SpawnerOK, GroupType, MapOK
    <3>3. pc[c] = "lock" /\ held[c] = {}
      BY <1>0, <1>6 DEF SpawnActor
    <3>4. PICK s : pc' = [pc EXCEPT ![c] = s] /\ s \in {"waitdone", "reuse"}
      BY <1>6, <2>3 DEF SpawnActor
    <3>5. /\ tgt' = [tgt EXCEPT ![c] = a]
          /\ UNCHANGED <<holder, closed, held, todo, rpc, cpc, ctgt, ctodo, req>>
      BY <1>6, <2>3, <3>1 DEF SpawnActor
    <3>6. CASE s = "waitdone"
      BY <3>3, <3>4, <3>5, <3>6, RefRequestFrame DEF RequestType
    <3>7. CASE s = "reuse"
      <4> USE DEF RefInv
      <4>1. \A r \in Requests : Owing(r)' = Owing(r)
        BY <3>5, OwingFrame
      <4>2. Counts' /\ \A r \in Requests : Holders(r)' = Holders(r)
        BY <3>5, <4>1, CountFrame DEF Counts
      <4>3. FreshRefs'
        BY <3>2, <3>4, <3>5, <4>1, <4>2 DEF FreshRefs, RequestType
      <4>4. NoneHeld'
        BY <3>3, <3>4, <3>5 DEF NoneHeld, RequestType
      <4>5. \A d : Id(d)' = Id(d)
        BY <3>5, IdUnchanged
      <4>6. LookOK'
        BY <3>3, <3>4, <3>5, <3>7, <4>5 DEF LookOK, RequestType
      <4> QED
        BY <4>2, <4>3, <4>4, <4>6 DEF Counts
    <3> QED
      BY <3>4, <3>6, <3>7
  <2> QED
    BY <2>1, <2>2, <2>3
<1>7. CASE SpawnReuse(c)
  <2> USE DEF RefInv
  <2>0. PICK a : a = tgt[c]
    OBVIOUS
  <2>1. a \in Requests /\ rpc[a] # "off" /\ held[c] = {}
    BY <1>0, <1>7, <2>0 DEF SpawnReuse, Control, TargetOK, FreshRefs
  <2>2. \A d : Id(d)' = Id(d)
    BY <1>7, IdUnchanged DEF SpawnReuse
  <2>3. /\ holder' = [holder EXCEPT ![a] = @ + 1]
        /\ held' = [held EXCEPT ![c] = @ \cup {a}]
        /\ pc' = [pc EXCEPT ![c] = "send"]
        /\ UNCHANGED <<closed, rpc, cpc, ctgt, ctodo, tgt, todo>>
    BY <1>7, <2>0, <2>1 DEF SpawnReuse, RequestType
  <2>4. /\ Counts'
        /\ \A r \in Requests \ {a} : Holders(r)' = Holders(r)
        /\ \A r \in Requests : Owing(r)' = Owing(r)
    BY <2>1, <2>3, CountGain DEF Counts
  <2>5. FreshRefs'
    BY <2>1, <2>3, <2>4 DEF FreshRefs, RequestType
  <2>6. NoneHeld'
    BY <2>3 DEF NoneHeld, RequestType
  <2>7. LookOK'
    BY <2>2, <2>3 DEF LookOK, RequestType
  <2> QED
    BY <2>4, <2>5, <2>6, <2>7 DEF Counts
<1>8. CASE SpawnWaited(c)
  BY <1>8, RefInsert DEF SpawnWaited
<1>9. CASE RefCheck(c)
  BY <1>9, RefRequestFrame DEF RefCheck
<1>10. ASSUME NEW a \in Requests, Send(c, a) PROVE RefInv'
  <2>1. PICK s : pc' = [pc EXCEPT ![c] = s] /\ s \in {"unhold", "send"}
    BY <1>10 DEF Send
  <2>2. UNCHANGED <<holder, closed, held, todo, tgt, rpc, cpc, ctgt, ctodo, req>>
    BY <1>10 DEF Send
  <2> QED
    BY <2>1, <2>2, RefRequestFrame
<1>11. ASSUME NEW a \in Requests, Release(c, a) PROVE RefInv'
  <2> USE DEF RefInv
  <2>1. a \in held[c] /\ rpc[a] # "off"
    BY <1>11 DEF Release, FreshRefs, Holders
  <2>2. \A d : Id(d)' = Id(d)
    BY <1>11, IdUnchanged DEF Release
  <2>3. /\ holder' = [holder EXCEPT ![a] = @ - 1]
        /\ held' = [held EXCEPT ![c] = @ \ {a}]
        /\ UNCHANGED <<closed, rpc, cpc, ctgt, ctodo, tgt, todo>>
    BY <1>11 DEF Release, Unhold
  <2>4. PICK s : pc' = [pc EXCEPT ![c] = s] /\ s \in {"unhold", "done"}
    BY <1>11 DEF Release
  <2>5. /\ Counts'
        /\ \A r \in Requests : Holders(r)' \subseteq Holders(r)
        /\ \A r \in Requests : Owing(r)' = Owing(r)
    BY <2>1, <2>3, CountLose DEF Counts
  <2>6. FreshRefs'
    BY <2>3, <2>4, <2>5 DEF FreshRefs, RequestType
  <2>7. NoneHeld'
    BY <2>3, <2>4 DEF NoneHeld, RequestType
  <2>8. LookOK'
    BY <2>2, <2>3, <2>4 DEF LookOK, RequestType
  <2> QED
    BY <2>5, <2>6, <2>7, <2>8 DEF Counts
<1> QED
  BY <1>1, <1>2, <1>3, <1>4, <1>5, <1>6, <1>7, <1>8, <1>9, <1>10, <1>11
     DEF RequestStep

(* A step of a run loop that keeps its references.                         *)
LEMMA RefRunFrame ==
    ASSUME IndInv, RefInv,
           UNCHANGED <<holder, closed, held, todo, tgt, pc, cpc, ctgt, ctodo, req>>,
           \A d \in Requests : rpc'[d] = "off" <=> rpc[d] = "off"
    PROVE  RefInv'
<1> USE DEF RefInv
<1>1. \A d : Id(d)' = Id(d)
  BY IdUnchanged
<1>2. \A r \in Requests : Owing(r)' = Owing(r)
  BY OwingFrame
<1>3. Counts' /\ \A r \in Requests : Holders(r)' = Holders(r)
  BY <1>2, CountFrame DEF Counts
<1>4. FreshRefs'
  BY <1>2, <1>3 DEF FreshRefs
<1>5. NoneHeld'
  BY DEF NoneHeld
<1>6. LookOK'
  BY <1>1 DEF LookOK
<1> QED
  BY <1>3, <1>4, <1>5, <1>6 DEF Counts

(* No step of a run loop creates or forgets a runtime.                     *)
LEMMA RunKeepsOff ==
    ASSUME RunType, NEW r \in Requests, RunStep(r)
    PROVE  /\ rpc[r] # "off"
           /\ \A d \in Requests : rpc'[d] = "off" <=> rpc[d] = "off"
<1>1. rpc[r] # "off"
  BY DEF RunStep, Top, Pump, Recv, BatchLoop, Deny, OnSpawnFails, Invoke,
     InvokePanics, ActorQuit, Exit, Drain, RemoveActor
<1>2. \E s : rpc' = [rpc EXCEPT ![r] = s] /\ s # "off"
  BY <1>1 DEF RunStep, Top, Pump, Recv, BatchLoop, Deny, OnSpawnFails, Invoke,
     InvokePanics, InvokeNext, ActorQuit, Exit, Drain, RemoveActor, RunType
<1> QED
  BY <1>1, <1>2 DEF RunType

(* actorQuit closes the runtime and gives back the group's reference.      *)
Quits(r) == /\ rpc[r] = "quit"
            /\ ~InUse(r)
            /\ closed' = [closed EXCEPT ![r] = TRUE]
            /\ Unhold(r)
            /\ rpc' = [rpc EXCEPT ![r] = "exit"]

LEMMA RunRef ==
    ASSUME IndInv, RefInv, NEW r \in Requests, RunStep(r)
    PROVE  RefInv'
<1> USE DEF IndInv, TypeOK
<1>1. rpc[r] # "off" /\ \A d \in Requests : rpc'[d] = "off" <=> rpc[d] = "off"
  BY RunKeepsOff
<1>2. UNCHANGED <<held, todo, tgt, pc, cpc, ctgt, ctodo, req>>
  BY DEF RunStep, Top, Pump, Recv, BatchLoop, Deny, OnSpawnFails, Invoke,
     InvokePanics, InvokeNext, ActorQuit, Exit, Drain, RemoveActor
<1>3. CASE UNCHANGED <<holder, closed>>
  BY <1>1, <1>2, <1>3, RefRunFrame
<1>4. CASE Quits(r)
  <2> USE DEF RefInv
  <2>1. \A d : Id(d)' = Id(d)
    BY <1>2, IdUnchanged
  <2>2. \A d \in Requests : Owing(d)' = Owing(d) /\ Holders(d)' = Holders(d)
    BY <1>2 DEF Owing, Holders
  <2>3. FiniteRefs'
    BY <2>2 DEF FiniteRefs
  <2>4. /\ ~closed[r] /\ closed'[r]
        /\ holder[r] \in Int /\ holder'[r] = holder[r] - 1
        /\ \A d \in Requests \ {r} : closed'[d] = closed[d] /\ holder'[d] = holder[d]
    BY <1>4 DEF Quits, InUse, Unhold, RuntimeType
  <2>5. Cardinality(Holders(r)) \in Nat /\ Cardinality(Owing(r)) \in Nat
    BY FS_CardinalityType DEF FiniteRefs
  <2>6. holder[r] = 1 + Cardinality(Holders(r)) + Cardinality(Owing(r))
    BY <1>1, <2>4 DEF RefCount
  <2>7. RefCount'
    <3>1. holder'[r] = (IF closed'[r] THEN 0 ELSE 1) + Cardinality(Holders(r)')
                       + Cardinality(Owing(r)')
      BY <2>2, <2>4, <2>5, <2>6
    <3>2. ASSUME NEW d \in Requests \ {r}, rpc'[d] # "off"
          PROVE  holder'[d] = (IF closed'[d] THEN 0 ELSE 1) + Cardinality(Holders(d)')
                              + Cardinality(Owing(d)')
      BY <1>1, <2>2, <2>4, <3>2 DEF RefCount
    <3> QED
      BY <3>1, <3>2 DEF RefCount
  <2>8. FreshRefs'
    BY <1>1, <1>2, <2>2, <2>4 DEF FreshRefs
  <2>9. NoneHeld'
    BY <1>2 DEF NoneHeld
  <2>10. LookOK'
    BY <1>2, <2>1 DEF LookOK
  <2> QED
    BY <2>3, <2>7, <2>8, <2>9, <2>10
<1>5. UNCHANGED <<holder, closed>> \/ Quits(r)
  BY DEF RunStep, Top, Pump, Recv, BatchLoop, Deny, OnSpawnFails, Invoke,
     InvokePanics, InvokeNext, ActorQuit, Exit, Drain, RemoveActor, Quits
<1> QED
  BY <1>3, <1>4, <1>5

LEMMA CloserRef ==
    ASSUME IndInv, RefInv, NEW k \in Closers, CloserStep(k)
    PROVE  RefInv'
<1> USE DEF IndInv, TypeOK, RefInv
<1>1. UNCHANGED <<held, todo, tgt, pc, rpc, req>>
  BY DEF CloserStep, CloseFlag, CloseLookUp, CloseCas, CloseUnhold, JoinLookUp, Join
<1>2. \A d : Id(d)' = Id(d)
  BY <1>1, IdUnchanged
<1>3. NoneHeld' /\ LookOK'
  BY <1>1, <1>2 DEF NoneHeld, LookOK
<1>4. \A r \in Requests : Holders(r)' = Holders(r)
  BY <1>1 DEF Holders
<1>5. \A r \in Requests, j \in Closers :
         r \in ctodo'[j] => r \in ctodo[j] \/ (\E id \in Ids : r = actors[id])
  <2>1. cop[k].ids \subseteq Ids
    BY GroupAssumption DEF CloserType, Closing
  <2>2. \A r \in Mapped(k) : \E id \in Ids : r = actors[id]
    BY <2>1 DEF Mapped
  <2>3. PICK S : ctodo' = [ctodo EXCEPT ![k] = S] /\ (S \subseteq ctodo[k] \/ S = Mapped(k))
    BY DEF CloserStep, CloseFlag, CloseLookUp, CloseCas, CloseUnhold, JoinLookUp,
       Join, AfterClosing, CloserType
  <2> QED
    BY <2>2, <2>3 DEF CloserType
<1>6. \A r \in Requests, j \in Closers : rpc[r] = "off" => r \notin ctodo'[j]
  BY <1>5, GroupAssumption DEF Control, MapOK, FreshRefs
<1>7. CASE /\ \A r \in Requests : Owing(r)' = Owing(r)
           /\ UNCHANGED <<holder, closed>>
  <2>1. Counts'
    BY <1>1, <1>7, CountFrame DEF Counts
  <2>2. FreshRefs'
    BY <1>1, <1>4, <1>6, <1>7 DEF FreshRefs
  <2> QED
    BY <1>3, <2>1, <2>2 DEF Counts
<1>8. ASSUME NEW a \in Requests, CloseCas(k, a), ~closed[a] PROVE RefInv'
  <2>1. /\ cpc[k] = "cas" /\ a \in ctodo[k]
        /\ closed' = [closed EXCEPT ![a] = TRUE]
        /\ ctgt' = [ctgt EXCEPT ![k] = a]
        /\ cpc' = [cpc EXCEPT ![k] = "unhold"]
        /\ holder' = holder
    BY <1>8 DEF CloseCas
  <2>2. rpc[a] # "off"
    BY <2>1 DEF FreshRefs
  <2>3. /\ \A r \in Requests \ {a} : Owing(r)' = Owing(r)
        /\ Owing(a)' = Owing(a) \cup {k}
        /\ k \notin Owing(a)
    BY <2>1 DEF Owing, CloserType
  <2>4. /\ IsFiniteSet(Owing(a)')
        /\ Cardinality(Owing(a)) \in Nat
        /\ Cardinality(Owing(a)') = Cardinality(Owing(a)) + 1
    <3>1. PICK S : S = Owing(a)
      OBVIOUS
    <3> QED
      BY <2>3, <3>1, AddOne DEF FiniteRefs
  <2>5. FiniteRefs'
    BY <1>4, <2>3, <2>4 DEF FiniteRefs
  <2>6. Cardinality(Holders(a)) \in Nat
    BY FS_CardinalityType DEF FiniteRefs
  <2>7. RefCount'
    <3>1. closed'[a] /\ holder'[a] = 1 + Cardinality(Holders(a)) + Cardinality(Owing(a))
      BY <1>8, <2>1, <2>2 DEF RefCount, RuntimeType
    <3>2. holder'[a] = (IF closed'[a] THEN 0 ELSE 1) + Cardinality(Holders(a)')
                       + Cardinality(Owing(a)')
      BY <1>4, <2>4, <2>6, <3>1
    <3>3. ASSUME NEW d \in Requests \ {a}, rpc'[d] # "off"
          PROVE  holder'[d] = (IF closed'[d] THEN 0 ELSE 1) + Cardinality(Holders(d)')
                              + Cardinality(Owing(d)')
      BY <1>1, <1>4, <2>1, <2>3, <3>3 DEF RefCount, RuntimeType
    <3> QED
      BY <3>2, <3>3 DEF RefCount
  <2>8. FreshRefs'
    BY <1>1, <1>4, <1>6, <2>1, <2>2, <2>3 DEF FreshRefs, RuntimeType
  <2> QED
    BY <1>3, <2>5, <2>7, <2>8
<1>9. CASE CloseUnhold(k)
  <2>0. PICK a : a = ctgt[k]
    OBVIOUS
  <2>1. /\ cpc[k] = "unhold" /\ a \in Requests
        /\ holder' = [holder EXCEPT ![a] = @ - 1]
        /\ \E s \in {"rejoin", "cas"} : cpc' = [cpc EXCEPT ![k] = s]
        /\ UNCHANGED <<closed, ctgt>>
    BY <1>9, <2>0 DEF CloseUnhold, Unhold, AfterClosing, Control, TargetOK
  <2>2. /\ \A r \in Requests \ {a} : Owing(r)' = Owing(r)
        /\ Owing(a)' = Owing(a) \ {k}
        /\ k \in Owing(a)
    BY <2>0, <2>1 DEF Owing, CloserType
  <2>3. rpc[a] # "off"
    BY <2>1, <2>2 DEF FreshRefs
  <2>4. /\ IsFiniteSet(Owing(a)')
        /\ Cardinality(Owing(a)) \in Nat
        /\ Cardinality(Owing(a)') = Cardinality(Owing(a)) - 1
    <3>1. PICK S : S = Owing(a)
      OBVIOUS
    <3> QED
      BY <2>1, <2>2, <3>1, DropOne DEF FiniteRefs
  <2>5. FiniteRefs'
    BY <1>4, <2>2, <2>4 DEF FiniteRefs
  <2>6. Cardinality(Holders(a)) \in Nat
    BY <2>1, FS_CardinalityType DEF FiniteRefs
  <2>7. RefCount'
    <3>1. /\ holder'[a] = holder[a] - 1 /\ holder[a] \in Int /\ closed'[a] = closed[a]
          /\ holder[a] = (IF closed[a] THEN 0 ELSE 1) + Cardinality(Holders(a))
                         + Cardinality(Owing(a))
      BY <2>1, <2>3 DEF RefCount, RuntimeType
    <3>2. holder'[a] = (IF closed'[a] THEN 0 ELSE 1) + Cardinality(Holders(a)')
                       + Cardinality(Owing(a)')
      BY <1>4, <2>1, <2>4, <2>6, <3>1
    <3>3. ASSUME NEW d \in Requests \ {a}, rpc'[d] # "off"
          PROVE  holder'[d] = (IF closed'[d] THEN 0 ELSE 1) + Cardinality(Holders(d)')
                              + Cardinality(Owing(d)')
      BY <1>1, <1>4, <2>1, <2>2, <3>3 DEF RefCount, RuntimeType
    <3> QED
      BY <3>2, <3>3 DEF RefCount
  <2>8. FreshRefs'
    BY <1>1, <1>4, <1>6, <2>1, <2>2 DEF FreshRefs
  <2> QED
    BY <1>3, <2>5, <2>7, <2>8
<1>10. ASSUME NEW a \in Requests, CloseCas(k, a), closed[a] PROVE RefInv'
  <2>1. \A r \in Requests : Owing(r)' = Owing(r)
    BY <1>10 DEF CloseCas, AfterClosing, Owing, CloserType
  <2>2. UNCHANGED <<holder, closed>>
    BY <1>10 DEF CloseCas, RuntimeType
  <2> QED
    BY <1>7, <2>1, <2>2
<1>11. CASE CloseFlag(k) \/ CloseLookUp(k) \/ JoinLookUp(k) \/ Join(k)
  <2>1. \A r \in Requests : Owing(r)' = Owing(r)
    BY <1>11 DEF CloseFlag, CloseLookUp, JoinLookUp, Join, Owing, CloserType
  <2>2. UNCHANGED <<holder, closed>>
    BY <1>11 DEF CloseFlag, CloseLookUp, JoinLookUp, Join
  <2> QED
    BY <1>7, <2>1, <2>2
<1> QED
  BY <1>8, <1>9, <1>10, <1>11 DEF CloserStep

LEMMA NextRef == IndInv /\ RefInv /\ [Next]_vars => RefInv'
<1> SUFFICES ASSUME IndInv, RefInv, [Next]_vars PROVE RefInv'
  OBVIOUS
<1>1. CASE UNCHANGED vars
  BY <1>1, RefRunFrame DEF vars
<1> QED
  BY <1>1, RequestRef, RunRef, CloserRef DEF Next, Terminated

(* IndInv and RefInv hold in every reachable state, closers or not.        *)
LEMMA RefInvariance == Spec => [](IndInv /\ RefInv)
<1> QED
  BY InitIndInv, InitRef, NextIndInv, NextRef, PTL DEF Spec

(* The reference count of a runtime is exact in every reachable state: the *)
(* group's reference until somebody sets closed, one per holding goroutine *)
(* and one per goroutine that owes an unhold, however hold and unhold of   *)
(* group.go and actor.go interleave.                                       *)
THEOREM AlwaysRefCount == Spec => []RefCount
<1>1. IndInv /\ RefInv => RefCount
  BY DEF RefInv
<1> QED
  BY <1>1, RefInvariance, PTL
-----------------------------------------------------------------------------
(* Retirement, in a group whose actors nobody closes from outside.         *)

LEMMA InitOpen == Init => OpenInv
<1> SUFFICES ASSUME Init PROVE OpenInv
  OBVIOUS
<1>1. ClosedOK
  BY DEF Init, ClosedOK, Retired
<1>2. TargetOpen /\ HeldOpen
  BY DEF Init, TargetOpen, HeldOpen
<1>3. MailboxSafe
  BY DEF Init, MailboxSafe
<1> QED
  BY <1>1, <1>2, <1>3 DEF OpenInv

(* A request step that changes nothing but where the request stands.       *)
LEMMA OpenFrame ==
    ASSUME TypeOK, OpenInv, NEW c \in Requests, NEW s,
           pc' = [pc EXCEPT ![c] = s],
           s \notin {"hold", "reuse"},
           pc[c] \in {"unhold", "done"} => s \in {"unhold", "done"},
           \A d \in Requests \ {c} : tgt'[d] = tgt[d],
           UNCHANGED <<closed, mclosed, rpc, held, togo>>,
           MailboxSafe'
    PROVE  OpenInv'
<1> USE DEF TypeOK, OpenInv
<1>1. ClosedOK'
  BY DEF ClosedOK
<1>2. TargetOpen'
  BY DEF TargetOpen, RequestType
<1>3. HeldOpen'
  BY DEF HeldOpen, RequestType
<1> QED
  BY <1>1, <1>2, <1>3

(* Request c takes a reference to the open runtime a.                      *)
LEMMA OpenGain ==
    ASSUME TypeOK, OpenInv, NEW c \in Requests, NEW a, NEW s,
           pc' = [pc EXCEPT ![c] = s],
           s \notin {"hold", "reuse"},
           pc[c] \notin {"unhold", "done"},
           ~closed[a],
           held' = [held EXCEPT ![c] = @ \cup {a}],
           togo' = [togo EXCEPT ![c] = @ \cup {a}],
           UNCHANGED <<closed, mclosed, rpc, tgt, crashed>>
    PROVE  OpenInv'
<1> USE DEF TypeOK, OpenInv
<1>1. ClosedOK' /\ MailboxSafe'
  BY DEF ClosedOK, MailboxSafe
<1>2. TargetOpen'
  BY DEF TargetOpen, RequestType
<1>3. HeldOpen'
  BY DEF HeldOpen, RequestType
<1> QED
  BY <1>1, <1>2, <1>3

LEMMA OpenInsert ==
    ASSUME IndInv, RefInv, OpenInv, NEW c \in Requests, Insert(c),
           pc[c] \in {"lock", "waitdone"}
    PROVE  OpenInv'
<1> USE DEF IndInv, TypeOK, OpenInv
<1>0. rpc[c] = "off" /\ ~closed[c]
  BY DEF Control, FreshOK, RefInv, FreshRefs
<1>1. ClosedOK'
  BY <1>0 DEF Insert, ClosedOK, Retired, RunType
<1>2. TargetOpen' /\ MailboxSafe'
  BY DEF Insert, TargetOpen, RequestType, MailboxSafe
<1>3. HeldOpen'
  BY <1>0 DEF Insert, HeldOpen, RequestType
<1> QED
  BY <1>1, <1>2, <1>3

LEMMA RequestOpen ==
    ASSUME IndInv, RefInv, OpenInv, NEW c \in Requests, RequestStep(c)
    PROVE  OpenInv'
<1> USE DEF IndInv, TypeOK
<1>1. CASE CheckStopping(c)
  BY <1>1, OpenFrame DEF CheckStopping, OpenInv, MailboxSafe
<1>2. CASE RLock(c)
  BY <1>2, OpenFrame DEF RLock, OpenInv, MailboxSafe
<1>3. ASSUME NEW id \in Ids, LookUp(c, id) PROVE OpenInv'
  <2> USE DEF OpenInv
  <2>1. UNCHANGED <<closed, mclosed, rpc, held, togo, crashed>>
    BY <1>3 DEF LookUp
  <2>2. ClosedOK' /\ MailboxSafe'
    BY <2>1 DEF ClosedOK, MailboxSafe
  <2>3. TargetOpen'
    BY <1>3 DEF LookUp, Found, TargetOpen, RequestType
  <2>4. HeldOpen'
    BY <1>3 DEF LookUp, HeldOpen, RequestType
  <2> QED
    BY <2>2, <2>3, <2>4
<1>4. CASE Hold(c)
  <2>0. PICK a : a = tgt[c]
    OBVIOUS
  <2>1. ~closed[a]
    BY <1>4, <2>0 DEF Hold, OpenInv, TargetOpen
  <2>2. /\ pc[c] = "hold"
        /\ pc' = [pc EXCEPT ![c] = "look"]
        /\ held' = [held EXCEPT ![c] = @ \cup {a}]
        /\ togo' = [togo EXCEPT ![c] = @ \cup {a}]
        /\ UNCHANGED <<closed, mclosed, rpc, tgt, crashed>>
    BY <1>4, <2>0 DEF Hold
  <2> QED
    BY <2>1, <2>2, OpenGain
<1>5. CASE RUnlock(c)
  <2>1. PICK s : pc' = [pc EXCEPT ![c] = s] /\ s \in {"refcheck", "send", "lock", "done"}
    BY <1>5 DEF RUnlock
  <2> QED
    BY <1>5, <2>1, OpenFrame DEF RUnlock, OpenInv, MailboxSafe
<1>6. CASE SpawnActor(c)
  <2>1. CASE stopping
    <3>1. pc' = [pc EXCEPT ![c] = "lock"] /\ pc[c] = "lock"
      BY <1>6, <2>1 DEF SpawnActor, RequestType
    <3>2. crashed' = "nil runtime" /\ UNCHANGED <<closed, mclosed, rpc, held, togo, tgt>>
      BY <1>6, <2>1 DEF SpawnActor
    <3>3. MailboxSafe'
      BY <3>2 DEF MailboxSafe
    <3> QED
      BY <3>1, <3>2, <3>3, OpenFrame
  <2>2. CASE ~stopping /\ actors[Id(c)] = None
    BY <1>6, <2>2, OpenInsert DEF SpawnActor
  <2>3. CASE ~stopping /\ actors[Id(c)] # None
    <3> USE DEF OpenInv
    <3>1. PICK a : a = actors[Id(c)]
      OBVIOUS
    <3>2. /\ pc[c] = "lock"
          /\ tgt' = [tgt EXCEPT ![c] = a]
          /\ pc' = [pc EXCEPT ![c] = IF closed[a] THEN "waitdone" ELSE "reuse"]
          /\ UNCHANGED <<closed, mclosed, rpc, held, togo, crashed>>
      BY <1>6, <2>3, <3>1 DEF SpawnActor
    <3>3. ClosedOK' /\ MailboxSafe'
      BY <3>2 DEF ClosedOK, MailboxSafe
    <3>4. TargetOpen'
      BY <3>2 DEF TargetOpen, RequestType
    <3>5. HeldOpen'
      BY <3>2 DEF HeldOpen, RequestType
    <3> QED
      BY <3>3, <3>4, <3>5
  <2> QED
    BY <2>1, <2>2, <2>3
<1>7. CASE SpawnReuse(c)
  <2>0. PICK a : a = tgt[c]
    OBVIOUS
  <2>1. ~closed[a] /\ held[c] = {} /\ togo[c] = {}
    BY <1>7, <2>0 DEF SpawnReuse, OpenInv, TargetOpen, HeldOpen, RefInv, NoneHeld
  <2>2. /\ pc[c] = "reuse"
        /\ pc' = [pc EXCEPT ![c] = "send"]
        /\ held' = [held EXCEPT ![c] = @ \cup {a}]
        /\ togo' = [togo EXCEPT ![c] = @ \cup {a}]
        /\ UNCHANGED <<closed, mclosed, rpc, tgt, crashed>>
    BY <1>7, <2>0, <2>1 DEF SpawnReuse, RequestType
  <2>3. pc[c] \notin {"unhold", "done"} /\ "send" \notin {"hold", "reuse"}
    BY <2>2
  <2> QED
    BY <2>1, <2>2, <2>3, OpenGain
<1>8. CASE SpawnWaited(c)
  BY <1>8, OpenInsert DEF SpawnWaited
<1>9. CASE RefCheck(c)
  <2>1. PICK s : pc' = [pc EXCEPT ![c] = s] /\ s \in {"unhold", "send"}
    BY <1>9 DEF RefCheck
  <2> QED
    BY <1>9, <2>1, OpenFrame DEF RefCheck, OpenInv, MailboxSafe
<1>10. ASSUME NEW a \in Requests, Send(c, a) PROVE OpenInv'
  <2> USE DEF OpenInv
  <2>1. ~mclosed[a]
    BY <1>10 DEF Send, HeldOpen, ClosedOK
  <2>2. UNCHANGED <<closed, mclosed, rpc, held, tgt, crashed>>
    BY <1>10, <2>1 DEF Send
  <2>3. ClosedOK' /\ MailboxSafe'
    BY <2>2 DEF ClosedOK, MailboxSafe
  <2>4. TargetOpen'
    BY <1>10, <2>2 DEF Send, TargetOpen, RequestType
  <2>5. HeldOpen'
    BY <1>10, <2>2 DEF Send, HeldOpen, RequestType
  <2> QED
    BY <2>3, <2>4, <2>5
<1>11. ASSUME NEW a \in Requests, Release(c, a) PROVE OpenInv'
  <2> USE DEF OpenInv
  <2>1. a \in held[c] /\ ~closed[a] /\ ~mclosed[a] /\ rpc[a] # "off"
    BY <1>11 DEF Release, HeldOpen, ClosedOK, RefInv, FreshRefs, Holders
  <2>2. holder[a] # 1
    <3>1. holder[a] = 1 + Cardinality(Holders(a)) + Cardinality(Owing(a))
      BY <2>1 DEF RefInv, RefCount
    <3>2. c \in Holders(a) /\ IsFiniteSet(Holders(a)) /\ IsFiniteSet(Owing(a))
      BY <2>1 DEF Holders, RefInv, FiniteRefs
    <3>3. Cardinality(Holders(a)) \in Nat /\ Cardinality(Owing(a)) \in Nat
      BY <3>2, FS_CardinalityType
    <3>4. Cardinality(Holders(a)) # 0
      BY <3>2, FS_EmptySet
    <3> QED
      BY <3>1, <3>3, <3>4
  <2>3. UNCHANGED <<closed, mclosed, rpc, togo, tgt, crashed>>
    BY <1>11, <2>1, <2>2 DEF Release, Unhold
  <2>4. ClosedOK' /\ MailboxSafe'
    BY <2>3 DEF ClosedOK, MailboxSafe
  <2>5. TargetOpen'
    BY <1>11, <2>3 DEF Release, TargetOpen, RequestType
  <2>6. HeldOpen'
    BY <1>11, <2>3 DEF Release, HeldOpen, RequestType
  <2> QED
    BY <2>4, <2>5, <2>6
<1> QED
  BY <1>1, <1>2, <1>3, <1>4, <1>5, <1>6, <1>7, <1>8, <1>9, <1>10, <1>11
     DEF RequestStep

(* Without closers a run loop leaves MainLoop through actorQuit only.      *)
LEMMA RunMoves ==
    ASSUME TypeOK, ClosedOK, NEW r \in Requests, RunStep(r), ~Quits(r)
    PROVE  \E s : /\ rpc' = [rpc EXCEPT ![r] = s]
                  /\ s \in Retired <=> rpc[r] \in Retired
<1> USE DEF TypeOK, Retired
<1>1. /\ closed[r] => rpc[r] \in Retired
      /\ mclosed[r] => rpc[r] \in Retired
  BY DEF ClosedOK
<1>2. CASE Top(r) \/ Recv(r) \/ BatchLoop(r)
  BY <1>1, <1>2 DEF Top, Recv, BatchLoop
<1>3. CASE Pump(r) \/ Drain(r)
  BY <1>3 DEF Pump, Drain, RunType
<1>4. CASE ActorQuit(r)
  BY <1>4 DEF ActorQuit, Quits
<1>5. CASE Exit(r) \/ RemoveActor(r)
  BY <1>5 DEF Exit, RemoveActor
<1>6. CASE \/ Deny(r) \/ OnSpawnFails(r)
           \/ \E now \in BOOLEAN : Invoke(r, now) \/ InvokePanics(r, now)
  BY <1>6 DEF Deny, OnSpawnFails, Invoke, InvokePanics, InvokeNext
<1> QED
  BY <1>2, <1>3, <1>4, <1>5, <1>6 DEF RunStep

LEMMA RunOpen ==
    ASSUME IndInv, RefInv, OpenInv, NEW r \in Requests, RunStep(r)
    PROVE  OpenInv'
<1> USE DEF IndInv, TypeOK, OpenInv
<1>1. UNCHANGED <<held, togo, tgt, pc>>
  BY DEF RunStep, Top, Pump, Recv, BatchLoop, Deny, OnSpawnFails, Invoke,
     InvokePanics, InvokeNext, ActorQuit, Exit, Drain, RemoveActor
<1>2. CASE ~Quits(r)
  <2>1. UNCHANGED <<closed, mclosed, crashed>>
    BY <1>2 DEF RunStep, Top, Pump, Recv, BatchLoop, Deny, OnSpawnFails, Invoke,
       InvokePanics, InvokeNext, ActorQuit, Exit, Drain, RemoveActor, Quits
  <2>2. TargetOpen' /\ HeldOpen' /\ MailboxSafe'
    BY <1>1, <2>1 DEF TargetOpen, HeldOpen, MailboxSafe
  <2>3. ClosedOK'
    BY <1>2, <2>1, RunMoves DEF ClosedOK, RunType
  <2> QED
    BY <2>2, <2>3
<1>3. CASE Quits(r)
  <2>0. ~WLocked /\ ~RLocked
    BY <1>3 DEF RunStep, Top, Pump, Recv, BatchLoop, Deny, OnSpawnFails, Invoke,
       InvokePanics, InvokeNext, ActorQuit, Exit, Drain, RemoveActor, Quits
  <2>1. ~closed[r] /\ ~mclosed[r] /\ holder[r] \in Int /\ ~(holder[r] > 1)
    BY <1>3 DEF Quits, InUse, ClosedOK, RuntimeType
  <2>2. Holders(r) = {}
    <3>1. holder[r] = 1 + Cardinality(Holders(r)) + Cardinality(Owing(r))
      BY <1>3, <2>1 DEF Quits, RefInv, RefCount
    <3>2. IsFiniteSet(Holders(r)) /\ IsFiniteSet(Owing(r))
      BY DEF RefInv, FiniteRefs
    <3>3. Cardinality(Holders(r)) \in Nat /\ Cardinality(Owing(r)) \in Nat
      BY <3>2, FS_CardinalityType
    <3>4. Cardinality(Holders(r)) = 0
      BY <2>1, <3>1, <3>3
    <3> QED
      BY <3>2, <3>4, FS_EmptySet
  <2>3. /\ closed' = [closed EXCEPT ![r] = TRUE]
        /\ rpc' = [rpc EXCEPT ![r] = "exit"]
        /\ mclosed' = mclosed \/ mclosed' = [mclosed EXCEPT ![r] = TRUE]
        /\ crashed' = crashed
    BY <1>3, <2>1 DEF Quits, Unhold
  <2>4. ClosedOK'
    BY <2>3 DEF ClosedOK, Retired, RuntimeType, RunType
  <2>5. TargetOpen'
    BY <1>1, <2>0 DEF TargetOpen, WLocked, RLocked
  <2>6. HeldOpen'
    BY <1>1, <2>2, <2>3 DEF HeldOpen, Holders, RuntimeType, RequestType
  <2>7. MailboxSafe'
    BY <2>3 DEF MailboxSafe
  <2> QED
    BY <2>4, <2>5, <2>6, <2>7
<1> QED
  BY <1>2, <1>3

LEMMA NextOpen ==
    ASSUME Closers = {}, IndInv, RefInv, OpenInv, [Next]_vars
    PROVE  OpenInv'
<1>1. CASE UNCHANGED vars
  BY <1>1 DEF vars, OpenInv, ClosedOK, TargetOpen, HeldOpen, MailboxSafe
<1> QED
  BY <1>1, RequestOpen, RunOpen DEF Next, Terminated

(* Without closers OpenInv holds as well.                                  *)
LEMMA OpenInvariance == Closers = {} => (Spec => [](IndInv /\ RefInv /\ OpenInv))
<1> SUFFICES ASSUME Closers = {} PROVE Spec => [](IndInv /\ RefInv /\ OpenInv)
  OBVIOUS
<1>1. IndInv /\ RefInv /\ OpenInv /\ [Next]_vars => OpenInv'
  BY NextOpen
<1> QED
  BY <1>1, InitIndInv, InitRef, InitOpen, NextIndInv, NextRef, PTL DEF Spec

(* A runtime that a goroutine holds does not retire, if nobody closes it   *)
(* from outside: actorQuit refuses while holder > 1, and g.mu keeps a      *)
(* lookup and its hold on one side of actorQuit.                           *)
THEOREM AlwaysHeldAlive == Spec => []HeldAlive
<1>1. CASE Closers = {}
  <2>1. IndInv /\ RefInv /\ OpenInv => HeldAlive
    <3> SUFFICES ASSUME IndInv, RefInv, OpenInv, NEW c \in Requests, NEW a \in held[c]
                 PROVE  Live(a) /\ ~closed[a] /\ ~mclosed[a]
      BY DEF HeldAlive
    <3>1. a \in Requests
      BY DEF IndInv, TypeOK, RequestType
    <3>2. ~closed[a] /\ ~mclosed[a] /\ rpc[a] \notin Retired
      BY <3>1 DEF OpenInv, HeldOpen, ClosedOK
    <3>3. rpc[a] # "off"
      BY <3>1 DEF RefInv, FreshRefs, Holders
    <3> QED
      BY <3>2, <3>3 DEF Live, Retired
  <2> QED
    BY <1>1, <2>1, OpenInvariance, PTL
<1>2. CASE Closers # {}
  <2>1. HeldAlive
    BY <1>2 DEF HeldAlive
  <2> QED
    BY <2>1, PTL
<1> QED
  BY <1>1, <1>2

(* Nobody sends on a closed mailbox or closes one twice, if nobody closes  *)
(* an actor from outside.  With closers the code breaks this promise (run  *)
(* bug_mailbox).                                                           *)
THEOREM AlwaysMailboxSafe == Closers = {} => (Spec => []MailboxSafe)
<1>1. IndInv /\ RefInv /\ OpenInv => MailboxSafe
  BY DEF OpenInv
<1> QED
  BY <1>1, OpenInvariance, PTL
-----------------------------------------------------------------------------
(* The idle counter, in a group whose actors nobody closes from outside.   *)

LEMMA InitIdle == Init => IdleInv
<1> SUFFICES ASSUME Init PROVE IdleInv
  OBVIOUS
<1>1. IdleSet = {}
  BY DEF Init, IdleSet, CountedIdle, Live
<1>2. NoContext
  BY DEF Init, NoContext
<1>3. IdleExact
  BY <1>1, NoElement DEF Init, IdleExact, IdleSet
<1> QED
  BY <1>1, <1>2, <1>3, NoElement DEF IdleInv

(* The counter follows the set that it counts.                             *)
LEMMA IdleSame ==
    ASSUME IdleInv, NoContext', UNCHANGED idle, IdleSet' = IdleSet
    PROVE  IdleInv'
BY DEF IdleInv, IdleExact, IdleSet

LEMMA IdleMore ==
    ASSUME IdleInv, NoContext', NEW r, r \notin IdleSet,
           idle' = idle + 1, IdleSet' = IdleSet \cup {r}
    PROVE  IdleInv'
<1>1. PICK S : S = IdleSet
  OBVIOUS
<1>2. IsFiniteSet(S) /\ idle = Cardinality(S)
  BY <1>1 DEF IdleInv, IdleExact, IdleSet
<1>3. IsFiniteSet(S \cup {r}) /\ idle' = Cardinality(S \cup {r})
  BY <1>1, <1>2, AddOne
<1> QED
  BY <1>1, <1>3 DEF IdleInv, IdleExact, IdleSet

LEMMA IdleLess ==
    ASSUME IdleInv, NoContext', NEW r, r \in IdleSet,
           idle' = idle - 1, IdleSet' = IdleSet \ {r}
    PROVE  IdleInv'
<1>1. PICK S : S = IdleSet
  OBVIOUS
<1>2. IsFiniteSet(S) /\ idle = Cardinality(S)
  BY <1>1 DEF IdleInv, IdleExact, IdleSet
<1>3. IsFiniteSet(S \ {r}) /\ idle' = Cardinality(S \ {r})
  BY <1>1, <1>2, DropOne
<1> QED
  BY <1>1, <1>3 DEF IdleInv, IdleExact, IdleSet

LEMMA RequestIdle ==
    ASSUME IndInv, IdleInv, NEW c \in Requests, RequestStep(c)
    PROVE  IdleInv'
<1> USE DEF IndInv, TypeOK
<1>1. CASE UNCHANGED <<idle, rpc, ctx>>
  <2>1. IdleSet' = IdleSet /\ NoContext'
    BY <1>1 DEF IdleSet, CountedIdle, Live, NoContext, IdleInv
  <2> QED
    BY <1>1, <2>1, IdleSame
<1>2. CASE Insert(c) /\ pc[c] \in {"lock", "waitdone"}
  <2>1. rpc[c] = "off" /\ ctx[c] = "nil"
    BY <1>2 DEF Control, FreshOK, IdleInv, NoContext
  <2>2. /\ rpc' = [rpc EXCEPT ![c] = "top"]
        /\ idle' = idle + 1
        /\ UNCHANGED ctx
    BY <1>2 DEF Insert
  <2>3. c \notin IdleSet /\ IdleSet' = IdleSet \cup {c}
    BY <2>1, <2>2 DEF IdleSet, CountedIdle, Live, RunType
  <2>4. NoContext'
    BY <2>2 DEF IdleInv, NoContext, RunType
  <2> QED
    BY <2>2, <2>3, <2>4, IdleMore
<1> QED
  BY <1>1, <1>2 DEF RequestStep, CheckStopping, RLock, LookUp, Hold, RUnlock,
     SpawnActor, SpawnReuse, SpawnWaited, RefCheck, Send, Release

(* actorIdle and actorWake, when a handler leaves the active flag at now.  *)
LEMMA SettleIdleExact ==
    ASSUME TypeOK, IdleInv, NEW r \in Requests, NEW now \in BOOLEAN, NEW s, NEW x,
           rpc[r] = "invoke",
           SettleIdle(ctx[r] = "active", now),
           rpc' = [rpc EXCEPT ![r] = s],
           s \in {"loop", "invoke"},
           ctx' = [ctx EXCEPT ![r] = x],
           (x = "active") <=> now
    PROVE  IdleInv'
<1> USE DEF TypeOK
<1>1. NoContext'
  BY DEF IdleInv, NoContext, RunType
<1>2. /\ \A d \in Requests \ {r} : CountedIdle(d)' <=> CountedIdle(d)
      /\ CountedIdle(r) <=> ctx[r] # "active"
      /\ CountedIdle(r)' <=> ~now
  BY DEF CountedIdle, Live, RunType
<1>3. PICK was \in BOOLEAN : was <=> ctx[r] = "active"
  OBVIOUS
<1>4. SettleIdle(was, now)
  BY <1>3, Zenon
<1>5. CASE was /\ ~now
  <2>1. idle' = idle + 1
    BY <1>4, <1>5, Zenon DEF SettleIdle
  <2>2. r \notin IdleSet /\ IdleSet' = IdleSet \cup {r}
    BY <1>2, <1>3, <1>5 DEF IdleSet
  <2> QED
    BY <1>1, <2>1, <2>2, IdleMore
<1>6. CASE ~was /\ now
  <2>1. idle' = idle - 1
    BY <1>4, <1>6, Zenon DEF SettleIdle
  <2>2. r \in IdleSet /\ IdleSet' = IdleSet \ {r}
    BY <1>2, <1>3, <1>6 DEF IdleSet
  <2> QED
    BY <1>1, <2>1, <2>2, IdleLess
<1>7. CASE was <=> now
  <2>1. idle' = idle
    BY <1>4, <1>7, Zenon DEF SettleIdle
  <2>2. IdleSet' = IdleSet
    BY <1>2, <1>3, <1>7 DEF IdleSet
  <2> QED
    BY <1>1, <2>1, <2>2, IdleSame
<1> QED
  BY <1>5, <1>6, <1>7

LEMMA RunIdle ==
    ASSUME IndInv, ClosedOK, IdleInv, NEW r \in Requests, RunStep(r)
    PROVE  IdleInv'
<1> USE DEF IndInv, TypeOK
<1>0. ~closed[r] \/ rpc[r] \in Retired
  BY DEF ClosedOK
<1>1. ASSUME NEW now \in BOOLEAN, Invoke(r, now) PROVE IdleInv'
  <2>1. PICK s : rpc' = [rpc EXCEPT ![r] = s] /\ s \in {"loop", "invoke"}
    BY <1>1 DEF Invoke, InvokeNext
  <2>2. PICK x : ctx' = [ctx EXCEPT ![r] = x] /\ ((x = "active") <=> now)
    <3>1. ctx' = [ctx EXCEPT ![r] = IF now THEN "active" ELSE "nil"]
      BY <1>1 DEF Invoke
    <3>2. CASE now
      BY <3>1, <3>2
    <3>3. CASE ~now
      <4>1. ctx' = [ctx EXCEPT ![r] = "nil"]
        BY <3>1, <3>3
      <4>2. ("nil" = "active") <=> now
        BY <3>3
      <4> QED
        BY <4>1, <4>2, Zenon
    <3> QED
      BY <3>2, <3>3
  <2> QED
    BY <1>1, <2>1, <2>2, SettleIdleExact DEF Invoke
<1>2. ASSUME NEW now \in BOOLEAN, InvokePanics(r, now) PROVE IdleInv'
  <2>1. PICK x : ctx' = [ctx EXCEPT ![r] = x] /\ ((x = "active") <=> now)
    <3>1. ctx' = [ctx EXCEPT ![r] = IF now THEN "active" ELSE "idle"]
      BY <1>2 DEF InvokePanics
    <3>2. CASE now
      BY <3>1, <3>2
    <3>3. CASE ~now
      <4>1. ctx' = [ctx EXCEPT ![r] = "idle"]
        BY <3>1, <3>3
      <4>2. ("idle" = "active") <=> now
        BY <3>3
      <4> QED
        BY <4>1, <4>2, Zenon
    <3> QED
      BY <3>2, <3>3
  <2>2. PICK s : rpc' = [rpc EXCEPT ![r] = s] /\ s \in {"loop", "invoke"}
    BY <1>2 DEF InvokePanics
  <2> QED
    BY <1>2, <2>1, <2>2, SettleIdleExact DEF InvokePanics
<1>3. CASE Exit(r)
  <2>1. ctx[r] = "nil" /\ rpc[r] = "exit"
    BY <1>3 DEF Exit, IdleInv, NoContext
  <2>2. /\ idle' = idle - 1
        /\ ctx' = [ctx EXCEPT ![r] = "nil"]
        /\ rpc' = [rpc EXCEPT ![r] = "drain"]
    BY <1>3, <2>1 DEF Exit
  <2>3. r \in IdleSet /\ IdleSet' = IdleSet \ {r}
    BY <2>1, <2>2 DEF IdleSet, CountedIdle, Live, RunType
  <2>4. NoContext'
    BY <2>2 DEF IdleInv, NoContext, RunType
  <2> QED
    BY <2>2, <2>3, <2>4, IdleLess
<1>4. CASE \/ Top(r) \/ Pump(r) \/ Recv(r) \/ BatchLoop(r) \/ Deny(r) \/ OnSpawnFails(r)
           \/ ActorQuit(r) \/ Drain(r) \/ RemoveActor(r)
  <2>1. UNCHANGED <<idle, ctx>>
    BY <1>4 DEF Top, Pump, Recv, BatchLoop, Deny, OnSpawnFails, ActorQuit, Drain,
       RemoveActor
  <2>2. PICK s : /\ rpc' = [rpc EXCEPT ![r] = s]
                 /\ s \in {"off", "drain", "remove", "dead"}
                      <=> rpc[r] \in {"off", "drain", "remove", "dead"}
                 /\ s \in {"off", "quit", "exit"} => ctx[r] = "nil"
    <3>1. CASE Top(r) \/ BatchLoop(r)
      BY <1>0, <3>1 DEF Top, BatchLoop, Retired
    <3>2. CASE Recv(r)
      <4>1. mclosed[r] => rpc[r] \in Retired
        BY DEF ClosedOK
      <4> QED
        BY <3>2, <4>1 DEF Recv, Retired
    <3>3. CASE Pump(r) \/ Drain(r) \/ RemoveActor(r)
      BY <3>3 DEF Pump, Drain, RemoveActor, RunType
    <3>4. CASE Deny(r) \/ OnSpawnFails(r)
      BY <3>4 DEF Deny, OnSpawnFails, InvokeNext
    <3>5. CASE ActorQuit(r)
      BY <3>5 DEF ActorQuit, IdleInv, NoContext
    <3> QED
      BY <1>4, <3>1, <3>2, <3>3, <3>4, <3>5
  <2>3. IdleSet' = IdleSet
    BY <2>1, <2>2 DEF IdleSet, CountedIdle, Live, RunType
  <2>4. NoContext'
    BY <2>1, <2>2 DEF IdleInv, NoContext, RunType
  <2> QED
    BY <2>1, <2>3, <2>4, IdleSame
<1> QED
  BY <1>1, <1>2, <1>3, <1>4 DEF RunStep

LEMMA NextIdle ==
    ASSUME Closers = {}, IndInv, OpenInv, IdleInv, [Next]_vars
    PROVE  IdleInv'
<1>1. CASE UNCHANGED vars
  <2>1. IdleSet' = IdleSet /\ NoContext' /\ idle' = idle
    BY <1>1 DEF vars, IdleSet, CountedIdle, Live, NoContext, IdleInv
  <2> QED
    BY <2>1, IdleSame
<1> QED
  BY <1>1, RequestIdle, RunIdle DEF Next, Terminated, OpenInv

(* The idle counter is exact in every reachable state, if nobody closes an *)
(* actor from outside: spawnActor, actorIdle, actorWake and the exit of    *)
(* the run loop account for every runtime once, panics included.           *)
THEOREM AlwaysIdleExact == Closers = {} => (Spec => []IdleExact)
<1> SUFFICES ASSUME Closers = {} PROVE Spec => []IdleExact
  OBVIOUS
<1>1. IndInv /\ RefInv /\ OpenInv /\ IdleInv /\ [Next]_vars => IdleInv'
  BY NextIdle
<1>2. IdleInv => IdleExact
  BY DEF IdleInv
<1>3. Spec => [](IndInv /\ RefInv /\ OpenInv)
  BY OpenInvariance
<1> QED
  BY <1>1, <1>2, <1>3, InitIdle, PTL DEF Spec
-----------------------------------------------------------------------------
(* Message conservation.                                                   *)

LEMMA EmptyFacts == Range(<< >>) = {} /\ NoRepeat(<< >>)
BY DEF Range, NoRepeat

LEMMA AppendFacts ==
    ASSUME NEW S, NEW s \in Seq(S), NEW e \in S
    PROVE  /\ Range(Append(s, e)) = Range(s) \cup {e}
           /\ NoRepeat(s) /\ e \notin Range(s) => NoRepeat(Append(s, e))
<1> DEFINE a == Append(s, e)
<1>1. Len(s) \in Nat /\ DOMAIN s = 1..Len(s)
  BY LenProperties
<1>2. /\ a \in Seq(S) /\ Len(a) = Len(s) + 1
      /\ \A i \in 1..Len(s) : a[i] = s[i]
      /\ a[Len(s) + 1] = e
  BY AppendProperties
<1>3. DOMAIN a = 1..(Len(s) + 1)
  BY <1>2, LenProperties
<1> HIDE DEF a
<1>4. Range(a) = Range(s) \cup {e}
  BY <1>1, <1>2, <1>3 DEF Range
<1>5. ASSUME NoRepeat(s), e \notin Range(s) PROVE NoRepeat(a)
  <2>1. \A i \in 1..Len(s) : s[i] # e
    BY <1>1, <1>5 DEF Range
  <2> QED
    BY <1>1, <1>2, <1>3, <1>5, <2>1 DEF NoRepeat
<1> QED
  BY <1>4, <1>5 DEF a

LEMMA TailFacts ==
    ASSUME NEW S, NEW s \in Seq(S), s # << >>
    PROVE  /\ Tail(s) \in Seq(S)
           /\ Head(s) \in S
           /\ Range(s) = Range(Tail(s)) \cup {Head(s)}
           /\ NoRepeat(s) => NoRepeat(Tail(s)) /\ Head(s) \notin Range(Tail(s))
<1> DEFINE t == Tail(s)
<1>1. Len(s) \in Nat /\ DOMAIN s = 1..Len(s) /\ Len(s) # 0
  BY LenProperties, EmptySeq
<1>2. /\ t \in Seq(S) /\ Len(t) = Len(s) - 1
      /\ \A i \in 1..Len(t) : t[i] = s[i + 1]
      /\ Head(s) = s[1] /\ Head(s) \in S
  BY HeadTailProperties
<1>3. DOMAIN t = 1..(Len(s) - 1)
  BY <1>2, LenProperties
<1> HIDE DEF t
<1>4. Range(s) = Range(t) \cup {Head(s)}
  <2>1. ASSUME NEW i \in 1..Len(s) PROVE s[i] \in Range(t) \cup {s[1]}
    <3>1. CASE i = 1
      BY <3>1
    <3>2. CASE i # 1
      <4>1. i - 1 \in 1..(Len(s) - 1) /\ t[i - 1] = s[i]
        BY <1>1, <1>2, <3>2
      <4> QED
        BY <1>3, <4>1 DEF Range
    <3> QED
      BY <3>1, <3>2
  <2>2. ASSUME NEW i \in 1..(Len(s) - 1) PROVE t[i] \in Range(s)
    <3>1. i + 1 \in 1..Len(s) /\ t[i] = s[i + 1]
      BY <1>1, <1>2
    <3> QED
      BY <1>1, <3>1 DEF Range
  <2>3. s[1] \in Range(s)
    BY <1>1 DEF Range
  <2> QED
    BY <1>1, <1>2, <1>3, <2>1, <2>2, <2>3 DEF Range
<1>5. ASSUME NoRepeat(s) PROVE NoRepeat(t) /\ Head(s) \notin Range(t)
  <2>1. \A i \in 1..(Len(s) - 1) : i + 1 \in 1..Len(s) /\ t[i] = s[i + 1] /\ i + 1 # 1
    BY <1>1, <1>2
  <2>2. \A i, j \in 1..(Len(s) - 1) : t[i] = t[j] => i = j
    BY <1>1, <1>5, <2>1 DEF NoRepeat
  <2>3. \A i \in 1..(Len(s) - 1) : t[i] # s[1]
    BY <1>1, <1>5, <2>1 DEF NoRepeat
  <2> QED
    BY <1>2, <1>3, <2>2, <2>3 DEF NoRepeat, Range
<1> QED
  BY <1>2, <1>4, <1>5 DEF t

(* 1 if the message is among those, else 0.                                *)
In(c, ms) == IF c \in ms THEN 1 ELSE 0

LEMMA SettleLen ==
    ASSUME HistoryType, NEW r \in Requests, NEW ms, NEW o \in Outcomes, Settle(r, ms, o)
    PROVE  /\ \A c \in Requests, d \in Requests \ {r} : outcome'[c][d] = outcome[c][d]
           /\ \A c \in Requests : Len(outcome'[c][r]) = Len(outcome[c][r]) + In(c, ms)
<1>1. \A c \in Requests : /\ outcome[c] \in [Requests -> Seq(Outcomes)]
                          /\ outcome[c][r] \in Seq(Outcomes)
                          /\ Len(outcome[c][r]) \in Nat
  <2>1. \A c \in Requests : outcome[c] \in [Requests -> Seq(Outcomes)]
    BY DEF HistoryType
  <2>2. \A c \in Requests : outcome[c][r] \in Seq(Outcomes)
    BY <2>1
  <2>3. \A s \in Seq(Outcomes) : Len(s) \in Nat
    BY LenProperties
  <2> QED
    BY <2>1, <2>2, <2>3
<1>2. ASSUME NEW c \in Requests, c \in ms
      PROVE  /\ \A d \in Requests \ {r} : outcome'[c][d] = outcome[c][d]
             /\ Len(outcome'[c][r]) = Len(outcome[c][r]) + 1
  <2>1. outcome'[c] = [outcome[c] EXCEPT ![r] = Append(@, o)]
    BY <1>2 DEF Settle
  <2>2. outcome'[c][r] = Append(outcome[c][r], o)
    BY <1>1, <2>1
  <2>3. Len(Append(outcome[c][r], o)) = Len(outcome[c][r]) + 1
    <3>1. PICK s \in Seq(Outcomes) : s = outcome[c][r]
      BY <1>1
    <3> QED
      BY <3>1, AppendProperties
  <2> QED
    BY <1>1, <2>1, <2>2, <2>3
<1>3. ASSUME NEW c \in Requests, c \notin ms PROVE outcome'[c] = outcome[c]
  BY <1>3 DEF Settle
<1>4. \A c \in Requests, d \in Requests \ {r} : outcome'[c][d] = outcome[c][d]
  BY <1>2, <1>3
<1>5. ASSUME NEW c \in Requests
      PROVE  Len(outcome'[c][r]) = Len(outcome[c][r]) + In(c, ms)
  <2>1. CASE c \in ms
    BY <1>2, <2>1 DEF In
  <2>2. CASE c \notin ms
    <3>1. Len(outcome'[c][r]) = Len(outcome[c][r]) /\ In(c, ms) = 0
      BY <1>3, <2>2 DEF In
    <3> QED
      BY <1>1, <3>1
  <2> QED
    BY <2>1, <2>2
<1> QED
  BY <1>4, <1>5

(* A step of run loop r touches the queue and the batch of r only.         *)
Others(r) ==
    /\ \A d \in Requests \ {r} : /\ mailbox'[d] = mailbox[d]
                                 /\ buf'[d] = buf[d]
                                 /\ recov'[d] = recov[d]
                                 /\ rpc'[d] = rpc[d]
                                 /\ ctx'[d] = ctx[d]
    /\ UNCHANGED <<togo, accepted, pc>>

(* ... and moves messages between them, or out with an outcome.            *)
Accounts(r, ms) ==
    /\ \A c \in Requests, d \in Requests \ {r} : outcome'[c][d] = outcome[c][d]
    /\ \A c \in Requests : Len(outcome'[c][r]) = Len(outcome[c][r]) + In(c, ms)
    /\ \A c \in Requests :
         In(c, Range(mailbox'[r])) + In(c, Leftover(r)') + In(c, ms)
             = In(c, Range(mailbox[r])) + In(c, Leftover(r))

LEMMA OutcomeLen ==
    ASSUME HistoryType, NEW c \in Requests, NEW r \in Requests
    PROVE  Len(outcome[c][r]) \in Nat
<1>1. outcome[c] \in [Requests -> Seq(Outcomes)]
  BY DEF HistoryType
<1>2. PICK s \in Seq(Outcomes) : s = outcome[c][r]
  BY <1>1
<1> QED
  BY <1>2, LenProperties

LEMMA MessageStep ==
    ASSUME TypeOK, MessageInv, NEW r \in Requests, NEW ms,
           Others(r), Accounts(r, ms),
           OnceOK(r)', BatchEmpty(r)', RecovOK(r)'
    PROVE  MessageInv'
<1> USE DEF TypeOK, MessageInv
<1>1. ASSUME NEW d \in Requests \ {r} PROVE (OnceOK(d) /\ BatchEmpty(d) /\ RecovOK(d))'
  BY DEF Others, OnceOK, BatchEmpty, RecovOK
<1>2. SendOnce'
  BY DEF Others, SendOnce
<1>3. ASSUME NEW c \in Requests, NEW d \in Requests
      PROVE  In(c, Range(mailbox'[d])) + In(c, Leftover(d)') + Len(outcome'[c][d])
                 = IF d \in accepted'[c] THEN 1 ELSE 0
  <2>0. In(c, Range(mailbox[d])) + In(c, Leftover(d)) + Len(outcome[c][d])
            = IF d \in accepted[c] THEN 1 ELSE 0
    BY DEF Conservation, In
  <2>1. CASE d # r
    <3>1. Leftover(d)' = Leftover(d)
      BY <2>1 DEF Leftover, Others
    <3> QED
      BY <2>0, <2>1, <3>1 DEF Others, Accounts
  <2>2. CASE d = r
    <3>1. PICK q1, b1, m, q0, b0 \in {0, 1} :
             /\ q1 = In(c, Range(mailbox'[r])) /\ b1 = In(c, Leftover(r)')
             /\ m = In(c, ms)
             /\ q0 = In(c, Range(mailbox[r])) /\ b0 = In(c, Leftover(r))
      BY DEF In
    <3>2. q1 + b1 + m = q0 + b0
      BY <3>1 DEF Accounts
    <3>3. PICK n \in Nat : n = Len(outcome[c][r])
      BY OutcomeLen
    <3>4. Len(outcome'[c][r]) = n + m
      BY <3>1, <3>3 DEF Accounts
    <3>5. q0 + b0 + n = IF r \in accepted[c] THEN 1 ELSE 0
      BY <2>0, <2>2, <3>1, <3>3
    <3>6. q1 + b1 + (n + m) = q0 + b0 + n
      BY <3>2
    <3>7. accepted' = accepted
      BY DEF Others
    <3> QED
      BY <2>2, <3>1, <3>4, <3>5, <3>6, <3>7
  <2> QED
    BY <2>1, <2>2
<1>4. Conservation'
  BY <1>3 DEF Conservation, In
<1> QED
  BY <1>1, <1>2, <1>4

(* The three ways a message moves: nowhere, from the mailbox to the batch, *)
(* and out.                                                                *)
LEMMA MovesNone ==
    ASSUME TypeOK, NEW r \in Requests, UNCHANGED <<mailbox, buf, recov, outcome>>
    PROVE  Accounts(r, {})
<1>1. Leftover(r)' = Leftover(r)
  BY DEF Leftover
<1>2. \A c \in Requests : In(c, {}) = 0 /\ Len(outcome[c][r]) \in Nat
  BY OutcomeLen DEF In, TypeOK
<1>3. \A c \in Requests : In(c, Range(mailbox[r])) + In(c, Leftover(r)) + 0
                              = In(c, Range(mailbox[r])) + In(c, Leftover(r))
  BY DEF In
<1>4. \A c \in Requests : Len(outcome[c][r]) + 0 = Len(outcome[c][r])
  BY <1>2
<1> QED
  BY <1>1, <1>2, <1>3, <1>4 DEF Accounts

LEMMA MovesOut ==
    ASSUME HistoryType, NEW r \in Requests, NEW ms, NEW o \in Outcomes, Settle(r, ms, o),
           NEW q, NEW b, NEW b1,
           q = Range(mailbox[r]), q = Range(mailbox'[r]),
           b = Leftover(r), b1 = Leftover(r)',
           b = b1 \cup ms, b1 \cap ms = {}
    PROVE  Accounts(r, ms)
<1>1. \A c \in Requests : In(c, b1) + In(c, ms) = In(c, b)
  BY DEF In
<1>2. \A c \in Requests : In(c, q) + In(c, b1) + In(c, ms) = In(c, q) + In(c, b)
  BY DEF In
<1> QED
  BY <1>2, SettleLen DEF Accounts

(* pumpMailbox and the blocking receive take the first message.            *)
LEMMA TakeMoves ==
    ASSUME TypeOK, MessageInv, NEW r \in Requests, Take(r), recov[r] = "none",
           UNCHANGED <<recov, outcome>>
    PROVE  Accounts(r, {}) /\ OnceOK(r)' /\ buf'[r] # << >>
<1> USE DEF TypeOK
<1>0. PICK s, t \in Seq(Requests) : s = mailbox[r] /\ t = buf[r]
  BY DEF RuntimeType, RunType
<1>1. s # << >> /\ NoRepeat(s) /\ NoRepeat(t)
  BY <1>0 DEF Take, MessageInv, OnceOK
<1>2. PICK h : h = Head(s)
  OBVIOUS
<1>3. /\ Tail(s) \in Seq(Requests) /\ h \in Requests
      /\ Range(s) = Range(Tail(s)) \cup {h}
      /\ NoRepeat(Tail(s)) /\ h \notin Range(Tail(s))
  BY <1>1, <1>2, TailFacts
<1>4. mailbox'[r] = Tail(s) /\ buf'[r] = Append(t, h)
  BY <1>0, <1>2 DEF Take, RuntimeType, RunType
<1>5. Leftover(r) = Range(t) /\ Leftover(r)' = Range(Append(t, h))
  BY <1>0, <1>4 DEF Leftover
<1>6. h \notin Range(t)
  <2>1. In(h, Range(s)) + In(h, Range(t)) + Len(outcome[h][r])
            = IF r \in accepted[h] THEN 1 ELSE 0
    BY <1>0, <1>3, <1>5 DEF MessageInv, Conservation, In
  <2>2. Len(outcome[h][r]) \in Nat /\ In(h, Range(s)) = 1
    BY <1>3, OutcomeLen DEF In
  <2>3. CASE h \in Range(t)
    <3>1. In(h, Range(t)) = 1
      BY <2>3 DEF In
    <3> QED
      BY <2>1, <2>2, <3>1
  <2> QED
    BY <2>3
<1>7. Range(Append(t, h)) = Range(t) \cup {h} /\ NoRepeat(Append(t, h))
  BY <1>1, <1>3, <1>6, AppendFacts
<1>8. \A c \in Requests :
         In(c, Range(Tail(s))) + In(c, Range(Append(t, h))) + In(c, {})
             = In(c, Range(s)) + In(c, Range(t))
  BY <1>3, <1>6, <1>7 DEF In
<1>9. \A c \in Requests : Len(outcome[c][r]) = Len(outcome[c][r]) + In(c, {})
  BY OutcomeLen DEF In
<1>10. Accounts(r, {})
  BY <1>0, <1>4, <1>5, <1>8, <1>9 DEF Accounts
<1>11. OnceOK(r)'
  BY <1>3, <1>4, <1>7 DEF OnceOK
<1>12. buf'[r] # << >>
  BY <1>3, <1>4
<1> QED
  BY <1>10, <1>11, <1>12

(* invokeBatch is through with the message at buf[x].                      *)
LEMMA InvokeMoves ==
    ASSUME TypeOK, MessageInv, NEW r \in Requests, NEW ms, NEW o \in Outcomes,
           buf[r] # << >>, InvokeNext(r), Settle(r, ms, o), UNCHANGED mailbox,
           IF recov[r] = "none" THEN ms = {Head(buf[r])} ELSE ms = {}
    PROVE  Accounts(r, ms) /\ OnceOK(r)' /\ BatchEmpty(r)' /\ RecovOK(r)'
<1> USE DEF TypeOK
<1>0. PICK t \in Seq(Requests) : t = buf[r]
  BY DEF RunType
<1>1. NoRepeat(t) /\ NoRepeat(mailbox[r]) /\ t # << >>
  BY <1>0 DEF MessageInv, OnceOK
<1>2. /\ Tail(t) \in Seq(Requests)
      /\ Range(t) = Range(Tail(t)) \cup {Head(t)}
      /\ NoRepeat(Tail(t)) /\ Head(t) \notin Range(Tail(t))
  BY <1>1, TailFacts
<1>3. buf'[r] = Tail(t) /\ recov'[r] = "none" /\ rpc'[r] \in {"loop", "invoke"}
  BY <1>0 DEF InvokeNext, RunType
<1>4. Leftover(r)' = Range(Tail(t))
  BY <1>3 DEF Leftover
<1>5. /\ Leftover(r) = Range(Tail(t)) \cup ms
      /\ Range(Tail(t)) \cap ms = {}
  BY <1>0, <1>1, <1>2 DEF Leftover
<1>6. Accounts(r, ms)
  BY <1>4, <1>5, MovesOut
<1>7. OnceOK(r)'
  BY <1>1, <1>2, <1>3 DEF OnceOK
<1>8. BatchEmpty(r)' /\ RecovOK(r)'
  BY <1>3 DEF BatchEmpty, RecovOK
<1> QED
  BY <1>6, <1>7, <1>8

LEMMA RunOthers ==
    ASSUME TypeOK, NEW r \in Requests, RunStep(r)
    PROVE  Others(r)
<1> USE DEF TypeOK, RunType, RuntimeType, Others
<1>1. CASE Top(r) \/ BatchLoop(r) \/ RemoveActor(r)
  BY <1>1 DEF Top, BatchLoop, RemoveActor
<1>2. CASE Pump(r) \/ Recv(r)
  BY <1>2 DEF Pump, Recv, Take
<1>3. CASE Deny(r) \/ OnSpawnFails(r)
  BY <1>3 DEF Deny, OnSpawnFails, InvokeNext
<1>4. CASE \E now \in BOOLEAN : Invoke(r, now) \/ InvokePanics(r, now)
  BY <1>4 DEF Invoke, InvokePanics, InvokeNext
<1>5. CASE ActorQuit(r)
  BY <1>5 DEF ActorQuit
<1>6. CASE Exit(r) \/ Drain(r)
  BY <1>6 DEF Exit, Drain
<1> QED
  BY <1>1, <1>2, <1>3, <1>4, <1>5, <1>6 DEF RunStep

LEMMA RunMessage ==
    ASSUME IndInv, MessageInv, NEW r \in Requests, RunStep(r)
    PROVE  MessageInv'
<1> USE DEF IndInv, TypeOK
<1>0. Others(r) /\ OnceOK(r) /\ BatchEmpty(r) /\ RecovOK(r)
  BY RunOthers DEF MessageInv
<1>10. rpc[r] = "invoke" => buf[r] # << >>
  BY DEF Control, BatchOK
<1>1. CASE Top(r) \/ BatchLoop(r) \/ RemoveActor(r)
  <2>1. UNCHANGED <<mailbox, buf, recov, outcome, ctx>>
    BY <1>1 DEF Top, BatchLoop, RemoveActor
  <2>2. Accounts(r, {}) /\ OnceOK(r)'
    BY <1>0, <2>1, MovesNone DEF OnceOK
  <2>3. BatchEmpty(r)' /\ RecovOK(r)'
    BY <1>0, <1>1, <2>1 DEF Top, BatchLoop, RemoveActor, BatchEmpty, RecovOK, RunType
  <2> QED
    BY <1>0, <2>2, <2>3, MessageStep
<1>2. CASE Pump(r) \/ Recv(r)
  <2>1. recov[r] = "none" /\ UNCHANGED <<recov, outcome>>
    BY <1>0, <1>2 DEF Pump, Recv, RecovOK
  <2>2. CASE Take(r)
    <3>1. Accounts(r, {}) /\ OnceOK(r)' /\ buf'[r] # << >>
      BY <2>1, <2>2, TakeMoves
    <3>2. rpc'[r] = "pump"
      BY <1>2, <2>2 DEF Pump, Recv, Take, RunType
    <3>3. BatchEmpty(r)' /\ RecovOK(r)'
      BY <2>1, <3>2 DEF BatchEmpty, RecovOK
    <3> QED
      BY <1>0, <3>1, <3>3, MessageStep
  <2>3. CASE ~Take(r)
    <3>1. UNCHANGED <<mailbox, buf>>
      BY <1>2, <2>3 DEF Pump, Recv
    <3>2. Accounts(r, {}) /\ OnceOK(r)'
      BY <1>0, <2>1, <3>1, MovesNone DEF OnceOK
    <3>3. BatchEmpty(r)' /\ RecovOK(r)'
      BY <1>0, <1>2, <2>1, <2>3, <3>1 DEF Pump, Recv, BatchEmpty, RecovOK, RunType
    <3> QED
      BY <1>0, <3>2, <3>3, MessageStep
  <2> QED
    BY <2>2, <2>3
<1>3. CASE Deny(r)
  <2>1. recov[r] = "none"
    BY <1>3 DEF Deny, Allow
  <2>2. Accounts(r, {Head(buf[r])}) /\ OnceOK(r)' /\ BatchEmpty(r)' /\ RecovOK(r)'
    BY <1>10, <1>3, <2>1, InvokeMoves DEF Deny, Outcomes
  <2> QED
    BY <1>0, <2>2, MessageStep
<1>4. CASE OnSpawnFails(r)
  <2>1. recov[r] = "none"
    BY <1>0, <1>4 DEF OnSpawnFails, RecovOK
  <2>2. Accounts(r, {Head(buf[r])}) /\ OnceOK(r)' /\ BatchEmpty(r)' /\ RecovOK(r)'
    BY <1>10, <1>4, <2>1, InvokeMoves DEF OnSpawnFails, Outcomes
  <2> QED
    BY <1>0, <2>2, MessageStep
<1>5. ASSUME NEW now \in BOOLEAN, Invoke(r, now) PROVE MessageInv'
  <2>1. Accounts(r, Original(r)) /\ OnceOK(r)' /\ BatchEmpty(r)' /\ RecovOK(r)'
    <3>1. PICK ms : ms = Original(r)
      OBVIOUS
    <3>2. /\ IF recov[r] = "none" THEN ms = {Head(buf[r])} ELSE ms = {}
          /\ buf[r] # << >>
          /\ InvokeNext(r) /\ Settle(r, ms, "handled") /\ UNCHANGED mailbox
      BY <1>10, <1>5, <3>1 DEF Invoke, Original
    <3> QED
      BY <3>1, <3>2, InvokeMoves DEF Outcomes
  <2> QED
    BY <1>0, <2>1, MessageStep
<1>6. ASSUME NEW now \in BOOLEAN, InvokePanics(r, now) PROVE MessageInv'
  <2>0. PICK t \in Seq(Requests) : t = buf[r]
    BY DEF RunType
  <2>1. t # << >> /\ NoRepeat(t) /\ NoRepeat(mailbox[r])
    BY <1>0, <1>10, <1>6, <2>0 DEF InvokePanics, OnceOK
  <2>2. /\ Range(t) = Range(Tail(t)) \cup {Head(t)}
        /\ Head(t) \notin Range(Tail(t))
    BY <2>1, TailFacts
  <2>3. /\ UNCHANGED <<mailbox, buf>>
        /\ recov'[r] \in {"panicreq", "drop"}
        /\ rpc'[r] = "loop"
        /\ ctx'[r] # "nil"
    BY <1>6 DEF InvokePanics, RunType
  <2>4. PICK ms : ms = Original(r)
    OBVIOUS
  <2>5. Settle(r, ms, "panicked")
    BY <1>6, <2>4 DEF InvokePanics, PanicAnswers
  <2>6. Leftover(r)' = Range(Tail(t))
    BY <2>0, <2>1, <2>3 DEF Leftover
  <2>7. Leftover(r) = Range(Tail(t)) \cup ms /\ Range(Tail(t)) \cap ms = {}
    BY <2>0, <2>1, <2>2, <2>4 DEF Leftover, Original
  <2>8. Accounts(r, ms)
    BY <2>3, <2>5, <2>6, <2>7, MovesOut DEF Outcomes
  <2>9. OnceOK(r)' /\ BatchEmpty(r)' /\ RecovOK(r)'
    BY <1>0, <2>0, <2>1, <2>3 DEF OnceOK, BatchEmpty, RecovOK
  <2> QED
    BY <1>0, <2>8, <2>9, MessageStep
<1>7. CASE ActorQuit(r)
  <2>1. /\ recov[r] = "none" /\ buf[r] = << >> /\ UNCHANGED <<recov, outcome, ctx>>
        /\ rpc'[r] \in {"top", "exit"}
    BY <1>0, <1>7 DEF ActorQuit, BatchEmpty, RecovOK, RunType
  <2>2. BatchEmpty(r)' /\ RecovOK(r)'
    BY <2>1 DEF BatchEmpty, RecovOK
  <2>3. CASE UNCHANGED <<mailbox, buf>>
    BY <1>0, <2>1, <2>2, <2>3, MovesNone, MessageStep DEF OnceOK
  <2>4. CASE mailbox[r] # << >> /\ ~InUse(r)
    <3>1. buf'[r] = mailbox[r] /\ mailbox'[r] = << >>
      BY <1>7, <2>4 DEF ActorQuit, RunType, RuntimeType
    <3>2. Leftover(r) = {} /\ Leftover(r)' = Range(mailbox[r])
      BY <2>1, <3>1, EmptyFacts DEF Leftover
    <3>3. OnceOK(r)'
      BY <1>0, <3>1, EmptyFacts DEF OnceOK
    <3>4. \A c \in Requests : Len(outcome[c][r]) = Len(outcome[c][r]) + In(c, {})
      BY OutcomeLen DEF In
    <3>5. \A c \in Requests : In(c, {}) + In(c, Range(mailbox[r])) + In(c, {})
                                  = In(c, Range(mailbox[r])) + In(c, {})
      BY DEF In
    <3>6. Accounts(r, {})
      BY <2>1, <3>1, <3>2, <3>4, <3>5, EmptyFacts DEF Accounts
    <3> QED
      BY <1>0, <2>2, <3>3, <3>6, MessageStep
  <2> QED
    BY <1>7, <2>3, <2>4 DEF ActorQuit
<1>8. CASE Exit(r)
  <2>1. /\ buf'[r] = << >> /\ recov'[r] = "none" /\ rpc'[r] = "drain" /\ UNCHANGED mailbox
        /\ Settle(r, Leftover(r), "actorclosed")
    BY <1>8 DEF Exit, RunType
  <2>2. OnceOK(r)' /\ BatchEmpty(r)' /\ RecovOK(r)'
    BY <1>0, <2>1, EmptyFacts DEF OnceOK, BatchEmpty, RecovOK
  <2>3. Leftover(r)' = {}
    BY <2>1, EmptyFacts DEF Leftover
  <2>4. Accounts(r, Leftover(r))
    <3>1. PICK ms : ms = Leftover(r)
      OBVIOUS
    <3>2. Settle(r, ms, "actorclosed") /\ Leftover(r) = {} \cup ms /\ {} \cap ms = {}
      BY <2>1, <3>1
    <3> QED
      BY <2>1, <2>3, <3>1, <3>2, MovesOut DEF Outcomes
  <2> QED
    BY <1>0, <2>2, <2>4, MessageStep
<1>9. CASE Drain(r)
  <2>1. recov[r] = "none" /\ buf[r] = << >> /\ UNCHANGED <<recov, buf, ctx>>
    BY <1>0, <1>9 DEF Drain, BatchEmpty, RecovOK
  <2>2. BatchEmpty(r)' /\ RecovOK(r)'
    BY <2>1 DEF BatchEmpty, RecovOK
  <2>3. CASE mailbox[r] = << >>
    <3>1. UNCHANGED <<mailbox, outcome>>
      BY <1>9, <2>3 DEF Drain
    <3> QED
      BY <1>0, <2>1, <2>2, <3>1, MovesNone, MessageStep DEF OnceOK
  <2>4. CASE mailbox[r] # << >>
    <3>0. PICK s \in Seq(Requests) : s = mailbox[r]
      BY DEF RuntimeType
    <3>1. s # << >> /\ NoRepeat(s)
      BY <1>0, <2>4, <3>0 DEF OnceOK
    <3>2. /\ Range(s) = Range(Tail(s)) \cup {Head(s)}
          /\ NoRepeat(Tail(s)) /\ Head(s) \notin Range(Tail(s))
      BY <3>1, TailFacts
    <3>3. mailbox'[r] = Tail(s) /\ Settle(r, {Head(s)}, "actorclosed")
      BY <1>9, <2>4, <3>0 DEF Drain, RuntimeType
    <3>4. Leftover(r)' = Leftover(r)
      BY <2>1 DEF Leftover
    <3>5. OnceOK(r)'
      BY <1>0, <2>1, <3>2, <3>3 DEF OnceOK
    <3>6. \A c \in Requests : \A b : In(c, Range(Tail(s))) + In(c, b) + In(c, {Head(s)})
                                        = In(c, Range(s)) + In(c, b)
      BY <3>2 DEF In
    <3>7. PICK ms : ms = {Head(s)}
      OBVIOUS
    <3>8. /\ \A c \in Requests, d \in Requests \ {r} : outcome'[c][d] = outcome[c][d]
          /\ \A c \in Requests : Len(outcome'[c][r]) = Len(outcome[c][r]) + In(c, ms)
      BY <3>3, <3>7, SettleLen DEF Outcomes
    <3>9. Accounts(r, ms)
      BY <3>0, <3>3, <3>4, <3>6, <3>7, <3>8 DEF Accounts
    <3> QED
      BY <1>0, <2>2, <3>5, <3>9, MessageStep
  <2> QED
    BY <2>3, <2>4
<1> QED
  BY <1>1, <1>2, <1>3, <1>4, <1>5, <1>6, <1>7, <1>8, <1>9 DEF RunStep

(* What a step does that leaves the queues, the batches and the history.   *)
LEMMA MessageFrame ==
    ASSUME MessageInv, SendOnce',
           UNCHANGED <<mailbox, buf, recov, ctx, outcome, accepted>>,
           \A r \in Requests : rpc'[r] = rpc[r] \/ (rpc[r] = "off" /\ rpc'[r] = "top")
    PROVE  MessageInv'
<1> USE DEF MessageInv
<1>1. \A r \in Requests : (OnceOK(r) /\ BatchEmpty(r) /\ RecovOK(r))'
  BY DEF OnceOK, BatchEmpty, RecovOK
<1>2. \A r : Leftover(r)' = Leftover(r)
  BY DEF Leftover
<1>3. Conservation'
  BY <1>2 DEF Conservation
<1> QED
  BY <1>1, <1>3

(* A mailbox takes the message of request c.                               *)
LEMMA SendMessage ==
    ASSUME TypeOK, MessageInv, NEW c \in Requests, NEW a \in Requests, Send(c, a)
    PROVE  MessageInv'
<1> USE DEF TypeOK, MessageInv
<1>1. SendOnce'
  <2>1. \A d \in Requests \ {c} : /\ togo'[d] = togo[d]
                                  /\ accepted'[d] = accepted[d]
                                  /\ pc'[d] = pc[d]
    BY DEF Send, RequestType, HistoryType
  <2>2. /\ togo'[c] = togo[c] \ {a} /\ accepted'[c] \subseteq accepted[c] \cup {a}
        /\ pc'[c] \in {"unhold", "send"}
    BY DEF Send, RequestType, HistoryType
  <2> QED
    BY <2>1, <2>2 DEF SendOnce
<1>2. CASE Full(a) \/ mclosed[a]
  BY <1>1, <1>2, MessageFrame DEF Send
<1>3. CASE ~(Full(a) \/ mclosed[a])
  <2>0. PICK s \in Seq(Requests) : s = mailbox[a]
    BY DEF RuntimeType
  <2>1. a \notin accepted[c]
    BY DEF Send, SendOnce
  <2>2. /\ \A d \in Requests \ {a} : mailbox'[d] = mailbox[d]
        /\ mailbox'[a] = Append(s, c)
        /\ accepted'[c] = accepted[c] \cup {a}
        /\ \A d \in Requests \ {c} : accepted'[d] = accepted[d]
        /\ UNCHANGED <<rpc, buf, recov, ctx, outcome>>
    BY <1>3, <2>0 DEF Send, RuntimeType, HistoryType
  <2>3. /\ c \notin Range(s) /\ c \notin Leftover(a) /\ Len(outcome[c][a]) = 0
    <3>1. In(c, Range(s)) + In(c, Leftover(a)) + Len(outcome[c][a]) = 0
      BY <2>0, <2>1 DEF Conservation, In
    <3>2. PICK x, y \in {0, 1} : x = In(c, Range(s)) /\ y = In(c, Leftover(a))
      BY DEF In
    <3>3. PICK n \in Nat : n = Len(outcome[c][a])
      BY OutcomeLen
    <3>4. x = 0 /\ y = 0 /\ n = 0
      BY <3>1, <3>2, <3>3
    <3> QED
      BY <3>2, <3>3, <3>4 DEF In
  <2>4. NoRepeat(s) /\ Range(Append(s, c)) = Range(s) \cup {c} /\ NoRepeat(Append(s, c))
    BY <2>0, <2>3, AppendFacts DEF OnceOK
  <2>5. \A r \in Requests : (OnceOK(r) /\ BatchEmpty(r) /\ RecovOK(r))'
    BY <2>2, <2>4 DEF OnceOK, BatchEmpty, RecovOK
  <2>6. \A r : Leftover(r)' = Leftover(r)
    BY <2>2 DEF Leftover
  <2>7. ASSUME NEW d \in Requests, NEW r \in Requests
        PROVE  In(d, Range(mailbox'[r])) + In(d, Leftover(r)') + Len(outcome'[d][r])
                   = IF r \in accepted'[d] THEN 1 ELSE 0
    <3>1. In(d, Range(mailbox[r])) + In(d, Leftover(r)) + Len(outcome[d][r])
              = IF r \in accepted[d] THEN 1 ELSE 0
      BY DEF Conservation, In
    <3>2. CASE d = c /\ r = a
      <4>1. In(d, Range(mailbox'[r])) = 1 /\ In(d, Leftover(r)') = 0
        BY <2>2, <2>3, <2>4, <2>6, <3>2 DEF In
      <4>2. Len(outcome'[d][r]) = 0 /\ r \in accepted'[d]
        BY <2>2, <2>3, <3>2
      <4> QED
        BY <4>1, <4>2
    <3>3. CASE d # c \/ r # a
      <4>1. In(d, Range(mailbox'[r])) = In(d, Range(mailbox[r]))
        BY <2>0, <2>2, <2>4, <3>3 DEF In
      <4>2. r \in accepted'[d] <=> r \in accepted[d]
        BY <2>2, <3>3
      <4> QED
        BY <2>2, <2>6, <3>1, <4>1, <4>2
    <3> QED
      BY <3>2, <3>3
  <2>8. Conservation'
    BY <2>7 DEF Conservation, In
  <2> QED
    BY <1>1, <2>5, <2>8
<1> QED
  BY <1>2, <1>3

LEMMA RequestMessage ==
    ASSUME IndInv, MessageInv, NEW c \in Requests, RequestStep(c)
    PROVE  MessageInv'
<1> USE DEF IndInv, TypeOK
<1>1. ASSUME NEW a \in Requests, Send(c, a) PROVE MessageInv'
  BY <1>1, SendMessage
<1>2. CASE Insert(c) /\ pc[c] \in {"lock", "waitdone"}
  <2>1. rpc[c] = "off"
    BY <1>2 DEF Control, FreshOK
  <2>2. SendOnce'
    BY <1>2 DEF Insert, MessageInv, SendOnce, RequestType
  <2>3. \A r \in Requests : rpc'[r] = rpc[r] \/ (rpc[r] = "off" /\ rpc'[r] = "top")
    BY <1>2, <2>1 DEF Insert, RunType
  <2> QED
    BY <1>2, <2>2, <2>3, MessageFrame DEF Insert
<1>3. ASSUME UNCHANGED <<mailbox, buf, recov, ctx, outcome, accepted, rpc>>, SendOnce'
      PROVE  MessageInv'
  BY <1>3, MessageFrame
<1>4. CASE CheckStopping(c) \/ RLock(c) \/ RUnlock(c) \/ RefCheck(c)
  <2>1. UNCHANGED <<mailbox, buf, recov, ctx, outcome, accepted, rpc, togo>>
    BY <1>4 DEF CheckStopping, RLock, RUnlock, RefCheck
  <2>2. SendOnce'
    BY <1>4, <2>1 DEF CheckStopping, RLock, RUnlock, RefCheck, MessageInv, SendOnce,
       RequestType
  <2> QED
    BY <1>3, <2>1, <2>2
<1>5. CASE (\E id \in Ids : LookUp(c, id)) \/ Hold(c) \/ SpawnReuse(c)
  <2>1. UNCHANGED <<mailbox, buf, recov, ctx, outcome, accepted, rpc>>
    BY <1>5 DEF LookUp, Hold, SpawnReuse
  <2>2. accepted[c] = {}
    BY <1>5 DEF LookUp, Hold, SpawnReuse, MessageInv, SendOnce
  <2>3. \A d \in Requests \ {c} : togo'[d] = togo[d] /\ pc'[d] = pc[d]
    BY <1>5 DEF LookUp, Hold, SpawnReuse, RequestType
  <2>4. SendOnce'
    BY <2>1, <2>2, <2>3 DEF MessageInv, SendOnce
  <2> QED
    BY <1>3, <2>1, <2>4
<1>6. ASSUME NEW a \in Requests, Release(c, a) PROVE MessageInv'
  <2>1. UNCHANGED <<mailbox, buf, recov, ctx, outcome, accepted, rpc, togo>>
    BY <1>6 DEF Release
  <2>2. SendOnce'
    BY <1>6, <2>1 DEF Release, MessageInv, SendOnce, RequestType
  <2> QED
    BY <1>3, <2>1, <2>2
<1>7. CASE SpawnActor(c) /\ ~Insert(c)
  <2>1. UNCHANGED <<mailbox, buf, recov, ctx, outcome, accepted, rpc, togo>>
    BY <1>7 DEF SpawnActor
  <2>2. SendOnce'
    BY <1>7, <2>1 DEF SpawnActor, MessageInv, SendOnce, RequestType
  <2> QED
    BY <1>3, <2>1, <2>2
<1> QED
  BY <1>1, <1>2, <1>4, <1>5, <1>6, <1>7 DEF RequestStep, SpawnActor, SpawnWaited

LEMMA InitMessage == Init => MessageInv
<1> SUFFICES ASSUME Init PROVE MessageInv
  OBVIOUS
<1>1. \A r \in Requests : OnceOK(r) /\ BatchEmpty(r) /\ RecovOK(r)
  BY EmptyFacts DEF Init, OnceOK, BatchEmpty, RecovOK
<1>2. SendOnce
  BY DEF Init, SendOnce
<1>3. \A r \in Requests : Range(mailbox[r]) = {} /\ Leftover(r) = {}
  BY EmptyFacts DEF Init, Leftover
<1>4. \A c, r \in Requests : Len(outcome[c][r]) = 0 /\ accepted[c] = {}
  BY DEF Init
<1>5. ASSUME NEW c \in Requests, NEW r \in Requests
      PROVE  In(c, Range(mailbox[r])) + In(c, Leftover(r)) + Len(outcome[c][r])
                 = IF r \in accepted[c] THEN 1 ELSE 0
  <2>1. In(c, Range(mailbox[r])) = 0 /\ In(c, Leftover(r)) = 0
    BY <1>3 DEF In
  <2> QED
    BY <1>4, <2>1
<1>6. Conservation
  BY <1>5 DEF Conservation, In
<1> QED
  BY <1>1, <1>2, <1>6 DEF MessageInv

LEMMA NextMessage == IndInv /\ MessageInv /\ [Next]_vars => MessageInv'
<1> SUFFICES ASSUME IndInv, MessageInv, [Next]_vars PROVE MessageInv'
  OBVIOUS
<1>1. ASSUME UNCHANGED <<mailbox, buf, recov, ctx, outcome, accepted, rpc, togo, pc>>
      PROVE  MessageInv'
  <2>1. SendOnce'
    BY <1>1 DEF MessageInv, SendOnce
  <2> QED
    BY <1>1, <2>1, MessageFrame
<1>2. CASE UNCHANGED vars
  BY <1>1, <1>2 DEF vars
<1>3. ASSUME NEW k \in Closers, CloserStep(k) PROVE MessageInv'
  <2>1. UNCHANGED <<mailbox, buf, recov, ctx, outcome, accepted, rpc, togo, pc>>
    BY <1>3 DEF CloserStep, CloseFlag, CloseLookUp, CloseCas, CloseUnhold, JoinLookUp, Join
  <2> QED
    BY <1>1, <2>1
<1> QED
  BY <1>2, <1>3, RequestMessage, RunMessage DEF Next, Terminated

(* Every message a mailbox took is in exactly one place - queued, in the   *)
(* batch, or settled with one outcome - whatever panics, quits and closes  *)
(* interrupt the batch (run, invokeBatch, pumpMailbox, send): no message   *)
(* is lost or invoked twice, and a Call is answered at most once.          *)
THEOREM AlwaysConserved == Spec => []Conservation
<1>1. MessageInv => Conservation
  BY DEF MessageInv
<1> QED
  BY <1>1, Invariance, InitMessage, NextMessage, PTL DEF Spec
=============================================================================
