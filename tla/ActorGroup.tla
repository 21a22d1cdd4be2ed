----------------------------- MODULE ActorGroup -----------------------------
(***************************************************************************)
(* One actor group of package actor (actor/group.go, actor/actor.go): the  *)
(* goroutines that send to it, the run loop of every actor, and the        *)
(* goroutines that close actors from outside, interleaved at the steps     *)
(* where the Go code can be interrupted.                                   *)
(*                                                                         *)
(* A REQUEST is one Post, Call, Broadcast/Multicast or use of an ActorRef, *)
(* each run by its own goroutine.  spawnActor allocates an actorRuntime    *)
(* for the goroutine that runs it, so a runtime is named by the request    *)
(* that allocates it: "runtime c" is the one made by request c.            *)
(*                                                                         *)
(* The lock g.mu is not a variable: a goroutine holds it exactly while its *)
(* program counter is inside the locked region (see WLocked, RLocked).     *)
(***************************************************************************)
EXTENDS Integers, Sequences, FiniteSets, Functions

CONSTANTS
    Ids,             (* actor ids of the group                              *)
    Requests,        (* the requests, and the runtimes they may allocate    *)
    Shapes,          (* the request shapes that Init chooses from           *)
    Closers,         (* goroutines that close or join from outside          *)
    Closings,        (* the operations a closer may run                     *)
    BufMails,        (* Options.BufMails: capacity of a mailbox             *)
    MayPanic,        (* can a handler panic?                                *)
    OnSpawnMayFail,  (* can the OnSpawn hook return an error?               *)
    HasPanicHandler, (* is a PanicReq handler registered (RegisterServe)?   *)
    None             (* Go's nil                                            *)

Kinds == {"post", "call", "multi", "ref"}

(* spawn, query: the flags of the handlerEntry the request is routed to.   *)
Shape == [kind : Kinds, ids : SUBSET Ids, spawn : BOOLEAN, query : BOOLEAN]

Closing == [op : {"close", "kill", "group", "join"}, ids : SUBSET Ids]

ASSUME GroupAssumption ==
    /\ None \notin Requests
    /\ Shapes \subseteq Shape
    /\ \A s \in Shapes : s.kind # "multi" => \E id \in Ids : s.ids = {id}
    /\ Closings \subseteq Closing
    /\ BufMails \in Nat
    /\ MayPanic \in BOOLEAN
    /\ OnSpawnMayFail \in BOOLEAN
    /\ HasPanicHandler \in BOOLEAN

VARIABLES
    \* --- the group -------------------------------------------------------
    actors,    (* [Ids -> runtime or None]: the map g.actors                *)
    stopping,  (* g.stopping                                                *)
    idle,      (* g.idle: the counter Count() subtracts                     *)
    \* --- one actorRuntime each -------------------------------------------
    closed,    (* a.closed                                                  *)
    holder,    (* a.holder: the reference count                             *)
    mailbox,   (* a.mailbox: the buffered channel                           *)
    mclosed,   (* has close(a.mailbox) run?                                 *)
    rpc,       (* where the run loop stands                                 *)
    buf,       (* the run loop's buf[x:], the batch still to be invoked     *)
    recov,     (* what stands in place of buf[x] after a panic              *)
    ctx,       (* "nil", or the active flag of the ActorContext             *)
    \* --- one request each ------------------------------------------------
    req,       (* its shape; chosen by Init, never changed                  *)
    pc,        (* where its goroutine stands                                *)
    todo,      (* ids still to be looked up                                 *)
    tgt,       (* the runtime the lookup found                              *)
    held,      (* runtimes whose holder this goroutine has incremented      *)
    togo,      (* runtimes it still sends to                                *)
    err,       (* the error it returns                                      *)
    \* --- one closer each -------------------------------------------------
    cop,       (* its operation; chosen by Init, never changed              *)
    cpc,       (* where its goroutine stands                                *)
    ctodo,     (* runtimes still to be closed, or to be joined              *)
    ctgt,      (* the runtime whose closed flag it has just set             *)
    \* --- the process, and history ----------------------------------------
    crashed,   (* the panic that ended the process, or "no"                 *)
    accepted,  (* history: the runtimes whose mailbox took the request      *)
    outcome    (* history: what became of the message at each runtime       *)

groupVars == <<actors, stopping, idle>>
runVars   == <<rpc, buf, recov, ctx>>
reqVars   == <<pc, todo, tgt, held, togo, err>>
closeVars == <<cpc, ctodo, ctgt>>
inputs    == <<req, cop>>
history   == <<accepted, outcome>>
vars == <<groupVars, closed, holder, mailbox, mclosed, runVars, reqVars,
          closeVars, inputs, crashed, history>>

RunPcs == {"off", "top", "pump", "recv", "loop", "invoke", "quit", "exit",
           "drain", "remove", "dead"}
ReqPcs == {"start", "rlock", "look", "hold", "lock", "reuse", "waitdone",
           "refcheck", "send", "unhold", "done"}
ClosePcs == {"start", "flagged", "cas", "unhold", "rejoin", "join", "done"}
Errs == {"nil", "busy", "notfound", "groupclosed", "actorclosed"}
Outcomes == {"handled", "denied", "spawnfailed", "panicked", "actorclosed"}
Crashes == {"no", "nil runtime", "send on closed mailbox",
            "close of closed mailbox"}

GroupType ==
    /\ actors   \in [Ids -> Requests \cup {None}]
    /\ stopping \in BOOLEAN
    /\ idle     \in Int

RuntimeType ==
    /\ closed   \in [Requests -> BOOLEAN]
    /\ holder   \in [Requests -> Int]
    /\ mailbox  \in [Requests -> Seq(Requests)]
    /\ mclosed  \in [Requests -> BOOLEAN]

RunType ==
    /\ rpc      \in [Requests -> RunPcs]
    /\ buf      \in [Requests -> Seq(Requests)]
    /\ recov    \in [Requests -> {"none", "panicreq", "drop"}]
    /\ ctx      \in [Requests -> {"nil", "idle", "active"}]

RequestType ==
    /\ req      \in [Requests -> Shapes]
    /\ pc       \in [Requests -> ReqPcs]
    /\ todo     \in [Requests -> SUBSET Ids]
    /\ tgt      \in [Requests -> Requests \cup {None}]
    /\ held     \in [Requests -> SUBSET Requests]
    /\ togo     \in [Requests -> SUBSET Requests]
    /\ err      \in [Requests -> Errs]

CloserType ==
    /\ cop      \in [Closers -> Closings]
    /\ cpc      \in [Closers -> ClosePcs]
    /\ ctodo    \in [Closers -> SUBSET Requests]
    /\ ctgt     \in [Closers -> Requests \cup {None}]

HistoryType ==
    /\ crashed  \in Crashes
    /\ accepted \in [Requests -> SUBSET Requests]
    /\ outcome  \in [Requests -> [Requests -> Seq(Outcomes)]]

(* Every variable has its type.                                            *)
TypeOK == /\ GroupType
          /\ RuntimeType
          /\ RunType
          /\ RequestType
          /\ CloserType
          /\ HistoryType

Init ==
    /\ actors   = [id \in Ids |-> None]
    /\ stopping = FALSE
    /\ idle     = 0
    /\ closed   = [r \in Requests |-> FALSE]
    /\ holder   = [r \in Requests |-> 0]
    /\ mailbox  = [r \in Requests |-> << >>]
    /\ mclosed  = [r \in Requests |-> FALSE]
    /\ rpc      = [r \in Requests |-> "off"]
    /\ buf      = [r \in Requests |-> << >>]
    /\ recov    = [r \in Requests |-> "none"]
    /\ ctx      = [r \in Requests |-> "nil"]
    /\ req      \in [Requests -> Shapes]
    /\ pc       = [c \in Requests |-> "start"]
    /\ todo     = [c \in Requests |-> req[c].ids]
    /\ tgt      = [c \in Requests |-> None]
    /\ held     = [c \in Requests |-> {}]
    /\ togo     = [c \in Requests |-> {}]
    /\ err      = [c \in Requests |-> "nil"]
    /\ cop      \in [Closers -> Closings]
    /\ cpc      = [k \in Closers |-> "start"]
    /\ ctodo    = [k \in Closers |-> {}]
    /\ ctgt     = [k \in Closers |-> None]
    /\ crashed  = "no"
    /\ accepted = [c \in Requests |-> {}]
    /\ outcome  = [c \in Requests |-> [r \in Requests |-> << >>]]
-----------------------------------------------------------------------------
(* The id a single-target request addresses, and the id of the runtime it  *)
(* allocates.                                                              *)
Id(c) == CHOOSE id \in Ids : req[c].ids = {id}

(* sync.RWMutex g.mu.  spawnActor keeps Lock while it increments an old    *)
(* runtime or waits for it; the lookups and closeActor/closeGroup keep     *)
(* RLock.  killActor closes after RUnlock.                                 *)
WLocked == \E c \in Requests : pc[c] \in {"reuse", "waitdone"}
RLocked ==
    \/ \E c \in Requests : pc[c] \in {"look", "hold"}
    \/ \E k \in Closers : cpc[k] \in {"cas", "unhold"} /\ cop[k].op # "kill"

(* The channel doneCh of a runtime is closed once its run loop is through, *)
(* before removeActor: deferred calls run in reverse order.                *)
Done_AfterRemove(r) == rpc[r] = "dead"
Done(r) == rpc[r] \in {"remove", "dead"}

(* From spawnActor's insert to close(doneCh): a run loop that serves its   *)
(* actor.                                                                  *)
Live(r) == rpc[r] \notin {"off", "remove", "dead"}

(* actorRuntime.unhold: the last reference closes the mailbox; closing a   *)
(* closed channel panics.                                                  *)
Unhold_KeepsMailbox(a) ==
    /\ holder' = [holder EXCEPT ![a] = @ - 1]
    /\ UNCHANGED <<mclosed, crashed>>
Unhold(a) ==
    /\ holder' = [holder EXCEPT ![a] = @ - 1]
    /\ mclosed' = IF holder[a] = 1 THEN [mclosed EXCEPT ![a] = TRUE] ELSE mclosed
    /\ crashed' = IF mclosed[a] /\ holder[a] = 1
                  THEN "close of closed mailbox" ELSE crashed

(* Messages ms leave runtime r with outcome o (each message appears once). *)
Settle(r, ms, o) ==
    outcome' = [c \in Requests |-> IF c \in ms
                    THEN [outcome[c] EXCEPT ![r] = Append(@, o)]
                    ELSE outcome[c]]
-----------------------------------------------------------------------------
(* Senders: resolveActor, spawnActor, holdActor(s), broadcast, multicast,  *)
(* handlerPost/handlerCall and the ActorRef operations.                    *)

(* isStopping() at the head of resolveActor, broadcast and multicast;      *)
(* ActorContext.Ref goes straight to holdActorForRef.                      *)
CheckStopping(c) ==
    /\ pc[c] = "start"
    /\ IF stopping /\ req[c].kind # "ref"
       THEN /\ pc' = [pc EXCEPT ![c] = "done"]
            /\ err' = [err EXCEPT ![c] = "groupclosed"]
       ELSE /\ pc' = [pc EXCEPT ![c] = "rlock"]
            /\ UNCHANGED err
    /\ UNCHANGED <<groupVars, closed, holder, mailbox, mclosed, runVars, todo,
                   tgt, held, togo, closeVars, inputs, crashed, history>>

RLock(c) ==
    /\ pc[c] = "rlock"
    /\ ~WLocked
    /\ pc' = [pc EXCEPT ![c] = "look"]
    /\ UNCHANGED <<groupVars, closed, holder, mailbox, mclosed, runVars, todo,
                   tgt, held, togo, err, closeVars, inputs, crashed, history>>

(* One iteration of the lookup, under RLock: read the map and a.closed ... *)
Found_IgnoresClosed(id) == actors[id] # None
Found(id) == actors[id] # None /\ ~closed[actors[id]]
LookUp(c, id) ==
    /\ pc[c] = "look"
    /\ id \in todo[c]
    /\ todo' = [todo EXCEPT ![c] = @ \ {id}]
    /\ IF Found(id)
       THEN /\ tgt' = [tgt EXCEPT ![c] = actors[id]]
            /\ pc' = [pc EXCEPT ![c] = "hold"]
       ELSE UNCHANGED <<tgt, pc>>
    /\ UNCHANGED <<groupVars, closed, holder, mailbox, mclosed, runVars, held,
                   togo, err, closeVars, inputs, crashed, history>>

(* ... and then a.hold(), a second atomic operation.                       *)
Hold(c) ==
    /\ pc[c] = "hold"
    /\ holder' = [holder EXCEPT ![tgt[c]] = @ + 1]
    /\ held' = [held EXCEPT ![c] = @ \cup {tgt[c]}]
    /\ togo' = [togo EXCEPT ![c] = @ \cup {tgt[c]}]
    /\ pc' = [pc EXCEPT ![c] = "look"]
    /\ UNCHANGED <<groupVars, closed, mailbox, mclosed, runVars, todo, tgt,
                   err, closeVars, inputs, crashed, history>>

(* The lookup ends and RUnlocks.  With nothing held, a request that may    *)
(* spawn goes on to spawnActor; any other returns (a multicast reports     *)
(* not-found per id, which no state keeps).                                *)
RUnlock(c) ==
    /\ pc[c] = "look"
    /\ todo[c] = {}
    /\ LET k == req[c].kind
           mayspawn == req[c].spawn /\ k \in {"post", "call"}
       IN  /\ pc' = [pc EXCEPT ![c] =
                     CASE held[c] # {} /\ k = "ref" -> "refcheck"
                       [] held[c] # {} /\ k # "ref" -> "send"
                       [] held[c] = {} /\ mayspawn  -> "lock"
                       [] OTHER                     -> "done"]
           /\ err' = [err EXCEPT ![c] = IF held[c] = {} /\ ~mayspawn /\ k # "multi"
                                        THEN "notfound" ELSE @]
    /\ UNCHANGED <<groupVars, closed, holder, mailbox, mclosed, runVars, todo,
                   tgt, held, togo, closeVars, inputs, crashed, history>>

(* actor.holder.Store(2): the group's reference and the caller's.          *)
SpawnHolder_NoCaller == 1
SpawnHolder == 2

(* spawnActor's map insert: runtime c, counted idle; resolveActor starts   *)
(* its run loop.                                                           *)
Insert(c) ==
    /\ actors' = [actors EXCEPT ![Id(c)] = c]
    /\ idle' = idle + 1
    /\ holder' = [holder EXCEPT ![c] = SpawnHolder]
    /\ rpc' = [rpc EXCEPT ![c] = "top"]
    /\ held' = [held EXCEPT ![c] = {c}]
    /\ togo' = [togo EXCEPT ![c] = {c}]
    /\ pc' = [pc EXCEPT ![c] = "send"]
    /\ UNCHANGED <<stopping, closed, mailbox, mclosed, buf, recov, ctx, todo,
                   tgt, err, closeVars, inputs, crashed, history>>

(* spawnActor takes Lock.  A group that is stopping makes it return nil,   *)
(* which handlerPost and handlerCall dereference.                          *)
SpawnActor(c) ==
    /\ pc[c] = "lock"
    /\ ~WLocked
    /\ ~RLocked
    /\ LET old == actors[Id(c)]
       IN  \/ /\ stopping
              /\ crashed' = "nil runtime"
              /\ UNCHANGED <<groupVars, closed, holder, mailbox, mclosed,
                             runVars, reqVars, closeVars, inputs, history>>
           \/ /\ ~stopping
              /\ old = None
              /\ Insert(c)
           \/ /\ ~stopping
              /\ old # None
              /\ tgt' = [tgt EXCEPT ![c] = old]
              /\ pc' = [pc EXCEPT ![c] = IF closed[old] THEN "waitdone" ELSE "reuse"]
              /\ UNCHANGED <<groupVars, closed, holder, mailbox, mclosed, runVars,
                             todo, held, togo, err, closeVars, inputs, crashed,
                             history>>

(* old.hold(); return old, still under Lock.                               *)
SpawnReuse(c) ==
    /\ pc[c] = "reuse"
    /\ holder' = [holder EXCEPT ![tgt[c]] = @ + 1]
    /\ held' = [held EXCEPT ![c] = {tgt[c]}]
    /\ togo' = [togo EXCEPT ![c] = {tgt[c]}]
    /\ pc' = [pc EXCEPT ![c] = "send"]
    /\ UNCHANGED <<groupVars, closed, mailbox, mclosed, runVars, todo, tgt,
                   err, closeVars, inputs, crashed, history>>

(* <-old.doneCh, with Lock still held; then the insert.                    *)
OldIsGone_NoWait(c) == closed[tgt[c]]
OldIsGone(c) == Done(tgt[c])
SpawnWaited(c) ==
    /\ pc[c] = "waitdone"
    /\ OldIsGone(c)
    /\ Insert(c)

(* RefPost, RefCall: refuse a closed target before sending.                *)
RefCheck(c) ==
    /\ pc[c] = "refcheck"
    /\ LET dead == \E a \in held[c] : closed[a]
       IN  /\ pc' = [pc EXCEPT ![c] = IF dead THEN "unhold" ELSE "send"]
           /\ err' = [err EXCEPT ![c] = IF dead THEN "actorclosed" ELSE @]
    /\ UNCHANGED <<groupVars, closed, holder, mailbox, mclosed, runVars, todo,
                   tgt, held, togo, closeVars, inputs, crashed, history>>

(* actorRuntime.send: a non-blocking send.  It panics on a closed channel  *)
(* and drops the message when the mailbox is full.                         *)
Full(a) == Len(mailbox[a]) >= BufMails
Send(c, a) ==
    /\ pc[c] = "send"
    /\ a \in togo[c]
    /\ togo' = [togo EXCEPT ![c] = @ \ {a}]
    /\ pc' = [pc EXCEPT ![c] = IF togo[c] = {a} THEN "unhold" ELSE "send"]
    /\ crashed' = IF mclosed[a] THEN "send on closed mailbox" ELSE crashed
    /\ IF Full(a) \/ mclosed[a]
       THEN /\ err' = [err EXCEPT ![c] = IF req[c].kind = "multi" THEN @ ELSE "busy"]
            /\ UNCHANGED <<mailbox, accepted>>
       ELSE /\ mailbox' = [mailbox EXCEPT ![a] = Append(@, c)]
            /\ accepted' = [accepted EXCEPT ![c] = @ \cup {a}]
            /\ UNCHANGED err
    /\ UNCHANGED <<groupVars, closed, holder, mclosed, runVars, todo, tgt,
                   held, closeVars, inputs, outcome>>

(* The deferred a.unhold(), or ActorRef.Release.                           *)
Release(c, a) ==
    /\ pc[c] = "unhold"
    /\ a \in held[c]
    /\ Unhold(a)
    /\ held' = [held EXCEPT ![c] = @ \ {a}]
    /\ pc' = [pc EXCEPT ![c] = IF held[c] = {a} THEN "done" ELSE "unhold"]
    /\ UNCHANGED <<groupVars, closed, mailbox, runVars, todo, tgt, togo, err,
                   closeVars, inputs, history>>

RequestStep(c) ==
    /\ crashed = "no"
    /\ \/ CheckStopping(c)
       \/ RLock(c)
       \/ \E id \in Ids : LookUp(c, id)
       \/ Hold(c)
       \/ RUnlock(c)
       \/ SpawnActor(c)
       \/ SpawnReuse(c)
       \/ SpawnWaited(c)
       \/ RefCheck(c)
       \/ \E a \in Requests : Send(c, a) \/ Release(c, a)
-----------------------------------------------------------------------------
(* actorRuntime.run and invokeBatch.                                       *)

(* Head of MainLoop: the closed check.                                     *)
Top(r) ==
    /\ rpc[r] = "top"
    /\ rpc' = [rpc EXCEPT ![r] = IF closed[r] THEN "exit" ELSE "pump"]
    /\ UNCHANGED <<groupVars, closed, holder, mailbox, mclosed, buf, recov, ctx,
                   reqVars, closeVars, inputs, crashed, history>>

(* One message moves from the mailbox to buf.                              *)
Take(r) ==
    /\ mailbox[r] # << >>
    /\ buf' = [buf EXCEPT ![r] = Append(@, Head(mailbox[r]))]
    /\ mailbox' = [mailbox EXCEPT ![r] = Tail(@)]

(* pumpMailbox takes messages until the mailbox is empty, open or not.     *)
(* Senders may refill it meanwhile.                                        *)
Pump(r) ==
    /\ rpc[r] = "pump"
    /\ \/ /\ Take(r)
          /\ UNCHANGED rpc
       \/ /\ mailbox[r] = << >>
          /\ rpc' = [rpc EXCEPT ![r] = IF buf[r] = << >> THEN "recv" ELSE "loop"]
          /\ UNCHANGED <<buf, mailbox>>
    /\ UNCHANGED <<groupVars, closed, holder, mclosed, recov, ctx, reqVars,
                   closeVars, inputs, crashed, history>>

(* The blocking receive.  It returns the buffered messages first, and      *)
(* !ok once the mailbox is closed and empty.                               *)
Recv(r) ==
    /\ rpc[r] = "recv"
    /\ \/ /\ Take(r)
          /\ rpc' = [rpc EXCEPT ![r] = "pump"]
       \/ /\ mailbox[r] = << >>
          /\ mclosed[r]
          /\ rpc' = [rpc EXCEPT ![r] = "exit"]
          /\ UNCHANGED <<buf, mailbox>>
    /\ UNCHANGED <<groupVars, closed, holder, mclosed, recov, ctx, reqVars,
                   closeVars, inputs, crashed, history>>

(* for x < len(buf): closed is checked before each call of invokeBatch,    *)
(* which is once per batch and once more after each panic.                 *)
BatchLoop(r) ==
    /\ rpc[r] = "loop"
    /\ rpc' = [rpc EXCEPT ![r] =
               CASE buf[r] = << >> -> IF ctx[r] = "nil" THEN "quit" ELSE "top"
                 [] buf[r] # << >> -> IF closed[r] THEN "exit" ELSE "invoke"]
    /\ UNCHANGED <<groupVars, closed, holder, mailbox, mclosed, buf, recov, ctx,
                   reqVars, closeVars, inputs, crashed, history>>

(* invoke.Allow, with spawning = (nctx == nil).  What replaces a panicked  *)
(* message is allowed: panicDropInvoke always, PanicReq by RegisterServe.  *)
Allow(r) ==
    \/ recov[r] # "none"
    \/ IF ctx[r] = "nil" THEN req[Head(buf[r])].spawn ELSE req[Head(buf[r])].query

(* The message at buf[x], unless a recovery message stands in its place.   *)
Original_Always(r) == {Head(buf[r])}
Original(r) == IF recov[r] = "none" THEN {Head(buf[r])} ELSE {}

InvokeNext(r) ==
    /\ buf' = [buf EXCEPT ![r] = Tail(@)]
    /\ recov' = [recov EXCEPT ![r] = "none"]
    /\ rpc' = [rpc EXCEPT ![r] = IF Len(buf[r]) = 1 THEN "loop" ELSE "invoke"]

Deny(r) ==
    /\ rpc[r] = "invoke"
    /\ ~Allow(r)
    /\ Settle(r, {Head(buf[r])}, "denied")
    /\ InvokeNext(r)
    /\ UNCHANGED <<groupVars, closed, holder, mailbox, mclosed, ctx, reqVars,
                   closeVars, inputs, crashed, accepted>>

(* OnSpawn returns an error: the context is cleared again.                 *)
OnSpawnFails(r) ==
    /\ OnSpawnMayFail
    /\ rpc[r] = "invoke"
    /\ Allow(r)
    /\ ctx[r] = "nil"
    /\ Settle(r, {Head(buf[r])}, "spawnfailed")
    /\ InvokeNext(r)
    /\ UNCHANGED <<groupVars, closed, holder, mailbox, mclosed, ctx, reqVars,
                   closeVars, inputs, crashed, accepted>>

(* actorIdle/actorWake when the active flag has changed from was to now.   *)
SettleIdle_WakeOnly(was, now) == idle' = IF ~was /\ now THEN idle - 1 ELSE idle
SettleIdle(was, now) ==
    idle' = CASE was /\ ~now -> idle + 1
              [] ~was /\ now -> idle - 1
              [] OTHER       -> idle

(* OnSpawn and the handler return; Open and Quit have left the active flag *)
(* at now.  An inactive actor is cleared at once.                          *)
Invoke(r, now) ==
    /\ rpc[r] = "invoke"
    /\ Allow(r)
    /\ recov[r] = "drop" => now = (ctx[r] = "active")
    /\ SettleIdle(ctx[r] = "active", now)
    /\ ctx' = [ctx EXCEPT ![r] = IF now THEN "active" ELSE "nil"]
    /\ Settle(r, Original(r), "handled")
    /\ InvokeNext(r)
    /\ UNCHANGED <<actors, stopping, closed, holder, mailbox, mclosed, reqVars,
                   closeVars, inputs, crashed, accepted>>

(* buf[nx].Fail in the recovery: whose caller learns of the panic.         *)
PanicAnswers_Nobody(r) == {}
PanicAnswers(r) == Original(r)

(* OnSpawn or the handler panics, the active flag at now.  The recovery    *)
(* settles the idle count, fails the message and replaces it in place; the *)
(* context stays even if it is inactive, and run re-enters its loop.       *)
InvokePanics(r, now) ==
    /\ MayPanic
    /\ rpc[r] = "invoke"
    /\ Allow(r)
    /\ recov[r] # "drop"
    /\ SettleIdle(ctx[r] = "active", now)
    /\ ctx' = [ctx EXCEPT ![r] = IF now THEN "active" ELSE "idle"]
    /\ Settle(r, PanicAnswers(r), "panicked")
    /\ recov' = [recov EXCEPT ![r] = IF HasPanicHandler /\ @ = "none"
                                     THEN "panicreq" ELSE "drop"]
    /\ rpc' = [rpc EXCEPT ![r] = "loop"]
    /\ UNCHANGED <<actors, stopping, closed, holder, mailbox, mclosed, buf,
                   reqVars, closeVars, inputs, crashed, accepted>>

(* group.actorQuit, under Lock.  killActor takes no lock, but a kill that  *)
(* falls inside takes the run loop to the same exit.  With at most the     *)
(* group's reference left nobody can send, so its pumpMailbox is one step. *)
InUse_NoHolderCheck(r) == closed[r]
InUse(r) == closed[r] \/ holder[r] > 1
ActorQuit(r) ==
    /\ rpc[r] = "quit"
    /\ ~WLocked
    /\ ~RLocked
    /\ \/ /\ InUse(r)
          /\ rpc' = [rpc EXCEPT ![r] = "top"]
          /\ UNCHANGED <<closed, holder, mailbox, mclosed, crashed, buf>>
       \/ /\ ~InUse(r)
          /\ mailbox[r] # << >>
          /\ buf' = [buf EXCEPT ![r] = mailbox[r]]
          /\ mailbox' = [mailbox EXCEPT ![r] = << >>]
          /\ rpc' = [rpc EXCEPT ![r] = "top"]
          /\ UNCHANGED <<closed, holder, mclosed, crashed>>
       \/ /\ ~InUse(r)
          /\ mailbox[r] = << >>
          /\ closed' = [closed EXCEPT ![r] = TRUE]
          /\ Unhold(r)
          /\ rpc' = [rpc EXCEPT ![r] = "exit"]
          /\ UNCHANGED <<buf, mailbox>>
    /\ UNCHANGED <<groupVars, recov, ctx, reqVars, closeVars, inputs, history>>

(* What is left of the batch when the loop breaks: buf = buf[x:].          *)
Leftover(r) == Range(IF recov[r] = "none" \/ buf[r] = << >>
                     THEN buf[r] ELSE Tail(buf[r]))

(* After MainLoop: a runtime without a context leaves the idle pool, one   *)
(* with a context is cleared; what is left of the batch fails.             *)
Exit(r) ==
    /\ rpc[r] = "exit"
    /\ idle' = IF ctx[r] = "nil" THEN idle - 1 ELSE idle
    /\ ctx' = [ctx EXCEPT ![r] = "nil"]
    /\ Settle(r, Leftover(r), "actorclosed")
    /\ buf' = [buf EXCEPT ![r] = << >>]
    /\ recov' = [recov EXCEPT ![r] = "none"]
    /\ rpc' = [rpc EXCEPT ![r] = "drain"]
    /\ UNCHANGED <<actors, stopping, closed, holder, mailbox, mclosed, reqVars,
                   closeVars, inputs, crashed, accepted>>

(* for m := range a.mailbox fails what still arrives and ends when the     *)
(* mailbox is closed; then close(doneCh).                                  *)
Drain(r) ==
    /\ rpc[r] = "drain"
    /\ \/ /\ mailbox[r] # << >>
          /\ Settle(r, {Head(mailbox[r])}, "actorclosed")
          /\ mailbox' = [mailbox EXCEPT ![r] = Tail(@)]
          /\ UNCHANGED rpc
       \/ /\ mailbox[r] = << >>
          /\ mclosed[r]
          /\ rpc' = [rpc EXCEPT ![r] = "remove"]
          /\ UNCHANGED <<mailbox, outcome>>
    /\ UNCHANGED <<groupVars, closed, holder, mclosed, buf, recov, ctx, reqVars,
                   closeVars, inputs, crashed, accepted>>

(* The deferred removeActor: only its own entry is deleted.                *)
RemoveActor(r) ==
    /\ rpc[r] = "remove"
    /\ ~WLocked
    /\ ~RLocked
    /\ actors' = [id \in Ids |-> IF actors[id] = r THEN None ELSE actors[id]]
    /\ rpc' = [rpc EXCEPT ![r] = "dead"]
    /\ UNCHANGED <<stopping, idle, closed, holder, mailbox, mclosed, buf, recov,
                   ctx, reqVars, closeVars, inputs, crashed, history>>

RunStep(r) ==
    /\ crashed = "no"
    /\ \/ Top(r)
       \/ Pump(r)
       \/ Recv(r)
       \/ BatchLoop(r)
       \/ Deny(r)
       \/ OnSpawnFails(r)
       \/ \E now \in BOOLEAN : Invoke(r, now) \/ InvokePanics(r, now)
       \/ ActorQuit(r)
       \/ Exit(r)
       \/ Drain(r)
       \/ RemoveActor(r)
-----------------------------------------------------------------------------
(* closeActor, killActor, closeGroup, followed by joinActor or joinGroup.  *)

(* The runtimes the map holds for the closer's ids.                        *)
Mapped_WithNil(k) == {actors[id] : id \in cop[k].ids}
Mapped(k) == {actors[id] : id \in cop[k].ids} \ {None}

(* closeGroup's CompareAndSwap on stopping; the others have no such flag.  *)
CloseFlag(k) ==
    /\ cpc[k] = "start"
    /\ IF cop[k].op = "group"
       THEN /\ stopping' = TRUE
            /\ cpc' = [cpc EXCEPT ![k] = IF stopping THEN "rejoin" ELSE "flagged"]
       ELSE /\ cpc' = [cpc EXCEPT ![k] = IF cop[k].op = "join" THEN "rejoin"
                                                                ELSE "flagged"]
            /\ UNCHANGED stopping
    /\ UNCHANGED <<actors, idle, closed, holder, mailbox, mclosed, runVars,
                   reqVars, ctodo, ctgt, inputs, crashed, history>>

(* RLock and read the map.                                                 *)
CloseLookUp(k) ==
    /\ cpc[k] = "flagged"
    /\ ~WLocked
    /\ ctodo' = [ctodo EXCEPT ![k] = Mapped(k)]
    /\ cpc' = [cpc EXCEPT ![k] = IF Mapped(k) = {} THEN "rejoin" ELSE "cas"]
    /\ UNCHANGED <<groupVars, closed, holder, mailbox, mclosed, runVars, reqVars,
                   ctgt, inputs, crashed, history>>

(* requestClose: the CompareAndSwap on closed.  Only the winner goes on to *)
(* give back the group's reference.                                        *)
AfterClosing(k, a) ==
    /\ ctodo' = [ctodo EXCEPT ![k] = @ \ {a}]
    /\ cpc' = [cpc EXCEPT ![k] = IF ctodo[k] = {a} THEN "rejoin" ELSE "cas"]

CloseCas(k, a) ==
    /\ cpc[k] = "cas"
    /\ a \in ctodo[k]
    /\ closed' = [closed EXCEPT ![a] = TRUE]
    /\ IF closed[a]
       THEN /\ AfterClosing(k, a)
            /\ UNCHANGED ctgt
       ELSE /\ ctgt' = [ctgt EXCEPT ![k] = a]
            /\ cpc' = [cpc EXCEPT ![k] = "unhold"]
            /\ UNCHANGED ctodo
    /\ UNCHANGED <<groupVars, holder, mailbox, mclosed, runVars, reqVars, inputs,
                   crashed, history>>

CloseUnhold(k) ==
    /\ cpc[k] = "unhold"
    /\ Unhold(ctgt[k])
    /\ AfterClosing(k, ctgt[k])
    /\ UNCHANGED <<groupVars, closed, mailbox, runVars, reqVars, ctgt, inputs,
                   history>>

(* joinActor, joinGroup: collect the done channels under RLock, then wait  *)
(* for each of them without the lock.                                      *)
JoinLookUp(k) ==
    /\ cpc[k] = "rejoin"
    /\ ~WLocked
    /\ ctodo' = [ctodo EXCEPT ![k] = Mapped(k)]
    /\ cpc' = [cpc EXCEPT ![k] = "join"]
    /\ UNCHANGED <<groupVars, closed, holder, mailbox, mclosed, runVars, reqVars,
                   ctgt, inputs, crashed, history>>

Join(k) ==
    /\ cpc[k] = "join"
    /\ \A a \in ctodo[k] : Done(a)
    /\ cpc' = [cpc EXCEPT ![k] = "done"]
    /\ UNCHANGED <<groupVars, closed, holder, mailbox, mclosed, runVars, reqVars,
                   ctodo, ctgt, inputs, crashed, history>>

CloserStep(k) ==
    /\ crashed = "no"
    /\ \/ CloseFlag(k)
       \/ CloseLookUp(k)
       \/ \E a \in Requests : CloseCas(k, a)
       \/ CloseUnhold(k)
       \/ JoinLookUp(k)
       \/ Join(k)
-----------------------------------------------------------------------------
(* Nothing is left to do: every request has returned, every run loop waits *)
(* for a message or is gone, and only joiners of a living actor wait.      *)
Quiescent ==
    /\ \A c \in Requests : pc[c] = "done"
    /\ \A r \in Requests : \/ rpc[r] \in {"off", "dead"}
                           \/ rpc[r] = "recv" /\ mailbox[r] = << >> /\ ~mclosed[r]
    /\ \A k \in Closers : \/ cpc[k] = "done"
                          \/ cpc[k] = "join" /\ \E a \in ctodo[k] : ~Done(a)

Terminated == (crashed # "no" \/ Quiescent) /\ UNCHANGED vars

Next ==
    \/ \E c \in Requests : RequestStep(c)
    \/ \E r \in Requests : RunStep(r)
    \/ \E k \in Closers : CloserStep(k)
    \/ Terminated

Spec == Init /\ [][Next]_vars

(* The Go scheduler runs every goroutine that can run; nothing is assumed  *)
(* of what a handler does.                                                 *)
FairSpec ==
    /\ Spec
    /\ \A c \in Requests : WF_vars(RequestStep(c))
    /\ \A r \in Requests : WF_vars(RunStep(r))
    /\ \A k \in Closers : WF_vars(CloserStep(k))
-----------------------------------------------------------------------------
(* Single activation (README "One goroutine per Actor, serialized channel  *)
(* processing"): while the run loop of a runtime serves its actor, the map *)
(* leads to that runtime, so no two run loops serve one actor - not even   *)
(* when an actor is respawned while its predecessor is still exiting.      *)
SingleActivation ==
    \A r \in Requests : Live(r) => actors[Id(r)] = r

(* The runtime that serves an id, and the runtimes that have ever served.  *)
Serving == [id \in Ids |-> IF actors[id] # None /\ Live(actors[id])
                           THEN actors[id] ELSE None]
Used == {r \in Requests : rpc[r] # "off"}

(* The group implements the registry of single activations: a respawn      *)
(* (spawnActor) happens only when the predecessor's run loop has returned, *)
(* whoever closed it and whatever the two map updates' order.              *)
Registry == INSTANCE ActorRegistry
            WITH Runtimes <- Requests, serving <- Serving, used <- Used
ImplementsRegistry == Registry!Spec

(* The reference count of group.go and actor.go: one reference of the      *)
(* group's, given back by whoever sets closed, and one per goroutine that  *)
(* holds the runtime; hold and unhold are spread over ten functions.       *)
Holders(r) == {c \in Requests : r \in held[c]}
Owing(r) == {k \in Closers : cpc[k] = "unhold" /\ ctgt[k] = r}
RefCount ==
    \A r \in Requests : rpc[r] # "off" =>
        holder[r] = (IF closed[r] THEN 0 ELSE 1) + Cardinality(Holders(r))
                    + Cardinality(Owing(r))

(* A runtime that some goroutine holds does not retire, as long as nobody  *)
(* closes it from outside (ref.go: an ActorRef "holds the target's         *)
(* reference count and prevents its idle exit"; group.go:299 and 303 argue *)
(* the same for a Post in progress).                                       *)
HeldAlive ==
    Closers = {} =>
        \A c \in Requests : \A a \in held[c] : Live(a) /\ ~closed[a] /\ ~mclosed[a]

(* No goroutine sends on a closed mailbox or closes one twice (actor.go:56 *)
(* "avoid a panic by send writing to a closed channel").                   *)
MailboxSafe ==
    crashed \notin {"send on closed mailbox", "close of closed mailbox"}

(* Message conservation: a message a mailbox took is, at any moment, in    *)
(* exactly one place - queued, in the batch, or settled with exactly one   *)
(* outcome.  So no message is lost or invoked twice by a panic, a quit or  *)
(* a close in the middle of a batch, and a Call is answered at most once.  *)
Conservation ==
    \A c, r \in Requests :
        LET queued == IF c \in Range(mailbox[r]) THEN 1 ELSE 0
            batched == IF c \in Leftover(r) THEN 1 ELSE 0
        IN  queued + batched + Len(outcome[c][r])
                = IF r \in accepted[c] THEN 1 ELSE 0

(* The idle counter counts exactly the inactive runtimes the group still   *)
(* runs, so that Count() (manager.go:287 "the number of active Actors")    *)
(* is exact whenever no runtime is between its last handler and its        *)
(* removal from the map.                                                   *)
CountedIdle(r) == Live(r) /\ rpc[r] # "drain" /\ ctx[r] # "active"
IdleExact == idle = Cardinality({r \in Requests : CountedIdle(r)})

(* Every Post, Call and Broadcast gets through the group's locks and       *)
(* returns (README rule 5: "Post is always safe ... never block the        *)
(* caller"), unless the process dies first.                                *)
RequestsReturn ==
    \A c \in Requests : <>(pc[c] = "done" \/ crashed # "no")

(* Every message a mailbox took is settled: a Call that was accepted is    *)
(* answered, by its handler or with an error.                              *)
MessagesSettle ==
    \A c, r \in Requests :
        r \in accepted[c] ~> (outcome[c][r] # << >> \/ crashed # "no")

(* CloseManager and JoinManager end every run loop of the group, whatever  *)
(* its actors and senders were doing.                                      *)
JoinReturns == \A k \in Closers : <>(cpc[k] = "done" \/ crashed # "no")
=============================================================================
