# Verification of actor-go

TLA+ models of actor-go (a Go framework of virtual actors), the TLC
configurations that check them on small instances, and TLAPS proofs of the
results that matter most for instances of every size. Paths such as
`actor/group.go` are relative to the repository's root, `src/`. `PROJECT.json`
lists the components, the runs with their properties, the mutations each
property is known to catch, the source lines of every definition, the
disagreements found, the hazards and the theorems.

## 1. The system

| Component | State it keeps | Operations | Correct when |
|---|---|---|---|
| Actor group (`actor/group.go`, `handler.go`, `ref.go`, `manager.go`) | `actors` map under `g.mu`, `stopping`, `idle` | `holdActor(s)`, `holdActorForRef`, `spawnActor`, `resolveActor`, `broadcast`, `multicast`, `closeGroup`, `joinGroup`, `closeActor`, `killActor`, `joinActor`, `actorIdle`, `actorWake`, `actorQuit`, `removeActor` | one runtime serves an id at a time; a held runtime is neither retired nor has its mailbox closed; the idle counter is exact; every request returns |
| Actor runtime (`actor/actor.go`, `invoke.go`, `actor_context.go`) | `mailbox`, `holder`, `closed`, `doneCh`, the batch, the context and its active flag | `hold`, `unhold`, `send`, `requestClose`, `kill`, `run`, `invokeBatch`, `pumpMailbox`; in a handler: `Open`, `Quit` | an accepted message is settled exactly once, through panics, denials, failed `OnSpawn`, quits and closes |
| Postponed sends (`actor/actor_control.go`) | `postpone`, `postponeSet`, `postponeTimer` | `APost`, `APostOnce`, `ACall`, `AMulticast`, `AMulticastOnce`, `poseponePost`, `flushPostpone`, the flush timer | nothing is sent twice, order per target, nothing waits for ever |
| Actor timers (`actor/timer.go`, `actor_control.go`, `actor_context.go`) | `timers`, `timerId` | `Timer`, `StopTimer`, `clear`, `timerInvoke` | a stopped timer never runs, one that runs does so once, in the context that set it |
| Reply channel (`actor/manager.go`, `invoke.go`) | one channel per `Call` | `FCall`, `SafeFCall`, `waitResult`, `safeResult`, `Allow`, `Invoke`, `Fail` | one answer; a reply the caller cannot get is closed once |
| Grain lifecycle (`grain/lifecycle.go`, `grain_lifecycle.go`, `manager.go`, `snapshot.go`) | `Data`, lease, auto-persist timer | `Activate`, `Persist`, `Deactivate`, the `OnSpawn` and `OnQuit` hooks, `ForceRelease` | a confirmed update survives; a replaced activation cannot write |
| Drivers (`grain/driver_{mongo,redis,json,yaml}.go`) | the stored document: owner, generation, expiry, snapshot | `Load`, `Save`, `Release`, `ForceRelease` | the lease protocol of `Driver`'s comment |
| Shared store (`shared/`) | per key: value, version, subscribers, pending refresh; per reader: cache and bindings | `Publish`, `Subscribe`, `Fetch`, `Unpublish`, `Watch`, `Invalidate`, refresh and sweep timers | a reader's snapshot never goes back; readers stay subscribed and converge to the latest value |
| RPC (`rpc/`) | `pending` calls by sequence number, connection | `Post`, `Call`, `Broadcast`, `Multicast`, `Close`, `readResponses`, `handleRPC` | a call gets its own answer or an error |
| Placement (`cluster/placement.go`, `node.go`) | none | `Place`, `placeOnRing`, `FilterByGroup` | a change of members moves few actors |
| Cluster router (`cluster/cluster.go`) | client pool | `Call`, `Post`, `Broadcast`, `Multicast`, lease-driven forwarding, `getOrDial`, `RemoveClient`, `Close` | a call is executed once at most; no connection is forgotten |
| Migration (`cluster/migration.go`, `membership.go`) | members, queued member events | `Run`, `handleEvent`, `CheckOwnership` | a grain leaves a node it no longer belongs to |
| Logger, example programs, test helpers | none that others read | | not modelled |

How they interact. A request (`Post`, `Call`, `Broadcast`, `Multicast`, or one
through an `ActorRef`) runs in the caller's goroutine: it looks the actor up in
its group, spawns it if its handler says so, holds it, and puts a message into
its mailbox. Each runtime has one goroutine, `run`, that takes batches out of
the mailbox and invokes them on the actor's context. Closers (`CloseActor`,
`KillActor`, `CloseManager`, the `Join` functions) run in goroutines of their own. The
three meet in `g.mu`, the reference count `holder`, the flag `closed`, the
channels `mailbox` and `doneCh`, and the atomic counter `idle`. Handlers send
through `ActorControl`, whose retry queue depends on the actor's own timers,
which come back as messages in its own mailbox. A grain is an actor whose hooks
load, persist and release a document in a store that other nodes use as well.
The shared store, its readers and the cluster router are built from actors,
timers and RPC.

What is hard: two atomics that are read and written one after the other
(`closed` and `holder`); a wait for `doneCh` under a lock that the waited-for
goroutine may need; respawning an id while its predecessor is still exiting;
panics in the middle of a batch; mailboxes at their limit, also for the
framework's own timer messages; expiring leases, crashes and requests that
arrive after their sender's death; one retry loop that meets a changing set of
busy targets; a reply channel that one side closes while the other answers;
timers whose message outlives them; pushes, replies and retries that reach a
reader in any order; requests, view changes and lost connections between the
steps of a router that tries again.

## 2. Modules

| Module | Models |
|---|---|
| `ActorRegistry` | abstract specification of a group: an id is served by at most one runtime, a runtime serves once |
| `ActorGroup` | group and runtimes: requests, run loops and closers interleaved |
| `ActorGroupProofs` | inductive invariant, type correctness, single activation, refinement of `ActorRegistry` |
| `ActorGroupSafetyProofs` | extends it: exact reference counts, held actors stay open, safe mailboxes, exact idle count, message conservation |
| `GrainLease` | one grain document, several nodes, MongoDB, Redis or file driver |
| `GrainLeaseProofs` | durability and unique generations for the MongoDB driver, fencing for MongoDB and Redis; types; a release comes after a save |
| `Postpone` | one actor's postponed sends and flush timer |
| `PostponeProofs` | types, no message in two places, the set of postponed ids is exact |
| `RpcClient` | one RPC client, its connection and the server's loop at the other end |
| `RpcClientProofs` | the client's inductive invariant: types, own answers, one send per channel, no leak |
| `Invocation` | one actor's mailbox: reply channels of calls and SafeCalls, timers |
| `InvocationProofs` | types; a reply has one owner, no caller is forgotten; timers run in their own context and keep their ids |
| `SharedStore` | one key of the shared store and its readers |
| `SharedStoreProofs` | types, who has a snapshot stays subscribed, snapshots never go back |
| `Placement` | consistent hashing as an operator on sets of members |
| `Cluster` | one grain on several nodes: views, migration, routers, client pools; extends `Placement` |
| `ClusterProofs` | consistent hashing moves an actor only from a node that left or to one that joined; types, calls executed at most once, every connection pooled |
| `MCActorGroup`, `MCGrainLease`, `MCPostpone`, `MCRpcClient`, `MCInvocation`, `MCSharedStore`, `MCCluster` | instances for TLC |

### ActorGroup

A request is a constant name with a *shape* chosen by `Init`: kind (post, call,
ref, broadcast, multicast), its ids, and the flags its registration fixes (may
it spawn, is it a query). The runtime that a request would spawn carries the
request's name, so that `Requests` is also the set of runtimes; a request spawns at most once.

* `g.mu` is not a variable: who holds it follows from the program counters
  (`WLocked`, `RLocked`). `spawnActor` keeps the write lock while it reuses or waits for an old
  runtime; a lookup keeps the read lock from the map access to the hold.
* One step is one access to shared state. `closed` is read in one step and
  `holder` incremented in the next (`Found`, `Hold`), because `requestClose` can run between
  them; `requestClose`'s CompareAndSwap and its `unhold` are two steps as well (`CloseCas`,
  `CloseUnhold`).
* `pumpMailbox` takes one message per step, since senders refill the mailbox
  meanwhile; the emptiness check in `actorQuit` runs under `g.mu` and after the
  holder check, and is one step.
* A handler is one step of its actor. What it leaves behind is nondeterministic:
  active or not (`Open`, `Quit`), a panic, a failing `OnSpawn`.
* A send on a closed channel, a second close and a nil dereference end the
  process: they set `crashed`. `Terminated` lets a crashed or finished system stutter; any
  other stop is a deadlock for TLC.

### GrainLease

One document and one grain per node. `Init` chooses a *deployment*: the
driver, the nodes that use it, whether I/O may fail, and the period of the
auto-persist timer; it never changes. Each driver operation is one atomic step,
as the code makes it (a pipeline update with `findAndModify`, a Lua script);
only the file drivers' `Save` can be cut in two by a crash (`CrashInSave`). An operation can be
answered, can take effect with its answer lost, or can fail (`Outcomes`). A `Save` whose
sender dies may still arrive later (`late`). One that failed at a living client is done by then or
never: that the store executes it after the next `Save` of the same activation is left out. It
would match, since the generation is that of the activation, and undo the newer one; `Durable`
assumes that this does not happen. Time is counted in ticks that decrement `ttl`
and the auto-persist timer. The data of a grain is the set of updates its handlers have
made, which is what `Durable` tells apart. JSON and YAML drivers differ only in
their encoding and stand together as `"file"`. In MongoDB's `Load` the pipeline's `$cond` expressions
are modelled by what they evaluate to, `_id` equality included.

### Postpone

One sending actor, whose handlers and timer callbacks run one at a time, and
targets that take messages at any moment, also between two items of one retry
loop (`RetryOne`). The flush timer fires into the sender's own mailbox, of which
only the number of messages matters; a stopped timer's message still takes its
place there. `AMulticast` handles its targets one by one in any order. The call
of `ACall` waits inside the handler, and its reply comes when the target has taken
the message.

### RpcClient

One connected client. `Call` is a goroutine with a program counter: take a
number, register, write, select, delete (the deferred one). What the code does
under `pendingMu` is one step. The winner of `Close`'s CompareAndSwap, a user or the
reader, goes through `flagged`, `signalled` (`done` is closed), `swept` and
`end`; calls can run between any two of these, in particular register after the sweep. The reader takes a
channel out of `pendingCalls` in one step and sends on it in another, as in the
code, where the send is outside of the lock. A send on a full channel is a disabled step. The
server's loop answers one request after the other; the connection keeps the
order, and may break at any moment with requests and responses on it, after which a write
may or may not notice.

### Invocation

One actor whose messages are handled one per step; `ActorGroup` has the
batches. A caller sends, then receives or times out; a `SafeCall`'s timeout
closes and empties the channel (`safeResult`). `Answer` is every path that
sends a result: the handler's, the refusal by `Allow`, `Fail` after a panic and in the
drain. On a closed channel a reply is closed by `Invoke`'s recovery and an error
ends the process (`crashed`). Contexts are numbered; each has a timer map and ids of its own, whose
width is `MaxInt`, so that the search for a free id wraps round. A timer goes
off and sends its message in two steps, so that `StopTimer`, the end of its context, or a full
mailbox can come between. A closed actor may go on with the messages its batch already
has before it exits.

### SharedStore

The store of a key is one actor, so each handler and each timer callback is one
step. `Unpublish` drops an entry that the callback of its refresh timer still
knows: entries are numbered and `cur` is the one in the map. A value is named by its
entry and its version. A reader that waits inside `Watch` takes no pushes; its request
outlives its timeout (`stray`). Pushes go through `AMulticast`: to a busy reader they
are postponed (`late`), and a retry may send any of them first, as `Postpone` shows. Each `AMulticast`
begins with a retry (`Retried`); otherwise the flush timer retries (`flush`), whose message is lost when the
store's own mailbox is full (`FlushTimerLost`). That mailbox is not a variable: a timer's message
may be lost at any time. A reader without a context keeps its mailbox: it refuses the pushes in it, unless a request
before them makes a new context. Time is
left to `CooldownEnds` and `Expire`. Readers never interact, so that one of them suffices.

### Placement and Cluster

A ring gives every node's points, the actor's hash and the nodes that may host its
type; the hash function is a parameter, without collisions between points. `Place` is
defined as the code computes it, on sets instead of sorted slices.

In `Cluster` each node has its own view of the membership; a view changes together with an
event for the node's coordinator (`dynamicMembership` of the cluster example). The lease is
its owner only: `GrainLease` has the rest. A request is a goroutine that places,
dials, puts the client into the pool, sends, waits and, for a call, forwards and
releases by force; `attempt` counts `callOnce`, `tryForwardCall`, `callOnce`. The pool's lock is held in
`UsePooled` and in `PutPool`, not while the connection is made. A client is open or closed; `RpcClient` has
the rest. The server executes requests in any order, more than its loops would. The application's
handler of `CheckOwnership` deactivates the grain when it belongs elsewhere, or declines, as
`migration.go:17` and the `canDeactivate` of its usage (line 31) let it; the example program's handler only logs. A post stands for
one id of a `Multicast` as well: that the ids of one node share a message, and that a local error ends the
`Multicast`, are left out. Only local errors are `ErrLeaseTaken`: over RPC an error is text.

## 3. Runs

### What passes

| Run | Shows |
|---|---|
| `group_core` | two actors, three requests of every shape but `ref`, no closers, mailbox of 2: `HeldAlive`, `MailboxSafe`, `Conservation`, `IdleExact` |
| `group_close` | one actor, two requests, one closer of every kind, mailbox of 1: `TypeOK`, `SingleActivation`, `RefCount`, and the refinement `ImplementsRegistry` |
| `group_live` | two requests and `CloseManager` followed by `JoinManager` at any moment, fairness: `RequestsReturn`, `MessagesSettle`, `JoinReturns` |
| `lease` | two nodes on MongoDB or Redis with failing I/O, crashes, expiry, lost answers, late saves and forced releases, one node on MongoDB or files without failing I/O: `TypeOK`; `NoStaleWriter` (MongoDB, Redis); `Durable` and `GenerationUnique` (MongoDB); `ExitSaves` (an orderly exit stores everything before it gives the lease back); `OrphanFreed` (a lease whose holder is gone can be taken again) |
| `postpone` | `TypeOK`, `NoDuplicate`, `SetExact`, and `PostponeEnds` while the sender's own mailbox has room |
| `rpc` | timeouts, garbled messages, a breaking connection and `Close` at any moment: `TypeOK`, `OwnAnswer`, `SendsOnce`, `NoLeak`, and `CallsReturn` (after a close or a lost connection) |
| `invoke` | `TypeOK`; `ReplyOnce` (a SafeCall's reply goes to its caller or is closed, once); `NeverForgotten` (nobody waits for an answer that cannot come); `TimerKept` (no other timer takes its id); `RunsInOwnContext` |
| `shared` | `TypeOK`; `StaysSubscribed` (who has a snapshot will be told of the next version); `NeverBack`; `Converges` (a reader of the current entry reaches the latest version, unless the message of the refresh timer or of the flush timer was lost or a retry changed the order of its pushes) |
| `cluster` | three nodes, two requests: `TypeOK`; `AtMostOnce`; `NoOrphanClient` (every open connection can still be closed); `MinimalMovement`; `Migrates` (of a grain whose mailbox has room and whose handler does not decline) |

Bounds. Three requests on two ids are enough for a spawner, a sender that finds
the runtime and a third that overtakes either; with a closer, two requests are
enough for an old runtime and its successor. A mailbox of one or two messages
is both full and refilled while a batch is taken. `MaxGeneration` 3 admits a
first lease, a takeover and a takeover back; one update is enough, because a late save from before the update carries the empty set and would
be seen to undo it; a lease of two ticks with the auto-persist timer at one lets the timer
fire before and after expiry. Three issues to targets with a mailbox of one make a
queue with two items for one target. Two calls are enough for a response that
reaches the wrong call, and for one that registers after the sweep while another is
being answered; `MaxSeq` is the number of calls, so that it stops nobody.
In `invoke`, three timers and ids up to 3 let the ids wrap while an old timer still runs,
and two contexts use the same id; three messages meet a mailbox of two.
In `shared`, two entries and three versions give a reader a cached, a queued and a
postponed version at once, and a second life of the key. In `cluster`, two
connections and two events are enough for a double dial with a lost connection or a close in between, and for a
view that changes twice, or once together with a lease that runs out; the
rings have the key above all points (wrapping) and a type that one node hosts; both
configurations with retries are run, the one without does nothing more. Bounds and constants are named in each
module's `CONSTANTS`; `Issues`, `MaxGeneration` and `MaxSeq` occur in guards only to keep
the instance finite. `Permutations` is used in `group_core`, `group_close` and `invoke` only, where no
liveness is checked.

Deadlock is checked except in `group_close` (the deadlock that `bug_lockwait` shows
is real, see below), `postpone`, `invoke` and `cluster` (the numbers of issues, calls and
requests are bounded, so that the system may come to rest).

Fairness. Weak fairness of each goroutine's steps: the Go scheduler runs every
runnable goroutine, and `sync.RWMutex` does not starve. In `GrainLease`, time
passes. In `Postpone`, the sender's run loop, its timer and the targets' run
loops continue. In `SharedStore`, actors handle what is in their mailboxes, timers go off and
cooldowns end; a retry is fair only as the flush timer's work (`FlushTimer`), which ends with a lost message, and never on account
of a send that nobody has to make; a push in a reader's mailbox is under strong fairness, because the mailbox is a
queue: each `Watch` before it that blocks the reader ends at its timeout and the next message has
its turn. In `Cluster`, the coordinator's goroutine and the grain's actor run; requests owe nothing. In `RpcClient`, the client's own goroutines continue; the network, the server and
the calls' contexts owe nothing, so that `CallsReturn` rests neither on a timeout nor on an
answer. Nothing is assumed about users: nobody has to send, close or
activate anything, and handlers may do anything but not return.

### Where code and documentation disagree

Each is a run that TLC refutes; the quoted line is in `PROJECT.json`.

| Run | What happens |
|---|---|
| `bug_mailbox` | `holdActor` and `spawnActor` read `closed` and then hold; a close in between drops the last reference, the mailbox is closed, and the sender panics |
| `bug_lockwait` | `spawnActor` waits for the old run loop's `doneCh` under `g.mu`; the old run loop is at `actorQuit` and waits for `g.mu` |
| `bug_safecall` | a SafeCall's context ends and `safeResult` closes the channel; the handler's error, a refusal or the drain then sends on it, and `invokeBatch`'s recovery sends once more by `Fail`: the process dies |

Further behaviours that the models contain as the code has them, without a run of their
own:

* `closeGroup` between the two checks of `stopping` makes `resolveActor` return a nil
  runtime without an error (`crashed` in `ActorGroup`).
* An actor closed between a panic that left it inactive and its recovery
  stays in the idle counter; this is why `IdleExact` is checked without closers.
* After `Quit` the rest of the batch is invoked on a new context instead of failing.
* Messages accepted before `CloseActor` are failed, Posts silently.
* An idle actor that could not retire because it was held is not woken by the `unhold`.
* The first activation of a grain in Redis reads a missing array element; the
  key exists afterwards.
* The file drivers do not check the generation, and a crash in `Save` leaves a file that
  can never be loaded again.
* In Redis a node that loads its own grain again keeps the generation, so that its earlier
  late save still matches and overwrites what was saved since; `ExitSaves` leaves Redis out.
* In Redis `Load` sets the life of the whole key to the lease timeout (`driver_redis.go:84`, `:94`) and only the
  next `Save` raises it to `dataTTL`, although `driver_redis.go:45` calls that the life of the data: a
  grain that is activated and crashes loses its data with its lease. `Durable` is therefore
  stated for MongoDB only.
* The auto-persist timer fires once.
* A flush timer that goes off while the sender's own mailbox is full loses its
  message (`actor_context.go:54` only logs), `postponeTimer` stays set and `armPostponeFlush` returns
  at once from then on: an actor that sends nothing more never retries, although
  `actor_control.go:27` says it does. In `postpone` the mailbox has room for it.
* The store's refresh timer can be lost the same way; `pending` stays set and later
  publications are not pushed. So can the store's flush timer: a postponed push then waits for the
  store's next `AMulticast`, and the reader stays behind if there is none, although `reader.go:78` says that
  a push is not lost for ever on account of one full mailbox. `Converges` exempts both cases.
* The package comment `store.go:13` says that a push to a reader with a full mailbox is lost and made up for by the
  next push, the TTL or a new subscription. The code postpones it and tries again, as `store.go:257` and
  `reader.go:76-78` say; the model follows the code.
* `types.go:49` and `manager.go:217-219` say that a panicking handler's `SafeReply` is closed by the
  recovery. The panic leaves `Invoke` before there is a reply, the recovery in `Invoke` is only set up after the
  handler has returned, and the one in `invokeBatch` closes nothing: what the handler has opened by then is its own affair.
  `ReplyOnce` speaks of replies that handlers return.
* `driver_mongo.go:108-110` says that a node that loads its own grain again keeps the generation. In the
  pipeline `bson.M{"owner": ""}` is a literal document, not a comparison, and true, so that the generation is raised by every
  `Load`. `Durable` rests on it: with the generation kept, a late save from before a crash would match again, as in Redis.
* `Unpublish` followed by `Publish` starts at version 1 with no readers. A reader of the old
  entry without a TTL keeps its value for ever ("always converges to the latest",
  `README.md:966`); with one, `set` drops the new value as long as its version is not higher than
  the old one's; and a push of the old entry that is still queued can overwrite
  the new value. `NeverBack` and `Converges` speak of one entry.
* A postponed push that was overtaken by a newer one is dropped, and after `Invalidate` or a
  new life of the reader it can be the only one left: `Converges` exempts
  a reader for which a retry changed the order (`jumped`).
* A `Watch` after the TTL that gets the version it has does not renew it: every further `Watch` asks the
  store again.
* The sweep never removes a key that was ever watched (the empty set stays under its
  binding), and it never starts if a subscription spawned the store.
* `callOnce` and `postOnce` leave a client with a lost connection in the pool: every later request
  to that node fails until `Close`; only `tryForwardCall` removes it.
* `handleLeasePost` never retries: `Post` returns before the grain meets the lease.
* A node executes what reaches it without asking for its own preference, so that a request
  under way during a view change activates the grain on a node that has already
  handled the event; nothing tells it to leave. `Migrates` starts from a grain that is active when
  the event is handled, and exempts one whose mailbox refused `CheckOwnership`.
* With a `ForceReleaser`, a forwarded call whose answer is lost is executed a second time.
* The search for a timer id that ends at the largest int makes the next one overflow
  (`actor_control.go:151`), which the comment above it excludes; ids stay unique all the same.
* One retry can send a later message to an actor for which it has just kept
  an earlier one.

## 4. Proofs

All are checked by TLAPS for any value of the constants that satisfies the
modules' named assumptions.

**ActorGroup** (`GroupAssumption`: what a shape and a closing look like). `SingleActivation` is not
inductive: it speaks of the map, and a step that inserts into the map
is safe only because of what the spawner knows. `IndInv` adds to `TypeOK`:

* `SpawnerOK`, `FreshOK`: only a single-target request spawns, and only before
  it has resolved its actor, so that the inserted runtime is new;
* `WriterOK`, `WaitOK`: the lock admits one writer and preserves the map entry
  while a spawner waits for its old runtime; so the entry that the spawner overwrites is the one
  whose end it has seen;
* `MapOK`: the map leads to a runtime that was spawned for this id, so that the runtime a
  spawner finds gone is the only one that could have served the id;
* `TargetOK`, `BatchOK`: a goroutine has found what it is about to use.

`Invariance` proves `Spec => []IndInv` with one lemma per group of actions for
the types and one for the control part. `TypeCorrect` and
`AlwaysSingleActivation` follow. `GroupImplementsRegistry` proves the step
simulation: an insertion is `Activate`, the end of a run loop is `Retire`,
everything else a stutter. These hold in spite of the closers, the crashes and
the deadlock above: no disagreement found breaks single activation.

`ActorGroupSafetyProofs` builds on `IndInv`, with four more invariants:

* `RefInv`, for any closers: the holders of a runtime and the closers that owe it an `unhold` are finite sets
  (`FiniteRefs`; the requests need not be), nobody knows of a runtime before it is spawned (`FreshRefs`), a request has
  nothing when it comes to `spawnActor` (`NoneHeld`), and a lookup visits an id once, so that it never
  takes a second reference to one runtime (`LookOK`). Each action then adds one element to a set or removes one, and
  `AlwaysRefCount` follows.
* `OpenInv`, with the hypothesis `Closers = {}`: `closed` is set exactly when the run loop has quit (`ClosedOK`), the runtime
  found is open until the `hold` because `actorQuit` needs the lock (`TargetOpen`), and what a request holds
  is open (`HeldOpen`), because `actorQuit` refuses while `holder > 1` and `RefCount` makes that test exact.
  `AlwaysHeldAlive` (whose property has this hypothesis itself) and `AlwaysMailboxSafe` follow. The hypothesis is needed: `bug_mailbox` shows what
  a closer does.
* `IdleInv`, with the same hypothesis: a run loop quits without a context (`NoContext`), so that its exit takes
  from the counter what `spawnActor` or the last clearing of the context added. `AlwaysIdleExact` follows. The hypothesis is needed here too: see
  the closed actor that stays in the counter, in section 3.
* `MessageInv`, for any closers: queue and batch have no repetitions (`OnceOK`), the batch is empty
  where `run` takes it to be (`BatchEmpty`), a recovery message stands in the batch only between a panic and the
  next invocation and only with a context (`RecovOK`: this is why a failing `OnSpawn` does not settle a panicked message again), and
  a request sends once to each runtime (`SendOnce`). `AlwaysConserved` follows.

TLC checks `RefInv` and `MessageInv` on the instance of `group_close`, and all four on that of `group_core`.

**GrainLease** (`LeaseAssumption`; the driver is a variable that no step changes). `LeaseInv`, which `MongoInv`
claims of MongoDB, adds to `Durable`: the store's owner is the last node a lease was granted to
(`OwnerGranted`), generations outside the store are not ahead of it
(`GenerationsBehind`), and every writer whose generation still matches - a running one
(`WriterKnowsAll`) or a late Save (`LateKnowsAll`) - has all confirmed updates in its data. The
latter two are what makes overwriting a snapshot harmless. `AlwaysDurable` and `AlwaysUnique`
follow. In Redis generations begin again with each key, so `LeaseInv` fails there, but
fencing needs less: `FenceInv` keeps only `OwnerGranted`, and `AlwaysFenced` holds of both.
`AlwaysTyped` holds of every driver. `AlwaysExitSaves` needs `ExitInv`: a grain that is about to
release, and whose release the store would accept, has its whole data in the store. That is inductive
with `LeaseInv` for MongoDB, where a Save that outlived its sender cannot match. For the
files it rests on the hypothesis `FilesAlone`, that a file deployment has one node: a file is local
("no distributed contention", driver_json.go:74), and two processes on one file are outside of what the driver promises.

**Placement, Cluster** (`PlacementAssumption`, `ClusterAssumption`: rings are free of collisions; that a set of
points has a first one is the lemma `LeastNumber`). `OnRing`'s choice is the first of a set of points, and what is first in a
set is first in every subset that has it; `PlaceMovesLittle` compares the members before and
after, with and without a point at or after the key on either side. `AlwaysMinimal` applies it to
every step of `Cluster`.

For the router, `ClusterInv` adds to the types and to `NoOrphanClient`: how often each attempt of a request may
have been executed by now, wherever its message is (`Tries`: an attempt goes on to the next only
if it was refused, or if the lease may be released by force), that a request past its placement has a
target (`Routed`), and that the client a request is about to put into the pool is the one it made for that target
(`Dialed`). `AlwaysAtMostOnce`, `AlwaysPooled` and `AlwaysTyped` follow.

**RpcClient** (`RpcAssumption`). `OwnAnswer` speaks of returned results only; `RpcInv` follows a
response back to its request: a number belongs to one call (`SeqOK`), a call is registered under its own number and only
while it is in progress (`PendingOK`), what is on the wire carries the number of the call it is for
(`WireOK`), and so the reader's hand and the channels hold what was meant for their call
(`HandOK`, `ChanOK`). `SendsOnce` is inductive with these and `FreshOK` (nothing has been sent to a call
that has yet to register): whoever takes a call out of `pendingCalls` is the only one to send.
`AlwaysOwnAnswer`, `AlwaysSendsOnce`, `AlwaysNoLeak` and `AlwaysTyped` follow.

**SharedStore** (`SharedAssumption`). `StaysSubscribed` is proved place by place: `StoreInv` says of the cache, of a reply on its
way, of each push in a mailbox and of each postponed push that its reader is on the entry's list (`Told`), that a
reader that is gone has no cache, no reply and no mail (`DownIsEmpty`), and that a refresh timer belongs to a published entry
(`TimerPublished`). `AlwaysTyped` and `AlwaysSubscribed` follow; `AlwaysForward` (`NeverBack`) is an action property,
proved from the same invariant with one step per action that writes a cache.

**Postpone** (`PostponeAssumption`). A message's `Places` are counted over the queue, the two lists of a
retry, the mailboxes and what was taken. `PostponeInv` says that no message has two (`NoDuplicate`), that one not
issued yet, or not sent yet to that target, has none (`Unissued`, `Unsent`), and that between two retries the lists are
empty and the set is that of the queue (`Settled`). Each step but a new send only moves messages, and the lemmas
on `Count` (append, tail, concatenation) show that a move keeps the sum.

**Invocation** (`InvocationAssumption`). Replies and timers do not meet, so there are two invariants.
`ReplyInv` follows a request: it is in the mailbox once, and unanswered until it leaves it (`Sent`); the reply of
a SafeCall is in the channel while the caller waits and has exactly one owner afterwards (`Owner`); who waits has its
answer or its request under way (`Expected`). `AlwaysReplyOnce` and `AlwaysNeverForgotten` follow. In `TimerInv` the map of the
current context has each timer under the id it was given, only timers of this context, and none that was stopped
(`Tracks`): `AlwaysRunsInOwnContext` and, with `ReplyInv`, `AlwaysTyped` follow. `AlwaysTimerKept` needs that the
search finds a free id. It has the hypothesis `IdsSuffice`, that the timers are not more than the positive ints:
by the pigeonhole principle on `Tracks` one of them is then free, and `FirstFreeIs` shows that the search, which wraps round at
`MaxInt` and may begin at the smallest int, comes to it. So the last resort of `Timer`, which would overwrite a
timer, is never reached, as its comment claims ("impossible in theory").

**Only model-checked**: liveness (fairness is out of the prover's reach). Every invariant and
every action property of the passing runs is stated by a theorem.

## 5. Not modelled

The logger, the example programs (but for the membership of the cluster example), the
documentation tool and `internal/` (test
helpers) keep no state that other components read. Error texts, trace ids,
codecs, the type plumbing of registration and the `reflect`-based handler table are left
out. Context cancellation and the text of panics do not influence the modelled
state. Handlers that block for ever are outside the models. Of RPC, the server's
start and shutdown are left out: a server that goes away is a lost connection. Collisions
of ring points, where the order of an unstable sort decides, are excluded by assumption. `Fetch`, `Peek` and
`VersionOf` only read.

## 6. Plan

In order; what is done is described above.

1. Done: the models of all components above, and the proofs of section 4.
2. Open: what remains true of references and mailboxes when closers are there (which part of `OpenInv` survives
   a close that loses no race), and the lemmas that the proofs of `ActorGroup` and `Postpone` share on sequences
   without repetition.
