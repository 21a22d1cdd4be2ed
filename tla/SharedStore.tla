---------------------------- MODULE SharedStore ----------------------------
(***************************************************************************)
(* One key of the shared store (package shared): its owner publishes and   *)
(* unpublishes it, reader actors watch it through a local cache, and the   *)
(* store pushes new versions to the readers that subscribed.               *)
(*                                                                         *)
(* The store is one actor, so each of its handlers and timer callbacks is  *)
(* one step.  A reader waits inside Watch, where it takes no pushes.  The  *)
(* entry of a deleted key lives on in the callback of its refresh timer,   *)
(* so entries are numbered and cur says which one is in the map.  A value  *)
(* is named by its entry and its version: entries and versions only grow,  *)
(* so that the order of publication is the order of these pairs.           *)
(***************************************************************************)
EXTENDS Integers, Sequences, FiniteSets

CONSTANTS
    Readers,      (* the reader actors                                      *)
    None,         (* nothing                                                *)
    MaxEntries,   (* bound: how many entries are made for the key           *)
    MaxVersion,   (* bound: publications per entry                          *)
    Mails,        (* BufMails of a reader                                   *)
    HasTTL        (* was the key defined WithTTL?                           *)

ASSUME SharedAssumption ==
    /\ MaxEntries \in Nat /\ MaxVersion \in Nat
    /\ Mails \in Nat \ {0}
    /\ HasTTL \in BOOLEAN

VARIABLES
    open,       (* has the store's actor been spawned?                      *)
    sweeping,   (* was the sweep timer started?                             *)
    entry,      (* every entry ever made for the key                        *)
    made,       (* how many there are                                       *)
    cur,        (* the one in storeState.entries, or 0                      *)
    life,       (* a reader: "up", "idle" (mapped, no context) or "gone"    *)
    pc,         (* "run", or where its Watch is: "asked", "answered"        *)
    reply,      (* the snapshot in the reply channel, None for an error     *)
    stray,      (* is a subscription of a Watch that timed out on its way?  *)
    cache,      (* the reader's cacheEntry if it is loaded                  *)
    fresh,      (* is it younger than its TTL?                              *)
    mail,       (* pushes in the reader's mailbox                           *)
    late,       (* pushes to the reader that the store has postponed        *)
    flush,      (* postponeTimer: "off", "running", or "lost": its message  *)
                (* was dropped and postponeTimer is still set               *)
    jumped      (* history: has one of them overtaken an older one?         *)

store == <<open, sweeping, entry, made, cur>>
reader == <<life, pc, reply, stray, cache, fresh>>
pushes == <<mail, late, flush, jumped>>
vars == <<store, reader, pushes>>

Entries == 1..MaxEntries
Snapshot == [e : Entries, version : 1..MaxVersion]
NoEntry == [version |-> 0, subs |-> {}, bound |-> FALSE, timer |-> "off", cool |-> FALSE]

EntryType == [version : 0..MaxVersion, subs : SUBSET Readers, bound : BOOLEAN,
              timer : {"off", "running", "lost"}, cool : BOOLEAN]

StoreType ==
    /\ open \in BOOLEAN /\ sweeping \in BOOLEAN
    /\ entry \in [Entries -> EntryType]
    /\ made \in 0..MaxEntries /\ cur \in 0..made

ReaderType ==
    /\ life \in [Readers -> {"up", "idle", "gone"}]
    /\ pc \in [Readers -> {"run", "asked", "answered"}]
    /\ reply \in [Readers -> Snapshot \cup {None}]
    /\ stray \in [Readers -> BOOLEAN]
    /\ cache \in [Readers -> Snapshot \cup {None}]
    /\ fresh \in [Readers -> BOOLEAN]

PushType ==
    /\ mail \in [Readers -> Seq(Snapshot)]
    /\ \A r \in Readers : Len(mail[r]) <= Mails
    /\ late \in [Readers -> SUBSET Snapshot]
    /\ flush \in {"off", "running", "lost"}
    /\ jumped \in [Readers -> BOOLEAN]

(* Every variable has its type; a mailbox holds at most BufMails pushes.   *)
TypeOK == StoreType /\ ReaderType /\ PushType

Init ==
    /\ open = FALSE /\ sweeping = FALSE
    /\ entry = [i \in Entries |-> NoEntry]
    /\ made = 0 /\ cur = 0
    /\ life = [r \in Readers |-> "gone"]
    /\ pc = [r \in Readers |-> "run"]
    /\ reply = [r \in Readers |-> None]
    /\ stray = [r \in Readers |-> FALSE]
    /\ cache = [r \in Readers |-> None]
    /\ fresh = [r \in Readers |-> FALSE]
    /\ mail = [r \in Readers |-> << >>]
    /\ late = [r \in Readers |-> {}]
    /\ flush = "off"
    /\ jumped = [r \in Readers |-> FALSE]
-----------------------------------------------------------------------------
(* storeState.entry: the key's entry, made if there is none.               *)
TheEntry == IF cur = 0 THEN made + 1 ELSE cur
MakeEntry ==
    /\ TheEntry \in Entries
    /\ cur' = TheEntry
    /\ made' = IF cur = 0 THEN made + 1 ELSE made

Full_OneMore(r) == life[r] # "gone" /\ (late[r] # {} \/ Len(mail[r]) > Mails)

(* AMulticast postpones the push to a reader: its mailbox is full, or an   *)
(* earlier push to it still waits.                                         *)
Full(r) == life[r] # "gone" /\ (late[r] # {} \/ Len(mail[r]) >= Mails)

Pruned_Busy(subs, missed) == {r \in subs : Full(r) \/ (life[r] = "gone" /\ r \notin missed)}

(* binding.deliver returns the readers that were not found.  One with a    *)
(* postponed push may have gone after AMulticast began: the push to it is  *)
(* postponed as well and nobody notices.                                   *)
Pruned(subs, missed) == {r \in subs : life[r] = "gone" /\ r \notin missed}

(* The flush timer after a step that leaves queue postponed: stopped when  *)
(* nothing is left (poseponePost), started by what is postponed unless it  *)
(* is set, be it in vain (armPostponeFlush).                               *)
FlushTimerAfter(queue) ==
    CASE \A r \in Readers : queue[r] = {} -> "off"
      [] \E r \in Readers : queue[r] # {} -> IF flush = "off" THEN "running" ELSE flush

(* What the push p to the readers of subs does to mailboxes and queue.     *)
Deliver(subs, missed, p) ==
    /\ mail' = [r \in Readers |-> IF r \in subs /\ life[r] # "gone" /\ ~Full(r)
                                  THEN Append(mail[r], p) ELSE mail[r]]
    /\ late' = [r \in Readers |->
                   CASE r \in subs /\ (Full(r) \/ r \in missed) -> late[r] \cup {p}
                     [] r \in Pruned(subs, missed) -> {}
                     [] OTHER -> late[r]]
    /\ flush' = FlushTimerAfter(late')
    /\ UNCHANGED jumped

(* poseponePost has been through the queue: what is left found its reader  *)
(* busy.                                                                   *)
Retried == \A r \in Readers : late[r] # {} /\ life[r] # "gone" => Len(mail[r]) >= Mails

(* sendRefresh: entry i, whose record is now e, goes to all its readers,   *)
(* those that are gone are struck off, and the cooldown starts anew.       *)
(* AMulticast begins with a retry, which is the steps of Flush before this *)
(* one.                                                                    *)
SendRefresh(i, e) ==
    /\ e.subs # {} => Retried
    /\ \E missed \in SUBSET {r \in e.subs : life[r] = "gone" /\ late[r] # {}} :
           /\ Deliver(e.subs, missed, [e |-> i, version |-> e.version])
           /\ entry' = [entry EXCEPT ![i] =
                           [e EXCEPT !.subs = @ \ Pruned(e.subs, missed), !.cool = @ \/ e.bound]]

ScheduleRefresh_NoTimer(i, e) ==
    IF e.timer # "off" \/ e.cool
    THEN entry' = [entry EXCEPT ![i] = e] /\ UNCHANGED pushes
    ELSE SendRefresh(i, e)

(* scheduleRefresh: nothing while a timer is set, at once outside of the   *)
(* cooldown, else by a timer at its end.                                   *)
ScheduleRefresh(i, e) ==
    CASE e.timer # "off" -> entry' = [entry EXCEPT ![i] = e] /\ UNCHANGED pushes
      [] e.timer = "off" /\ e.cool -> entry' = [entry EXCEPT ![i] = [e EXCEPT !.timer = "running"]]
                                      /\ UNCHANGED pushes
      [] OTHER -> SendRefresh(i, e)

(* The handler of publishReq; only a publication that spawns the store     *)
(* starts the sweep timer.                                                 *)
Publish ==
    /\ MakeEntry
    /\ entry[TheEntry].version < MaxVersion
    /\ open' = TRUE
    /\ sweeping' = (sweeping \/ ~open)
    /\ ScheduleRefresh(TheEntry, [entry[TheEntry] EXCEPT !.version = @ + 1])
    /\ UNCHANGED reader

(* The entry with r among its readers, published or not.                   *)
Subscribed(e, r) == [e EXCEPT !.subs = @ \cup {r}, !.bound = TRUE]

(* The handler of subscribeReq from r: to the Watch that waits for it, or  *)
(* to one that has timed out.                                              *)
Subscribe(r) ==
    /\ MakeEntry
    /\ open' = TRUE
    /\ entry' = [entry EXCEPT ![TheEntry] = Subscribed(@, r)]
    /\ \/ /\ pc[r] = "asked"
          /\ pc' = [pc EXCEPT ![r] = "answered"]
          /\ reply' = [reply EXCEPT ![r] =
                          IF entry[TheEntry].version = 0 THEN None
                          ELSE [e |-> TheEntry, version |-> entry[TheEntry].version]]
          /\ UNCHANGED stray
       \/ /\ stray[r]
          /\ stray' = [stray EXCEPT ![r] = FALSE]
          /\ UNCHANGED <<pc, reply>>
    /\ UNCHANGED <<sweeping, life, cache, fresh, pushes>>

(* The handler of unpublishReq: the entry, its readers and its version are *)
(* forgotten; a timer it has set still runs.                               *)
Unpublish ==
    /\ cur # 0
    /\ cur' = 0
    /\ UNCHANGED <<open, sweeping, entry, made, reader, pushes>>

(* The refresh timer's callback.                                           *)
RefreshTimer(i) ==
    /\ entry[i].timer = "running" /\ ~entry[i].cool
    /\ SendRefresh(i, [entry[i] EXCEPT !.timer = "off"])
    /\ UNCHANGED <<open, sweeping, made, cur, reader>>

(* The timer goes off while the store's mailbox is full: its message is    *)
(* dropped, and pending stays set.                                         *)
RefreshTimerLost(i) ==
    /\ entry[i].timer = "running" /\ ~entry[i].cool
    /\ entry' = [entry EXCEPT ![i].timer = "lost"]
    /\ UNCHANGED <<open, sweeping, made, cur, reader, pushes>>

(* The cooldown of an entry is over.                                       *)
CooldownEnds(i) ==
    /\ entry[i].cool
    /\ entry' = [entry EXCEPT ![i].cool = FALSE]
    /\ UNCHANGED <<open, sweeping, made, cur, reader, pushes>>

(* The sweep deletes the key only if no reader group ever subscribed: the  *)
(* last reader's removal leaves an empty set under its binding.            *)
Unwatched(e) == ~e.bound
Sweep ==
    /\ sweeping /\ cur # 0
    /\ Unwatched(entry[cur])
    /\ cur' = 0
    /\ UNCHANGED <<open, sweeping, entry, made, reader, pushes>>

Older(p, q) == p.e < q.e \/ (p.e = q.e /\ p.version < q.version)

(* The store retries a postponed push to r, by its flush timer or before   *)
(* it sends anything (poseponePost).  A retry goes through the whole queue *)
(* while r empties its mailbox, so any of them may be first.               *)
Flush(r) ==
    \E p \in late[r] :
        /\ life[r] # "gone" => Len(mail[r]) < Mails
        /\ late' = [late EXCEPT ![r] = @ \ {p}]
        /\ mail' = IF life[r] # "gone" THEN [mail EXCEPT ![r] = Append(@, p)] ELSE mail
        /\ flush' = FlushTimerAfter(late')
        /\ jumped' = [jumped EXCEPT ![r] = @ \/ \E q \in late[r] : Older(q, p)]
        /\ UNCHANGED <<store, reader>>

(* The flush timer goes off while the store's mailbox is full: its message *)
(* is dropped, postponeTimer stays set, and only a send of the store, if   *)
(* there is one, retries.                                                  *)
FlushTimerLost ==
    /\ flush = "running"
    /\ flush' = "lost"
    /\ UNCHANGED <<store, reader, mail, late, jumped>>

(* The retries that come of themselves: armPostponeFlush's callback, which *)
(* starts the timer again while anything is postponed.                     *)
FlushTimer(r) == flush = "running" /\ Flush(r)
-----------------------------------------------------------------------------
Newer_Always(r, s) == TRUE

(* Reader.set keeps what it has unless the snapshot is of a later version. *)
Newer(r, s) == cache[r] = None \/ s.version > cache[r].version
Set(r, s) ==
    IF Newer(r, s)
    THEN cache' = [cache EXCEPT ![r] = s] /\ fresh' = [fresh EXCEPT ![r] = TRUE]
    ELSE UNCHANGED <<cache, fresh>>

(* Watch asks the store when cacheGet has nothing, or nothing fresh.       *)
Watch(r) ==
    /\ life[r] = "up" /\ pc[r] = "run"
    /\ cache[r] = None \/ ~fresh[r]
    /\ pc' = [pc EXCEPT ![r] = "asked"]
    /\ UNCHANGED <<store, life, reply, stray, cache, fresh, pushes>>

(* Watch gets its answer: a snapshot, or ErrNotPublished.                  *)
WatchReturns(r) ==
    /\ pc[r] = "answered"
    /\ pc' = [pc EXCEPT ![r] = "run"]
    /\ reply' = [reply EXCEPT ![r] = None]
    /\ IF reply[r] = None THEN UNCHANGED <<cache, fresh>> ELSE Set(r, reply[r])
    /\ UNCHANGED <<store, life, stray, pushes>>

(* Watch gives up; its request stays in the store's mailbox.  Bound: one   *)
(* such request at a time.                                                 *)
WatchTimeout(r) ==
    /\ pc[r] \in {"asked", "answered"}
    /\ pc[r] = "asked" => ~stray[r]
    /\ stray' = [stray EXCEPT ![r] = @ \/ pc[r] = "asked"]
    /\ pc' = [pc EXCEPT ![r] = "run"]
    /\ reply' = [reply EXCEPT ![r] = None]
    /\ UNCHANGED <<store, life, cache, fresh, pushes>>

(* The handler of refreshReq.                                              *)
Refresh(r) ==
    /\ life[r] = "up" /\ pc[r] = "run" /\ mail[r] # << >>
    /\ Set(r, Head(mail[r]))
    /\ mail' = [mail EXCEPT ![r] = Tail(@)]
    /\ UNCHANGED <<store, life, pc, reply, stray, late, flush, jumped>>

(* Without a context the reader refuses a push (it spawns nothing).        *)
Refuse(r) ==
    /\ life[r] = "idle" /\ mail[r] # << >>
    /\ mail' = [mail EXCEPT ![r] = Tail(@)]
    /\ UNCHANGED <<store, reader, late, flush, jumped>>

Invalidate(r) ==
    /\ pc[r] = "run" /\ cache[r] # None
    /\ cache' = [cache EXCEPT ![r] = None]
    /\ fresh' = [fresh EXCEPT ![r] = FALSE]
    /\ UNCHANGED <<store, life, pc, reply, stray, pushes>>

(* The TTL of the cached snapshot is over.                                 *)
Expire(r) ==
    /\ HasTTL /\ cache[r] # None /\ fresh[r]
    /\ fresh' = [fresh EXCEPT ![r] = FALSE]
    /\ UNCHANGED <<store, life, pc, reply, stray, cache, pushes>>

(* The reader's context ends, with its cache.  What is left in its mailbox *)
(* is refused, unless a request before it makes a new context.             *)
Quit(r) ==
    /\ life[r] = "up" /\ pc[r] = "run"
    /\ life' = [life EXCEPT ![r] = "idle"]
    /\ cache' = [cache EXCEPT ![r] = None]
    /\ fresh' = [fresh EXCEPT ![r] = FALSE]
    /\ UNCHANGED <<store, pc, reply, stray, pushes>>

(* The actor leaves its group: idle with nothing in its mailbox, or closed *)
(* and its mailbox drained.                                                *)
Remove(r) ==
    /\ life[r] = "idle"
    /\ life' = [life EXCEPT ![r] = "gone"]
    /\ mail' = [mail EXCEPT ![r] = << >>]
    /\ UNCHANGED <<store, pc, reply, stray, cache, fresh, late, flush, jumped>>

(* A request to the reader makes a context, and an actor if there is none. *)
Spawn(r) ==
    /\ life[r] # "up"
    /\ life' = [life EXCEPT ![r] = "up"]
    /\ UNCHANGED <<store, pc, reply, stray, cache, fresh, pushes>>
-----------------------------------------------------------------------------
StoreStep ==
    \/ Publish \/ Unpublish \/ Sweep \/ FlushTimerLost
    \/ \E i \in Entries : RefreshTimer(i) \/ RefreshTimerLost(i) \/ CooldownEnds(i)
    \/ \E r \in Readers : Subscribe(r) \/ Flush(r)

ReaderStep(r) ==
    \/ Watch(r) \/ WatchReturns(r) \/ WatchTimeout(r) \/ Refresh(r) \/ Refuse(r)
    \/ Invalidate(r) \/ Expire(r) \/ Quit(r) \/ Remove(r) \/ Spawn(r)

Next == StoreStep \/ \E r \in Readers : ReaderStep(r)
Spec == Init /\ [][Next]_vars

(* The store's actor and the readers' actors run while they have messages, *)
(* timers go off and cooldowns end.  A timer's message that is lost owes   *)
(* nothing: RefreshTimer and FlushTimer are disabled from then on.  A      *)
(* mailbox is a queue: a push in it has its turn even if each message      *)
(* before it is a Watch that times out.  Nobody has to publish or to       *)
(* watch, and nothing has to fail.                                         *)
Fairness ==
    /\ \A i \in Entries : WF_vars(RefreshTimer(i)) /\ WF_vars(CooldownEnds(i))
    /\ \A r \in Readers : /\ WF_vars(Subscribe(r)) /\ WF_vars(FlushTimer(r))
                          /\ WF_vars(WatchReturns(r)) /\ SF_vars(Refresh(r))
FairSpec == Spec /\ Fairness
-----------------------------------------------------------------------------
(* The snapshots a reader has, or will have without asking again.          *)
Reaching(r) == ({cache[r], reply[r]} \ {None}) \cup {mail[r][k] : k \in DOMAIN mail[r]} \cup late[r]

(* Who has a snapshot of an entry, or is about to get one, is among that   *)
(* entry's readers, and will be told of its next version: a reader is      *)
(* struck off (store.go sendRefresh) only when nothing of the entry is     *)
(* left with it, however timeouts, postponed pushes, deaths and rebirths   *)
(* fall out.  The entry need not be the current one: Unpublish forgets the *)
(* readers along with it.                                                  *)
StaysSubscribed == \A r \in Readers : \A s \in Reaching(r) : r \in entry[s.e].subs

(* As long as the key is not unpublished under it, a reader's snapshot     *)
(* never goes back (reader.go set), although replies, pushes and postponed *)
(* pushes overtake one another.                                            *)
NeverBack ==
    [][\A r \in Readers :
         (cache[r] # None /\ cache'[r] # None /\ cache'[r].e = cache[r].e)
             => cache'[r].version >= cache[r].version]_vars

(* r reads an old version of the published key; the message of neither the *)
(* refresh timer nor the flush timer that is set was lost, and no          *)
(* postponed push to r was sent before an older one.                       *)
Behind(r) ==
    /\ life[r] = "up" /\ cache[r] # None /\ cur # 0
    /\ cache[r].e = cur /\ cache[r].version < entry[cur].version
    /\ entry[cur].timer # "lost" /\ flush # "lost" /\ ~jumped[r]

(* "A reader may skip intermediate versions but always converges to the    *)
(* latest" (README, cooldown coalescing), in one push or several, when     *)
(* publications end: for readers of the current entry, if postponed pushes *)
(* keep their order and the messages of the refresh timer and of the flush *)
(* timer find room in the store's own mailbox.  A lost one leaves the      *)
(* reader behind until the store sends again (actor_context.go:54).  That  *)
(* the reader's own mailbox is full is no exception: store.go:13 says that *)
(* the push is then lost, but AMulticast postpones it.                     *)
Converges == \A r \in Readers : Behind(r) ~> ~Behind(r)
=============================================================================
