-------------------------- MODULE SharedStoreProofs --------------------------
(***************************************************************************)
(* Proofs about SharedStore, for any readers, entries, versions and        *)
(* mailbox capacity: who has a snapshot stays subscribed, and a cached     *)
(* snapshot never goes back.                                               *)
(***************************************************************************)
EXTENDS SharedStore, TLAPS

(* A reader without a context has no cache and does not wait, one that is  *)
(* gone has no mail; a reply is there only for one that waits.             *)
DownIsEmpty ==
    \A r \in Readers :
        /\ life[r] # "up" => cache[r] = None /\ pc[r] = "run"
        /\ life[r] = "gone" => mail[r] = << >>
        /\ reply[r] # None => pc[r] = "answered"

(* The refresh timer of an entry is set only after a publication.          *)
TimerPublished == \A i \in Entries : entry[i].timer # "off" => entry[i].version > 0

(* StaysSubscribed, place by place.                                        *)
Told(r, s) == r \in entry[s.e].subs
CacheTold == \A r \in Readers : cache[r] # None => Told(r, cache[r])
ReplyTold == \A r \in Readers : reply[r] # None => Told(r, reply[r])
MailTold == \A r \in Readers : \A k \in DOMAIN mail[r] : Told(r, mail[r][k])
LateTold == \A r \in Readers : \A s \in late[r] : Told(r, s)

(* The inductive invariant.                                                *)
StoreInv ==
    /\ StoreType /\ ReaderType /\ PushType /\ DownIsEmpty /\ TimerPublished
    /\ CacheTold /\ ReplyTold /\ MailTold /\ LateTold

USE DEF store, reader, pushes, Entries

(* Nothing is published, cached or on its way at first.                    *)
LEMMA StoreInit == Init => StoreInv
<1> SUFFICES ASSUME Init PROVE StoreInv
  OBVIOUS
<1> USE SharedAssumption
<1>1. StoreType
  <2>1. NoEntry \in EntryType
    BY DEF NoEntry, EntryType
  <2>2. entry \in [Entries -> EntryType] /\ open \in BOOLEAN /\ sweeping \in BOOLEAN
    BY <2>1, Zenon DEF Init
  <2> QED
    BY <2>2 DEF Init, StoreType
<1>2. ReaderType /\ PushType
  BY DEF Init, ReaderType, PushType
<1>3. DownIsEmpty /\ TimerPublished
  BY DEF Init, DownIsEmpty, TimerPublished, NoEntry
<1>4. CacheTold /\ ReplyTold /\ MailTold /\ LateTold
  BY DEF Init, CacheTold, ReplyTold, MailTold, LateTold
<1> QED
  BY <1>1, <1>2, <1>3, <1>4 DEF StoreInv

(* Appending keeps a sequence's type, its elements and makes it longer.    *)
LEMMA Appended ==
    ASSUME NEW S, NEW s \in Seq(S), NEW x \in S
    PROVE  /\ Append(s, x) \in Seq(S)
           /\ Len(Append(s, x)) = Len(s) + 1
           /\ \A k \in DOMAIN Append(s, x) :
                 Append(s, x)[k] = x \/ (k \in DOMAIN s /\ Append(s, x)[k] = s[k])
  OBVIOUS

(* The flush timer stays one of three.                                     *)
LEMMA FlushTimerType ==
    ASSUME flush \in {"off", "running", "lost"}, NEW queue
    PROVE  FlushTimerAfter(queue) \in {"off", "running", "lost"}
<1>1. CASE \A r \in Readers : queue[r] = {}
  BY <1>1 DEF FlushTimerAfter
<1>2. CASE ~ \A r \in Readers : queue[r] = {}
  BY <1>2 DEF FlushTimerAfter
<1> QED
  BY <1>1, <1>2

(* What sendRefresh changes: a reader that is struck off had nothing of    *)
(* the entry but postponed pushes, and they are dropped with it.           *)
LEMMA SendRefreshInv ==
    ASSUME StoreInv, NEW i \in Entries, NEW e \in EntryType,
           e.version > 0, entry[i].subs \subseteq e.subs, SendRefresh(i, e),
           UNCHANGED reader
    PROVE  /\ entry' \in [Entries -> EntryType] /\ PushType'
           /\ DownIsEmpty' /\ TimerPublished'
           /\ CacheTold' /\ ReplyTold' /\ MailTold' /\ LateTold'
<1> DEFINE p == [e |-> i, version |-> e.version]
<1>1. PICK missed \in SUBSET {r \in e.subs : life[r] = "gone" /\ late[r] # {}} :
        /\ Deliver(e.subs, missed, p)
        /\ entry' = [entry EXCEPT ![i] =
                        [e EXCEPT !.subs = @ \ Pruned(e.subs, missed), !.cool = @ \/ e.bound]]
  BY DEF SendRefresh
<1> DEFINE out == Pruned(e.subs, missed)
<1>2. /\ StoreType /\ ReaderType /\ PushType /\ DownIsEmpty /\ TimerPublished
      /\ CacheTold /\ ReplyTold /\ MailTold /\ LateTold
  BY DEF StoreInv
<1>3. p \in Snapshot
  BY SharedAssumption DEF EntryType, Snapshot
<1>4. entry' \in [Entries -> EntryType]
  BY <1>1, <1>2 DEF StoreType, EntryType
<1>5. /\ \A j \in Entries : j # i => entry'[j] = entry[j]
      /\ entry'[i].subs = e.subs \ out /\ entry'[i].timer = e.timer /\ entry'[i].version = e.version
  BY <1>1, <1>2 DEF StoreType, EntryType
<1>6. \A r \in Readers : /\ mail[r] \in Seq(Snapshot) /\ Len(mail[r]) \in Nat
                         /\ Len(mail[r]) <= Mails /\ late[r] \in SUBSET Snapshot
  BY <1>2 DEF PushType
<1>7. \A r \in Readers :
         \/ mail'[r] = mail[r]
         \/ /\ r \in e.subs /\ life[r] # "gone" /\ ~Full(r)
            /\ mail'[r] = Append(mail[r], p)
  BY <1>1 DEF Deliver
<1>8. \A r \in Readers :
         \/ late'[r] = late[r] /\ r \notin out
         \/ r \in e.subs /\ r \notin out /\ late'[r] = late[r] \cup {p}
         \/ r \in out /\ late'[r] = {}
  <2> SUFFICES ASSUME NEW r \in Readers
               PROVE  \/ late'[r] = late[r] /\ r \notin out
                      \/ r \in e.subs /\ r \notin out /\ late'[r] = late[r] \cup {p}
                      \/ r \in out /\ late'[r] = {}
    OBVIOUS
  <2>1. r \in out => r \in e.subs /\ life[r] = "gone" /\ r \notin missed /\ ~Full(r)
    BY DEF Pruned, Full
  <2>2. late'[r] = CASE r \in e.subs /\ (Full(r) \/ r \in missed) -> late[r] \cup {p}
                     [] r \in out -> {}
                     [] OTHER -> late[r]
    BY <1>1 DEF Deliver
  <2> HIDE DEF out, p
  <2> QED
    BY <2>1, <2>2
<1>9. DOMAIN mail' = Readers /\ DOMAIN late' = Readers
      /\ mail' = [r \in Readers |-> mail'[r]] /\ late' = [r \in Readers |-> late'[r]]
      /\ UNCHANGED jumped /\ flush' \in {"off", "running", "lost"}
  <2>1. FlushTimerAfter(late') \in {"off", "running", "lost"}
    BY <1>2, FlushTimerType DEF PushType
  <2> QED
    BY <1>1, <2>1 DEF Deliver
<1>10. \A r \in out : /\ r \in Readers /\ life[r] = "gone" /\ cache[r] = None /\ reply[r] = None
                      /\ mail[r] = << >>
  BY <1>2 DEF Pruned, DownIsEmpty, EntryType
<1> HIDE DEF out, p
<1>11. PushType'
  <2>1. \A r \in Readers : mail'[r] \in Seq(Snapshot) /\ Len(mail'[r]) <= Mails
    <3> TAKE r \in Readers
    <3>1. CASE mail'[r] = mail[r]
      BY <3>1, <1>6
    <3>2. CASE life[r] # "gone" /\ ~Full(r) /\ mail'[r] = Append(mail[r], p)
      <4>1. Len(mail[r]) < Mails
        BY <3>2, <1>6, SharedAssumption DEF Full
      <4> QED
        BY <3>2, <4>1, <1>3, <1>6, Appended, SharedAssumption
    <3> QED
      BY <3>1, <3>2, <1>7
  <2>2. \A r \in Readers : late'[r] \in SUBSET Snapshot
    BY <1>3, <1>6, <1>8
  <2> QED
    BY <1>2, <1>9, <2>1, <2>2 DEF PushType
<1>12. DownIsEmpty'
  BY <1>2, <1>7 DEF DownIsEmpty
<1>13. TimerPublished'
  BY <1>2, <1>5 DEF TimerPublished
<1>14. \A r \in Readers, s \in Snapshot : Told(r, s) /\ r \notin out => Told(r, s)'
  BY <1>5 DEF Told, Snapshot
<1>15. \A r \in Readers : r \in e.subs /\ r \notin out => Told(r, p)'
  BY <1>5 DEF Told, p
<1>16. CacheTold' /\ ReplyTold'
  BY <1>2, <1>10, <1>14 DEF CacheTold, ReplyTold, ReaderType
<1>17. MailTold'
  <2> SUFFICES ASSUME NEW r \in Readers, NEW k \in DOMAIN mail'[r]
               PROVE  Told(r, mail[r][k])'
    BY DEF MailTold
  <2>1. CASE mail'[r] = mail[r]
    <3>1. r \notin out
      BY <2>1, <1>10
    <3>2. mail[r][k] \in Snapshot
      BY <2>1, <1>6
    <3> QED
      BY <2>1, <3>1, <3>2, <1>2, <1>14 DEF MailTold
  <2>2. CASE r \in e.subs /\ life[r] # "gone" /\ mail'[r] = Append(mail[r], p)
    <3>1. r \notin out
      BY <2>2, <1>10
    <3>2. mail'[r][k] = p \/ (k \in DOMAIN mail[r] /\ mail'[r][k] = mail[r][k])
      BY <2>2, <1>3, <1>6, Appended
    <3>3. k \in DOMAIN mail[r] => mail[r][k] \in Snapshot
      BY <1>6
    <3> QED
      BY <2>2, <3>1, <3>2, <3>3, <1>2, <1>14, <1>15 DEF MailTold
  <2> QED
    BY <2>1, <2>2, <1>7
<1>18. LateTold'
  <2> SUFFICES ASSUME NEW r \in Readers, NEW s \in late'[r]
               PROVE  Told(r, s)'
    BY DEF LateTold
  <2>1. r \notin out /\ (s \in late[r] \/ (r \in e.subs /\ s = p))
    BY <1>8
  <2>2. s \in late[r] => s \in Snapshot /\ Told(r, s)
    BY <1>2, <1>6 DEF LateTold
  <2> QED
    BY <2>1, <2>2, <1>14, <1>15
<1> QED
  BY <1>4, <1>11, <1>12, <1>13, <1>16, <1>17, <1>18

(* An entry that keeps its readers: nothing changes for those who have a   *)
(* snapshot.                                                               *)
LEMMA EntryTouched ==
    ASSUME StoreInv, NEW i \in Entries, NEW f \in EntryType,
           f.timer # "off" => f.version > 0, entry[i].subs \subseteq f.subs,
           entry' = [entry EXCEPT ![i] = f], UNCHANGED <<cache, mail, late>>
    PROVE  /\ entry' \in [Entries -> EntryType] /\ TimerPublished'
           /\ CacheTold' /\ MailTold' /\ LateTold'
           /\ \A r \in Readers, s \in Snapshot : Told(r, s) => Told(r, s)'
<1>1. StoreType /\ ReaderType /\ PushType /\ TimerPublished /\ CacheTold /\ MailTold /\ LateTold
  BY DEF StoreInv
<1>2. entry' \in [Entries -> EntryType] /\ TimerPublished'
  BY <1>1 DEF StoreType, TimerPublished
<1>3. \A r \in Readers, s \in Snapshot : Told(r, s) => Told(r, s)'
  BY <1>1 DEF Told, Snapshot, StoreType
<1>4. CacheTold'
  BY <1>1, <1>3 DEF CacheTold, ReaderType
<1>5. MailTold'
  <2> SUFFICES ASSUME NEW r \in Readers, NEW k \in DOMAIN mail[r]
               PROVE  Told(r, mail[r][k])'
    BY DEF MailTold
  <2>1. mail[r][k] \in Snapshot
    BY <1>1 DEF PushType
  <2> QED
    BY <2>1, <1>1, <1>3 DEF MailTold
<1>6. LateTold'
  BY <1>1, <1>3 DEF LateTold, PushType
<1> QED
  BY <1>2, <1>3, <1>4, <1>5, <1>6

(* storeState.entry finds the key's entry or makes one.                    *)
LEMMA MakeEntryType ==
    ASSUME StoreType, MakeEntry
    PROVE  TheEntry \in Entries /\ made' \in 0..MaxEntries /\ cur' \in 0..made'
           /\ entry[TheEntry] \in EntryType
  BY SharedAssumption DEF StoreType, MakeEntry, TheEntry

(* A publication: pushed at once, later, or by the timer that is set.      *)
LEMMA PublishInv == StoreInv /\ Publish => StoreInv'
<1> SUFFICES ASSUME StoreInv, Publish PROVE StoreInv'
  OBVIOUS
<1>1. /\ StoreType /\ ReaderType /\ PushType /\ DownIsEmpty /\ TimerPublished
      /\ CacheTold /\ ReplyTold /\ MailTold /\ LateTold
  BY DEF StoreInv
<1>2. /\ MakeEntry /\ entry[TheEntry].version < MaxVersion /\ UNCHANGED reader
      /\ open' \in BOOLEAN /\ sweeping' \in BOOLEAN
      /\ ScheduleRefresh(TheEntry, [entry[TheEntry] EXCEPT !.version = @ + 1])
  BY <1>1 DEF Publish, StoreType
<1>3. /\ TheEntry \in Entries /\ made' \in 0..MaxEntries /\ cur' \in 0..made'
      /\ entry[TheEntry] \in EntryType
  BY <1>1, <1>2, MakeEntryType
<1>4. PICK i \in Entries : i = TheEntry
  BY <1>3
<1>5. PICK e \in EntryType : e = [entry[i] EXCEPT !.version = @ + 1]
  BY <1>2, <1>3, <1>4, SharedAssumption DEF EntryType
<1>6. e.version > 0 /\ entry[i].subs = e.subs
  BY <1>3, <1>4, <1>5, SharedAssumption DEF EntryType
<1>7. ScheduleRefresh(i, e)
  BY <1>2, <1>4, <1>5
<1> HIDE <1>4, <1>5
<1>8. /\ entry' \in [Entries -> EntryType] /\ PushType' /\ DownIsEmpty' /\ TimerPublished'
      /\ CacheTold' /\ ReplyTold' /\ MailTold' /\ LateTold'
  <2>1. CASE entry' = [entry EXCEPT ![i] = e] /\ UNCHANGED pushes
    <3>1. /\ entry' \in [Entries -> EntryType] /\ TimerPublished'
          /\ CacheTold' /\ MailTold' /\ LateTold'
          /\ \A r \in Readers, s \in Snapshot : Told(r, s) => Told(r, s)'
      BY <2>1, <1>2, <1>6, EntryTouched
    <3> QED
      BY <3>1, <2>1, <1>1, <1>2 DEF PushType, DownIsEmpty, ReplyTold, ReaderType
  <2>2. CASE entry' = [entry EXCEPT ![i] = [e EXCEPT !.timer = "running"]] /\ UNCHANGED pushes
    <3>1. PICK f \in EntryType : f = [e EXCEPT !.timer = "running"]
      BY DEF EntryType
    <3>2. f.version > 0 /\ entry[i].subs \subseteq f.subs
      BY <3>1, <1>6 DEF EntryType
    <3>3. entry' = [entry EXCEPT ![i] = f]
      BY <2>2, <3>1
    <3>4. /\ entry' \in [Entries -> EntryType] /\ TimerPublished'
          /\ CacheTold' /\ MailTold' /\ LateTold'
          /\ \A r \in Readers, s \in Snapshot : Told(r, s) => Told(r, s)'
      BY <2>2, <3>2, <3>3, <1>2, EntryTouched
    <3> QED
      BY <3>4, <2>2, <1>1, <1>2 DEF PushType, DownIsEmpty, ReplyTold, ReaderType
  <2>3. CASE SendRefresh(i, e)
    BY <2>3, <1>2, <1>6, SendRefreshInv
  <2> QED
    BY <1>7, <2>1, <2>2, <2>3 DEF ScheduleRefresh
<1>9. ReaderType'
  BY <1>1, <1>2 DEF ReaderType
<1> QED
  BY <1>2, <1>3, <1>8, <1>9 DEF StoreInv, StoreType

(* The refresh timer's callback pushes the version there is by then.       *)
LEMMA RefreshTimerInv ==
    ASSUME StoreInv, NEW i \in Entries, RefreshTimer(i)
    PROVE  StoreInv'
<1>1. /\ StoreType /\ ReaderType /\ TimerPublished
      /\ entry[i].timer = "running" /\ UNCHANGED <<open, sweeping, made, cur, reader>>
      /\ SendRefresh(i, [entry[i] EXCEPT !.timer = "off"])
  BY DEF StoreInv, RefreshTimer
<1>2. entry[i] \in EntryType
  BY <1>1 DEF StoreType
<1>3. PICK e \in EntryType : e = [entry[i] EXCEPT !.timer = "off"]
  BY <1>2 DEF EntryType
<1>4. e.version > 0 /\ entry[i].subs \subseteq e.subs /\ SendRefresh(i, e)
  BY <1>1, <1>2, <1>3 DEF TimerPublished, EntryType
<1>5. /\ entry' \in [Entries -> EntryType] /\ PushType' /\ DownIsEmpty' /\ TimerPublished'
      /\ CacheTold' /\ ReplyTold' /\ MailTold' /\ LateTold'
  BY <1>1, <1>4, SendRefreshInv
<1> QED
  BY <1>1, <1>5 DEF StoreInv, StoreType, ReaderType

(* A lost timer message and the end of a cooldown change no reader.        *)
LEMMA EntryClockInv ==
    ASSUME StoreInv, NEW i \in Entries, RefreshTimerLost(i) \/ CooldownEnds(i)
    PROVE  StoreInv'
<1>1. /\ StoreType /\ ReaderType /\ PushType /\ DownIsEmpty /\ TimerPublished /\ ReplyTold
      /\ UNCHANGED <<open, sweeping, made, cur, reader, pushes>>
  BY DEF StoreInv, RefreshTimerLost, CooldownEnds
<1>2. entry[i] \in EntryType
  BY <1>1 DEF StoreType
<1>3. PICK f \in EntryType : /\ entry' = [entry EXCEPT ![i] = f]
                             /\ f.subs = entry[i].subs /\ f.version = entry[i].version
                             /\ f.timer # "off" => entry[i].timer # "off"
  <2>1. CASE RefreshTimerLost(i)
    <3>1. [entry[i] EXCEPT !.timer = "lost"] \in EntryType
      BY <1>2 DEF EntryType
    <3> QED
      BY <2>1, <3>1, <1>2 DEF RefreshTimerLost, EntryType
  <2>2. CASE CooldownEnds(i)
    <3>1. [entry[i] EXCEPT !.cool = FALSE] \in EntryType
      BY <1>2 DEF EntryType
    <3> QED
      BY <2>2, <3>1, <1>2 DEF CooldownEnds, EntryType
  <2> QED
    BY <2>1, <2>2
<1>4. f.timer # "off" => f.version > 0
  BY <1>1, <1>3 DEF TimerPublished
<1>5. /\ entry' \in [Entries -> EntryType] /\ TimerPublished'
      /\ CacheTold' /\ MailTold' /\ LateTold'
      /\ \A r \in Readers, s \in Snapshot : Told(r, s) => Told(r, s)'
  BY <1>1, <1>3, <1>4, EntryTouched
<1>6. StoreType' /\ ReaderType' /\ PushType' /\ DownIsEmpty'
  BY <1>1, <1>5 DEF StoreType, ReaderType, PushType, DownIsEmpty
<1>7. ReplyTold'
  BY <1>1, <1>5 DEF ReplyTold, ReaderType
<1> QED
  BY <1>5, <1>6, <1>7 DEF StoreInv

(* A subscription, to a Watch that waits or to one that gave up.           *)
LEMMA SubscribeInv ==
    ASSUME StoreInv, NEW r \in Readers, Subscribe(r)
    PROVE  StoreInv'
<1>1. /\ StoreType /\ ReaderType /\ PushType /\ DownIsEmpty /\ TimerPublished
      /\ CacheTold /\ ReplyTold /\ MailTold /\ LateTold
  BY DEF StoreInv
<1>2. /\ MakeEntry /\ open' = TRUE
      /\ entry' = [entry EXCEPT ![TheEntry] = Subscribed(@, r)]
      /\ UNCHANGED <<sweeping, life, cache, fresh, pushes>>
  BY DEF Subscribe
<1>3. /\ TheEntry \in Entries /\ made' \in 0..MaxEntries /\ cur' \in 0..made'
      /\ entry[TheEntry] \in EntryType
  BY <1>1, <1>2, MakeEntryType
<1>4. PICK i \in Entries : i = TheEntry
  BY <1>3
<1>5. PICK f \in EntryType : f = Subscribed(entry[i], r)
  BY <1>3, <1>4 DEF EntryType, Subscribed
<1>6. /\ f.timer = entry[i].timer /\ f.version = entry[i].version
      /\ f.subs = entry[i].subs \cup {r}
  BY <1>3, <1>4, <1>5 DEF EntryType, Subscribed
<1>7. entry' = [entry EXCEPT ![i] = f]
  BY <1>1, <1>2, <1>4, <1>5 DEF StoreType
<1>8. f.timer # "off" => f.version > 0
  BY <1>1, <1>6 DEF TimerPublished
<1>9. /\ entry' \in [Entries -> EntryType] /\ TimerPublished'
      /\ CacheTold' /\ MailTold' /\ LateTold'
      /\ \A q \in Readers, s \in Snapshot : Told(q, s) => Told(q, s)'
  BY <1>2, <1>6, <1>7, <1>8, EntryTouched
<1>10. StoreType' /\ PushType'
  BY <1>1, <1>2, <1>3, <1>9 DEF StoreType, PushType
<1>11. CASE /\ pc[r] = "asked" /\ pc' = [pc EXCEPT ![r] = "answered"] /\ UNCHANGED stray
            /\ reply' = [reply EXCEPT ![r] =
                            IF entry[TheEntry].version = 0 THEN None
                            ELSE [e |-> TheEntry, version |-> entry[TheEntry].version]]
  <2>1. PICK x \in Snapshot \cup {None} :
            /\ reply' = [reply EXCEPT ![r] = x]
            /\ x # None => x.e = i
    <3>1. CASE entry[i].version = 0
      BY <3>1, <1>4, <1>11
    <3>2. CASE entry[i].version # 0
      <4>1. [e |-> i, version |-> entry[i].version] \in Snapshot
        BY <3>2, <1>3, <1>4 DEF Snapshot, EntryType
      <4>2. reply' = [reply EXCEPT ![r] = [e |-> i, version |-> entry[i].version]]
        BY <3>2, <1>4, <1>11
      <4>3. [e |-> i, version |-> entry[i].version].e = i
        OBVIOUS
      <4> QED
        BY <4>1, <4>2, <4>3, Zenon
    <3> QED
      BY <3>1, <3>2
  <2>2. ReaderType'
    BY <1>1, <1>2, <1>11, <2>1 DEF ReaderType
  <2>3. DownIsEmpty'
    BY <1>1, <1>2, <1>11, <2>1 DEF DownIsEmpty, ReaderType
  <2>4. x # None => r \in entry'[x.e].subs
    BY <1>1, <1>6, <1>7, <2>1 DEF StoreType
  <2>5. ReplyTold'
    <3> SUFFICES ASSUME NEW q \in Readers, reply'[q] # None
                 PROVE  Told(q, reply[q])'
      BY DEF ReplyTold
    <3>1. CASE q = r
      BY <3>1, <2>1, <2>4, <1>1 DEF Told, ReaderType
    <3>2. CASE q # r
      BY <3>2, <2>1, <1>1, <1>9 DEF ReplyTold, ReaderType
    <3> QED
      BY <3>1, <3>2
  <2> QED
    BY <1>9, <1>10, <2>2, <2>3, <2>5 DEF StoreInv
<1>12. CASE stray' = [stray EXCEPT ![r] = FALSE] /\ UNCHANGED <<pc, reply>>
  <2>1. ReaderType' /\ DownIsEmpty' /\ ReplyTold'
    BY <1>1, <1>2, <1>9, <1>12 DEF ReaderType, DownIsEmpty, ReplyTold
  <2> QED
    BY <1>9, <1>10, <2>1 DEF StoreInv
<1> QED
  BY <1>11, <1>12 DEF Subscribe

(* Forgetting the entry: it lives on in the callback of its timer.         *)
LEMMA ForgetInv == StoreInv /\ (Unpublish \/ Sweep) => StoreInv'
<1> SUFFICES ASSUME StoreInv, Unpublish \/ Sweep PROVE StoreInv'
  OBVIOUS
<1>1. cur' = 0 /\ UNCHANGED <<open, sweeping, entry, made, reader, pushes>>
  BY DEF Unpublish, Sweep
<1>2. StoreType' /\ ReaderType' /\ PushType'
  BY <1>1 DEF StoreInv, StoreType, ReaderType, PushType
<1>3. DownIsEmpty' /\ TimerPublished' /\ CacheTold' /\ ReplyTold' /\ MailTold' /\ LateTold'
  BY <1>1 DEF StoreInv, DownIsEmpty, TimerPublished, CacheTold, ReplyTold, MailTold, LateTold, Told
<1> QED
  BY <1>2, <1>3 DEF StoreInv

(* A postponed push reaches the mailbox, or a reader that refuses it.      *)
LEMMA FlushInv ==
    ASSUME StoreInv, NEW r \in Readers, Flush(r)
    PROVE  StoreInv'
<1>1. /\ StoreType /\ ReaderType /\ PushType /\ DownIsEmpty /\ TimerPublished
      /\ CacheTold /\ ReplyTold /\ MailTold /\ LateTold
  BY DEF StoreInv
<1>2. PICK p \in late[r] :
        /\ life[r] # "gone" => Len(mail[r]) < Mails
        /\ late' = [late EXCEPT ![r] = @ \ {p}]
        /\ mail' = IF life[r] # "gone" THEN [mail EXCEPT ![r] = Append(@, p)] ELSE mail
        /\ flush' = FlushTimerAfter(late')
        /\ jumped' = [jumped EXCEPT ![r] = @ \/ \E q \in late[r] : Older(q, p)]
        /\ UNCHANGED <<store, reader>>
  BY DEF Flush
<1>3. p \in Snapshot /\ mail[r] \in Seq(Snapshot) /\ Told(r, p)
  BY <1>1 DEF PushType, LateTold
<1>4. StoreType' /\ ReaderType' /\ TimerPublished' /\ CacheTold' /\ ReplyTold' /\ (Told(r, p))'
  BY <1>1, <1>2, <1>3 DEF StoreType, ReaderType, TimerPublished, CacheTold, ReplyTold, Told
<1>5. LateTold' /\ late' \in [Readers -> SUBSET Snapshot]
  BY <1>1, <1>2 DEF LateTold, Told, PushType
<1>6. jumped' \in [Readers -> BOOLEAN] /\ flush' \in {"off", "running", "lost"}
  <2>0. flush' \in {"off", "running", "lost"}
    BY <1>1, <1>2, FlushTimerType DEF PushType
  <2> DEFINE j == jumped[r] \/ \E q \in late[r] : Older(q, p)
  <2>1. j \in BOOLEAN
    OBVIOUS
  <2>2. jumped' = [jumped EXCEPT ![r] = j]
    BY <1>1, <1>2 DEF PushType
  <2> HIDE DEF j
  <2> QED
    BY <2>0, <2>1, <2>2, <1>1 DEF PushType
<1>7. CASE life[r] = "gone"
  BY <1>1, <1>2, <1>4, <1>5, <1>6, <1>7 DEF StoreInv, PushType, DownIsEmpty, MailTold, Told
<1>8. CASE life[r] # "gone"
  <2>1. mail' = [mail EXCEPT ![r] = Append(mail[r], p)] /\ Len(mail[r]) < Mails
    BY <1>1, <1>2, <1>8 DEF PushType
  <2>2. /\ Append(mail[r], p) \in Seq(Snapshot) /\ Len(Append(mail[r], p)) = Len(mail[r]) + 1
        /\ \A k \in DOMAIN Append(mail[r], p) :
              \/ Append(mail[r], p)[k] = p
              \/ k \in DOMAIN mail[r] /\ Append(mail[r], p)[k] = mail[r][k]
    BY <1>3, Appended
  <2>3. Len(Append(mail[r], p)) <= Mails
    BY <1>3, <2>1, <2>2, SharedAssumption
  <2>4. PICK m \in Seq(Snapshot) : m = Append(mail[r], p)
    BY <2>2
  <2>5. /\ mail' = [mail EXCEPT ![r] = m] /\ Len(m) <= Mails
        /\ \A k \in DOMAIN m : m[k] = p \/ (k \in DOMAIN mail[r] /\ m[k] = mail[r][k])
    BY <2>1, <2>2, <2>3, <2>4
  <2> HIDE <2>4
  <2>6. PushType'
    BY <1>1, <1>5, <1>6, <2>5 DEF PushType
  <2>7. DownIsEmpty'
    BY <1>1, <1>2, <1>8, <2>5 DEF DownIsEmpty, PushType
  <2>8. MailTold'
    BY <1>1, <1>2, <1>4, <2>5 DEF MailTold, Told, PushType
  <2> QED
    BY <1>4, <1>5, <2>6, <2>7, <2>8 DEF StoreInv
<1> QED
  BY <1>7, <1>8

(* The message of the flush timer is lost.                                 *)
LEMMA FlushTimerLostInv == StoreInv /\ FlushTimerLost => StoreInv'
<1> SUFFICES ASSUME StoreInv, FlushTimerLost PROVE StoreInv'
  OBVIOUS
<1>1. flush' = "lost" /\ UNCHANGED <<store, reader, mail, late, jumped>>
  BY DEF FlushTimerLost
<1>2. StoreType' /\ ReaderType' /\ PushType'
  BY <1>1 DEF StoreInv, StoreType, ReaderType, PushType
<1>3. DownIsEmpty' /\ TimerPublished' /\ CacheTold' /\ ReplyTold' /\ MailTold' /\ LateTold'
  BY <1>1 DEF StoreInv, DownIsEmpty, TimerPublished, CacheTold, ReplyTold, MailTold, LateTold, Told
<1> QED
  BY <1>2, <1>3 DEF StoreInv

(* The steps of a reader's Watch, its cache and its life.                  *)
LEMMA ReaderInv ==
    ASSUME StoreInv, NEW r \in Readers, ReaderStep(r)
    PROVE  StoreInv'
<1>1. /\ StoreType /\ ReaderType /\ PushType /\ DownIsEmpty /\ TimerPublished
      /\ CacheTold /\ ReplyTold /\ MailTold /\ LateTold
  BY DEF StoreInv
<1>2. UNCHANGED store => StoreType' /\ TimerPublished'
  BY <1>1 DEF StoreType, TimerPublished
<1>3. UNCHANGED pushes => PushType'
  BY <1>1 DEF PushType
<1>4. ASSUME NEW s \in Snapshot, Set(r, s)
      PROVE  /\ cache' \in [Readers -> Snapshot \cup {None}] /\ fresh' \in [Readers -> BOOLEAN]
             /\ \A q \in Readers : cache'[q] = cache[q] \/ (q = r /\ cache'[q] = s)
  BY <1>1, <1>4 DEF Set, ReaderType
<1>5. CASE Watch(r)
  <2>1. ReaderType' /\ DownIsEmpty'
    BY <1>1, <1>5 DEF Watch, ReaderType, DownIsEmpty
  <2> QED
    BY <1>1, <1>2, <1>3, <1>5, <2>1 DEF StoreInv, Watch, CacheTold, ReplyTold, MailTold, LateTold, Told
<1>6. CASE WatchReturns(r)
  <2>1. /\ pc[r] = "answered" /\ pc' = [pc EXCEPT ![r] = "run"]
        /\ reply' = [reply EXCEPT ![r] = None] /\ UNCHANGED <<store, life, stray, pushes>>
    BY <1>6 DEF WatchReturns
  <2>2. /\ cache' \in [Readers -> Snapshot \cup {None}] /\ fresh' \in [Readers -> BOOLEAN]
        /\ \A q \in Readers : \/ cache'[q] = cache[q]
                              \/ q = r /\ cache'[q] = reply[q] /\ reply[q] # None
    <3>1. CASE reply[r] = None
      <4>1. cache' = cache /\ fresh' = fresh
        BY <3>1, <1>6 DEF WatchReturns
      <4> QED
        BY <4>1, <1>1 DEF ReaderType
    <3>2. CASE reply[r] # None
      <4>1. PICK s \in Snapshot : s = reply[r]
        BY <3>2, <1>1 DEF ReaderType
      <4>2. Set(r, s)
        BY <3>2, <4>1, <1>6 DEF WatchReturns
      <4>3. /\ cache' \in [Readers -> Snapshot \cup {None}] /\ fresh' \in [Readers -> BOOLEAN]
            /\ \A q \in Readers : cache'[q] = cache[q] \/ (q = r /\ cache'[q] = s)
        BY <4>2, <1>4
      <4> QED
        BY <3>2, <4>1, <4>3
    <3> QED
      BY <3>1, <3>2
  <2>3. ReaderType'
    BY <1>1, <2>1, <2>2 DEF ReaderType
  <2>4. DownIsEmpty'
    BY <1>1, <2>1, <2>2 DEF DownIsEmpty, ReaderType
  <2>5. CacheTold' /\ ReplyTold'
    BY <1>1, <2>1, <2>2 DEF CacheTold, ReplyTold, Told, ReaderType
  <2>6. MailTold' /\ LateTold'
    BY <1>1, <2>1 DEF MailTold, LateTold, Told
  <2> QED
    BY <1>2, <1>3, <2>1, <2>3, <2>4, <2>5, <2>6 DEF StoreInv
<1>7. CASE WatchTimeout(r)
  <2>1. /\ pc' = [pc EXCEPT ![r] = "run"] /\ reply' = [reply EXCEPT ![r] = None]
        /\ stray' = [stray EXCEPT ![r] = @ \/ pc[r] = "asked"]
        /\ UNCHANGED <<store, life, cache, fresh, pushes>>
    BY <1>7 DEF WatchTimeout
  <2>2. ReaderType' /\ DownIsEmpty'
    BY <1>1, <2>1 DEF ReaderType, DownIsEmpty
  <2>3. CacheTold' /\ ReplyTold' /\ MailTold' /\ LateTold'
    BY <1>1, <2>1 DEF CacheTold, ReplyTold, MailTold, LateTold, Told, ReaderType
  <2> QED
    BY <1>2, <1>3, <2>1, <2>2, <2>3 DEF StoreInv
<1>8. CASE Refresh(r)
  <2>1. /\ life[r] = "up" /\ mail[r] # << >> /\ Set(r, Head(mail[r]))
        /\ mail' = [mail EXCEPT ![r] = Tail(@)]
        /\ UNCHANGED <<store, life, pc, reply, stray, late, flush, jumped>>
    BY <1>8 DEF Refresh
  <2>2. mail[r] \in Seq(Snapshot)
    BY <1>1 DEF PushType
  <2>3. /\ Tail(mail[r]) \in Seq(Snapshot) /\ Len(Tail(mail[r])) = Len(mail[r]) - 1
        /\ \A k \in DOMAIN Tail(mail[r]) : k + 1 \in DOMAIN mail[r] /\ Tail(mail[r])[k] = mail[r][k + 1]
        /\ Head(mail[r]) = mail[r][1] /\ 1 \in DOMAIN mail[r] /\ Head(mail[r]) \in Snapshot
    BY <2>1, <2>2
  <2>4. PICK m \in Seq(Snapshot) :
          /\ mail' = [mail EXCEPT ![r] = m] /\ Len(m) <= Mails
          /\ \A k \in DOMAIN m : k + 1 \in DOMAIN mail[r] /\ m[k] = mail[r][k + 1]
    <3>1. Len(Tail(mail[r])) <= Mails
      BY <1>1, <2>2, <2>3, SharedAssumption DEF PushType
    <3> QED
      BY <2>1, <2>3, <3>1
  <2>5. PICK s \in Snapshot : s = mail[r][1] /\ Set(r, s)
    BY <2>1, <2>3
  <2>6. /\ cache' \in [Readers -> Snapshot \cup {None}] /\ fresh' \in [Readers -> BOOLEAN]
        /\ \A q \in Readers : cache'[q] = cache[q] \/ (q = r /\ cache'[q] = s)
    BY <1>4, <2>5
  <2>7. ReaderType' /\ PushType'
    <3>1. ReaderType'
      BY <1>1, <2>1, <2>6 DEF ReaderType
    <3>2. PushType'
      BY <1>1, <2>1, <2>4 DEF PushType
    <3> QED
      BY <3>1, <3>2
  <2>8. DownIsEmpty'
    BY <1>1, <2>1, <2>4, <2>6 DEF DownIsEmpty, PushType
  <2>9. Told(r, s)
    BY <1>1, <2>3, <2>5 DEF MailTold
  <2>10. CacheTold'
    BY <1>1, <2>1, <2>6, <2>9 DEF CacheTold, Told
  <2>11. MailTold'
    BY <1>1, <2>1, <2>4 DEF MailTold, Told, PushType
  <2>12. ReplyTold' /\ LateTold'
    BY <1>1, <2>1 DEF ReplyTold, LateTold, Told
  <2> QED
    BY <1>2, <2>1, <2>7, <2>8, <2>10, <2>11, <2>12 DEF StoreInv
<1>9. CASE Invalidate(r) \/ Expire(r)
  <2>1. /\ \/ cache' = [cache EXCEPT ![r] = None]
           \/ cache' = cache
        /\ fresh' = [fresh EXCEPT ![r] = FALSE]
        /\ UNCHANGED <<store, life, pc, reply, stray, pushes>>
    BY <1>9 DEF Invalidate, Expire
  <2>2. ReaderType' /\ DownIsEmpty'
    BY <1>1, <2>1 DEF ReaderType, DownIsEmpty
  <2>3. CacheTold' /\ ReplyTold' /\ MailTold' /\ LateTold'
    BY <1>1, <2>1 DEF CacheTold, ReplyTold, MailTold, LateTold, Told, ReaderType
  <2> QED
    BY <1>2, <1>3, <2>1, <2>2, <2>3 DEF StoreInv
<1>10. CASE Quit(r)
  <2>1. /\ life[r] = "up" /\ pc[r] = "run" /\ life' = [life EXCEPT ![r] = "idle"]
        /\ cache' = [cache EXCEPT ![r] = None] /\ fresh' = [fresh EXCEPT ![r] = FALSE]
        /\ UNCHANGED <<store, pc, reply, stray, pushes>>
    BY <1>10 DEF Quit
  <2>2. ReaderType' /\ DownIsEmpty'
    BY <1>1, <2>1 DEF ReaderType, DownIsEmpty
  <2>3. CacheTold' /\ ReplyTold' /\ MailTold' /\ LateTold'
    BY <1>1, <2>1 DEF CacheTold, ReplyTold, MailTold, LateTold, Told, ReaderType
  <2> QED
    BY <1>2, <1>3, <2>1, <2>2, <2>3 DEF StoreInv
<1>11. CASE Spawn(r)
  <2>1. life' = [life EXCEPT ![r] = "up"] /\ UNCHANGED <<store, pc, reply, stray, cache, fresh, pushes>>
    BY <1>11 DEF Spawn
  <2>2. ReaderType' /\ DownIsEmpty'
    BY <1>1, <2>1 DEF ReaderType, DownIsEmpty
  <2>3. CacheTold' /\ ReplyTold' /\ MailTold' /\ LateTold'
    BY <1>1, <2>1 DEF CacheTold, ReplyTold, MailTold, LateTold, Told
  <2> QED
    BY <1>2, <1>3, <2>1, <2>2, <2>3 DEF StoreInv
<1>12. CASE Remove(r)
  <2>1. /\ life[r] = "idle" /\ life' = [life EXCEPT ![r] = "gone"]
        /\ mail' = [mail EXCEPT ![r] = << >>]
        /\ UNCHANGED <<store, pc, reply, stray, cache, fresh, late, flush, jumped>>
    BY <1>12 DEF Remove
  <2>2. ReaderType' /\ DownIsEmpty'
    BY <1>1, <2>1 DEF ReaderType, DownIsEmpty, PushType
  <2>3. PushType'
    BY <1>1, <2>1, SharedAssumption DEF PushType
  <2>4. CacheTold' /\ ReplyTold' /\ MailTold' /\ LateTold'
    BY <1>1, <2>1 DEF CacheTold, ReplyTold, MailTold, LateTold, Told, PushType
  <2> QED
    BY <1>2, <2>1, <2>2, <2>3, <2>4 DEF StoreInv
<1>13. CASE Refuse(r)
  <2>1. /\ life[r] = "idle" /\ mail[r] # << >> /\ mail' = [mail EXCEPT ![r] = Tail(@)]
        /\ UNCHANGED <<store, reader, late, flush, jumped>>
    BY <1>13 DEF Refuse
  <2>2. mail[r] \in Seq(Snapshot)
    BY <1>1 DEF PushType
  <2>3. /\ Tail(mail[r]) \in Seq(Snapshot) /\ Len(Tail(mail[r])) = Len(mail[r]) - 1
        /\ \A k \in DOMAIN Tail(mail[r]) : k + 1 \in DOMAIN mail[r] /\ Tail(mail[r])[k] = mail[r][k + 1]
    BY <2>1, <2>2
  <2>4. PICK m \in Seq(Snapshot) :
          /\ mail' = [mail EXCEPT ![r] = m] /\ Len(m) <= Mails
          /\ \A k \in DOMAIN m : k + 1 \in DOMAIN mail[r] /\ m[k] = mail[r][k + 1]
    <3>1. Len(Tail(mail[r])) <= Mails
      BY <1>1, <2>2, <2>3, SharedAssumption DEF PushType
    <3> QED
      BY <2>1, <2>3, <3>1
  <2>5. PushType'
    BY <1>1, <2>1, <2>4 DEF PushType
  <2>6. ReaderType' /\ DownIsEmpty'
    BY <1>1, <2>1, <2>4 DEF ReaderType, DownIsEmpty, PushType
  <2>7. MailTold'
    BY <1>1, <2>1, <2>4 DEF MailTold, Told, PushType
  <2>8. CacheTold' /\ ReplyTold' /\ LateTold'
    BY <1>1, <2>1 DEF CacheTold, ReplyTold, LateTold, Told
  <2> QED
    BY <1>2, <2>1, <2>5, <2>6, <2>7, <2>8 DEF StoreInv
<1> QED
  BY <1>5, <1>6, <1>7, <1>8, <1>9, <1>10, <1>11, <1>12, <1>13 DEF ReaderStep

(* Every step keeps the invariant.                                         *)
LEMMA StoreInvStep == StoreInv /\ [Next]_vars => StoreInv'
<1> SUFFICES ASSUME StoreInv, [Next]_vars PROVE StoreInv'
  OBVIOUS
<1>1. CASE UNCHANGED vars
  <2>1. StoreType' /\ ReaderType' /\ PushType'
    BY <1>1 DEF vars, StoreInv, StoreType, ReaderType, PushType
  <2>2. DownIsEmpty' /\ TimerPublished' /\ CacheTold' /\ ReplyTold' /\ MailTold' /\ LateTold'
    BY <1>1 DEF vars, StoreInv, DownIsEmpty, TimerPublished, CacheTold, ReplyTold, MailTold, LateTold, Told
  <2> QED
    BY <2>1, <2>2 DEF StoreInv
<1>2. CASE Next
  BY <1>2, PublishInv, ForgetInv, RefreshTimerInv, EntryClockInv, SubscribeInv, FlushInv, FlushTimerLostInv,
     ReaderInv, Zenon
     DEF Next, StoreStep
<1> QED
  BY <1>1, <1>2

(* The invariant holds of every reachable state.                           *)
LEMMA StoreInvariance == Spec => []StoreInv
  BY StoreInit, StoreInvStep, PTL DEF Spec

(* Every variable of the store and of its readers keeps its type; no       *)
(* mailbox ever holds more pushes than BufMails.                           *)
THEOREM AlwaysTyped == Spec => []TypeOK
<1>1. StoreInv => TypeOK
  BY DEF StoreInv, TypeOK
<1> QED
  BY <1>1, StoreInvariance, PTL

(* A reader is struck off an entry's list (store.go sendRefresh) only when *)
(* nothing of that entry is left with it.                                  *)
THEOREM AlwaysSubscribed == Spec => []StaysSubscribed
<1>1. StoreInv => StaysSubscribed
  BY DEF StoreInv, CacheTold, ReplyTold, MailTold, LateTold, Told, StaysSubscribed, Reaching
<1> QED
  BY <1>1, StoreInvariance, PTL

(* A reader's snapshot of one entry never goes back (reader.go set).       *)
THEOREM AlwaysForward == Spec => NeverBack
<1>1. StoreInv /\ [Next]_vars
      => [\A r \in Readers :
            (cache[r] # None /\ cache'[r] # None /\ cache'[r].e = cache[r].e)
                => cache'[r].version >= cache[r].version]_vars
  <2> SUFFICES ASSUME StoreInv, Next, NEW r \in Readers,
                      cache[r] # None, cache'[r] # None
               PROVE  cache'[r].version >= cache[r].version
    BY DEF vars
  <2>1. /\ cache \in [Readers -> Snapshot \cup {None}]
        /\ cache[r].version \in Int /\ cache'[r].version \in Int
    BY StoreInvStep, SharedAssumption DEF StoreInv, ReaderType, Snapshot
  <2>2. ASSUME NEW q \in Readers, NEW s, Set(q, s)
        PROVE  cache'[r] = cache[r] \/ cache'[r].version > cache[r].version
    BY <2>1, <2>2 DEF Set, Newer
  <2>3. StoreStep => cache' = cache
    BY Zenon DEF StoreStep, Publish, Unpublish, Sweep, RefreshTimer, RefreshTimerLost,
                   CooldownEnds, Subscribe, Flush, FlushTimerLost
  <2>4. ASSUME NEW q \in Readers, ReaderStep(q)
        PROVE  \/ cache' = cache \/ cache' = [cache EXCEPT ![q] = None]
               \/ \E s : Set(q, s)
    BY <2>4, Zenon DEF ReaderStep, Watch, WatchReturns, WatchTimeout, Refresh, Refuse, Invalidate, Expire,
                       Quit, Remove, Spawn
  <2> QED
    <3>1. CASE cache'[r] = cache[r]
      BY <2>1, <3>1
    <3>2. CASE cache'[r] # cache[r]
      <4>1. PICK q \in Readers : ReaderStep(q)
        BY <2>3, <3>2 DEF Next
      <4>2. PICK s : Set(q, s)
        BY <2>1, <2>4, <3>2, <4>1
      <4> QED
        BY <2>1, <2>2, <3>2, <4>2
    <3> QED
      BY <3>1, <3>2
<1> QED
  BY <1>1, StoreInvariance, PTL DEF Spec, NeverBack
=============================================================================
