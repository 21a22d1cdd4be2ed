------------------------------ MODULE Postpone ------------------------------
(***************************************************************************)
(* The postponed sends of one actor (actor/actor_control.go): APost,       *)
(* APostOnce, ACall, AMulticast and AMulticastOnce to actors whose mailbox *)
(* may be full, the queue of what could not be sent, and the timer that    *)
(* retries it.                                                             *)
(*                                                                         *)
(* The sending actor runs one handler or timer callback at a time; the     *)
(* targets empty their mailboxes meanwhile, also between two sends of one  *)
(* retry.  Messages are numbered in the order in which they are issued.    *)
(***************************************************************************)
EXTENDS Integers, Sequences, FiniteSets, Functions

CONSTANTS
    Targets,   (* the actors sent to                                        *)
    Issues,    (* bound: how many sends the actor makes                     *)
    Capacity,  (* BufMails of a target                                      *)
    OwnMails,  (* BufMails of the sender                                    *)
    MaxBusy,   (* other messages that may wait in the sender's mailbox      *)
    MayQuit,   (* can the sender's context be cleared?                      *)
    MayGo      (* can a target disappear?                                   *)

ASSUME PostponeAssumption ==
    /\ Issues \in Nat
    /\ Capacity \in Nat \ {0}
    /\ OwnMails \in Nat \ {0}
    /\ MaxBusy \in Nat
    /\ MayQuit \in BOOLEAN
    /\ MayGo \in BOOLEAN

VARIABLES
    pc,       (* "idle", "retry", "send" or "reply"                         *)
    why,      (* what the retry is part of, and the targets of a send       *)
    queue,    (* a.postpone                                                 *)
    set,      (* a.postponeSet                                              *)
    list,     (* poseponePost's list, what is left of it                    *)
    kept,     (* poseponePost's newPostpone                                 *)
    timer,    (* the flush timer                                            *)
    armed,    (* is a.postponeTimer non-zero?                               *)
    own,      (* messages in the sender's mailbox, the timer's included     *)
    box,      (* each target's mailbox                                      *)
    alive,    (* is there an actor under the target's id?                   *)
    issued,   (* history: sends made so far                                 *)
    got,      (* history: what each target has taken out of its mailbox     *)
    dropped   (* history: what the sender has given up, with a log entry    *)

control == <<queue, set, list, kept, timer, armed>>
vars == <<pc, why, control, own, box, alive, issued, got, dropped>>

Item == [id : Targets, msg : 1..Issues]
Again == 2   (* how often ACall tries again                                 *)
Purpose == [op : {"post", "once", "call", "timer", "clear"}, ids : SUBSET Targets,
            again : 0..Again]
By(op, ts) == [op |-> op, ids |-> ts, again |-> Again]

ControlType ==
    /\ pc \in {"idle", "retry", "send", "reply"}
    /\ why \in Purpose
    /\ queue \in Seq(Item) /\ list \in Seq(Item) /\ kept \in Seq(Item)
    /\ set \subseteq Targets

TimerType ==
    /\ timer \in {"off", "running", "mailed", "lost"}
    /\ armed \in BOOLEAN
    /\ own \in 0..OwnMails

TargetType ==
    /\ box \in [Targets -> Seq(1..Issues)] /\ \A t \in Targets : Len(box[t]) <= Capacity
    /\ got \in [Targets -> Seq(1..Issues)]
    /\ alive \in [Targets -> BOOLEAN]
    /\ issued \in 0..Issues
    /\ dropped \subseteq Item

(* Every variable has its type.                                            *)
TypeOK == ControlType /\ TimerType /\ TargetType

Init ==
    /\ pc = "idle"
    /\ why = By("timer", {})
    /\ queue = << >> /\ list = << >> /\ kept = << >>
    /\ set = {}
    /\ timer = "off"
    /\ armed = FALSE
    /\ own = 0
    /\ box = [t \in Targets |-> << >>]
    /\ alive = [t \in Targets |-> TRUE]
    /\ issued = 0
    /\ got = [t \in Targets |-> << >>]
    /\ dropped = {}
-----------------------------------------------------------------------------
(* FPost: ActorNotFoundError, ActorBusyError or nil.                       *)
Gone(t) == ~alive[t]
Busy_OneMore(t) == alive[t] /\ Len(box[t]) > Capacity
Busy(t) == alive[t] /\ Len(box[t]) >= Capacity
FPost(t, m) == box' = [box EXCEPT ![t] = Append(@, m)]

(* armPostponeFlush, called with the queue q.                              *)
ArmFlush_FirstOnly(q) ==
    IF ~armed /\ Len(q) = 1
    THEN armed' = TRUE /\ timer' = "running"
    ELSE UNCHANGED <<armed, timer>>

ArmFlush(q) ==
    IF ~armed /\ q # << >>
    THEN armed' = TRUE /\ timer' = "running"
    ELSE UNCHANGED <<armed, timer>>

(* poseponePost begins: the queue, if there is any, becomes the list to go *)
(* through; where control goes afterwards.                                 *)
After(w) == IF w.op \in {"timer", "clear"} THEN "idle" ELSE "send"
BeginRetry(w) ==
    /\ pc' = IF queue = << >> THEN After(w) ELSE "retry"
    /\ why' = w
    /\ list' = queue
    /\ kept' = << >>
    /\ queue' = << >>

(* A handler sends message number issued + 1 to the targets ts: APost or   *)
(* AMulticast, one of their Once forms, or ACall to a single target.       *)
Issue(op, ts) ==
    /\ pc = "idle"
    /\ op = "call" => Cardinality(ts) = 1
    /\ issued < Issues
    /\ issued' = issued + 1
    /\ BeginRetry(By(op, ts))
    /\ UNCHANGED <<set, timer, armed, own, box, alive, got, dropped>>

(* One round of poseponePost's loop.  A target that is still busy keeps    *)
(* its item; any other error loses it.                                     *)
Stays_Always(item) == TRUE
Stays(item) == Busy(item.id)
RetryOne ==
    /\ pc = "retry"
    /\ list # << >>
    /\ list' = Tail(list)
    /\ LET item == Head(list) IN
       /\ kept' = IF Stays(item) THEN Append(kept, item) ELSE kept
       /\ \/ Busy(item.id) /\ UNCHANGED <<box, dropped>>
          \/ Gone(item.id) /\ dropped' = dropped \cup {item} /\ UNCHANGED box
          \/ /\ ~Busy(item.id) /\ ~Gone(item.id)
             /\ FPost(item.id, item.msg)
             /\ UNCHANGED dropped
    /\ UNCHANGED <<pc, why, queue, set, timer, armed, own, alive, issued, got>>

(* The ids of the items that stay.                                         *)
NewSet_Grown(items) == set \cup {i.id : i \in Range(items)}
NewSet(items) == {i.id : i \in Range(items)}

(* poseponePost ends.  A send goes on to its targets, the timer callback   *)
(* arms the timer again, and clear gives up what is left.                  *)
RetryDone ==
    /\ pc = "retry"
    /\ list = << >>
    /\ kept' = << >>
    /\ IF why.op = "clear"
       THEN /\ queue' = << >>
            /\ set' = {}
            /\ dropped' = dropped \cup Range(kept)
            /\ armed' = FALSE
            /\ timer' = "off"
       ELSE /\ queue' = kept
            /\ set' = NewSet(kept)
            /\ UNCHANGED dropped
            /\ IF kept = << >> THEN armed' = FALSE /\ timer' = "off"
               ELSE IF why.op = "timer" THEN ArmFlush(kept)
               ELSE UNCHANGED <<armed, timer>>
    /\ pc' = After(why)
    /\ UNCHANGED <<why, list, own, box, alive, issued, got>>

(* APost and AMulticast: queue behind what is postponed for t, or try t.   *)
MustQueue(t) == t \in set \/ Busy(t)

(* appendPostpone                                                          *)
AppendPostpone(item) ==
    /\ queue' = Append(queue, item)
    /\ set' = set \cup {item.id}
    /\ ArmFlush(queue')

(* One target of APost, AMulticast or their Once forms.                    *)
SendOne(t) ==
    /\ pc = "send"
    /\ why.op # "call"
    /\ t \in why.ids
    /\ why' = [why EXCEPT !.ids = @ \ {t}]
    /\ LET item == [id |-> t, msg |-> issued] IN
       \/ /\ MustQueue(t)
          /\ why.op = "post"
          /\ AppendPostpone(item)
          /\ UNCHANGED <<box, dropped>>
       \/ /\ \/ MustQueue(t) /\ why.op = "once"
             \/ t \notin set /\ Gone(t)
          /\ dropped' = dropped \cup {item}
          /\ UNCHANGED <<queue, set, timer, armed, box>>
       \/ /\ ~MustQueue(t) /\ ~Gone(t)
          /\ FPost(t, issued)
          /\ UNCHANGED <<queue, set, timer, armed, dropped>>
    /\ UNCHANGED <<pc, list, kept, own, alive, issued, got>>

SendDone ==
    /\ pc = "send"
    /\ why.ids = {}
    /\ pc' = "idle"
    /\ UNCHANGED <<why, control, own, box, alive, issued, got, dropped>>

(* ACall tries up to three times, retrying the queue before each, and then *)
(* waits for the reply inside the handler.                                 *)
CallOne(t) ==
    /\ pc = "send"
    /\ why.op = "call"
    /\ t \in why.ids
    /\ \/ /\ MustQueue(t)
          /\ why.again > 0
          /\ BeginRetry([why EXCEPT !.again = @ - 1])
          /\ UNCHANGED <<box, dropped>>
       \/ /\ \/ MustQueue(t) /\ why.again = 0
             \/ t \notin set /\ Gone(t)
          /\ dropped' = dropped \cup {[id |-> t, msg |-> issued]}
          /\ pc' = "idle"
          /\ UNCHANGED <<why, queue, list, kept, box>>
       \/ /\ ~MustQueue(t) /\ ~Gone(t)
          /\ FPost(t, issued)
          /\ pc' = "reply"
          /\ UNCHANGED <<why, queue, list, kept, dropped>>
    /\ UNCHANGED <<set, timer, armed, own, alive, issued, got>>

CallReturns ==
    /\ pc = "reply"
    /\ \A t \in why.ids : issued \in Range(got[t])
    /\ pc' = "idle"
    /\ UNCHANGED <<why, control, own, box, alive, issued, got, dropped>>

(* The flush timer goes off: its message enters the sender's mailbox if    *)
(* there is room.                                                          *)
TimerFires ==
    /\ timer = "running"
    /\ IF own < OwnMails
       THEN timer' = "mailed" /\ own' = own + 1
       ELSE timer' = "lost" /\ UNCHANGED own
    /\ UNCHANGED <<pc, why, queue, set, list, kept, armed, box, alive, issued, got, dropped>>

(* The timer's message is invoked; it does nothing if the timer has been   *)
(* stopped since.                                                          *)
TimerInvoked ==
    /\ pc = "idle"
    /\ timer = "mailed"
    /\ own' = own - 1
    /\ timer' = "off"
    /\ armed' = FALSE
    /\ BeginRetry(By("timer", {}))
    /\ UNCHANGED <<set, box, alive, issued, got, dropped>>

(* Other messages come to the sender and are handled without a send.       *)
OwnArrives ==
    /\ own < OwnMails
    /\ own < MaxBusy
    /\ own' = own + 1
    /\ UNCHANGED <<pc, why, control, box, alive, issued, got, dropped>>

OwnHandled ==
    /\ pc = "idle"
    /\ own > (IF timer = "mailed" THEN 1 ELSE 0)
    /\ own' = own - 1
    /\ UNCHANGED <<pc, why, control, box, alive, issued, got, dropped>>

(* The context is cleared: the timer stops and the queue is tried once     *)
(* more.  The next message begins a new context.                           *)
Clear ==
    /\ MayQuit
    /\ pc = "idle"
    /\ armed' = FALSE
    /\ timer' = "off"
    /\ BeginRetry(By("clear", {}))
    /\ UNCHANGED <<set, own, box, alive, issued, got, dropped>>

(* A target handles a message, disappears with its mailbox empty, or is    *)
(* there again.                                                            *)
TargetTakes(t) ==
    /\ box[t] # << >>
    /\ box' = [box EXCEPT ![t] = Tail(@)]
    /\ got' = [got EXCEPT ![t] = Append(@, Head(box[t]))]
    /\ UNCHANGED <<pc, why, control, own, alive, issued, dropped>>

TargetGoes(t) ==
    /\ MayGo
    /\ box[t] = << >>
    /\ alive' = [alive EXCEPT ![t] = ~@]
    /\ UNCHANGED <<pc, why, control, own, box, issued, got, dropped>>

Handler ==
    \/ \E op \in {"post", "once", "call"}, ts \in (SUBSET Targets) \ {{}} : Issue(op, ts)
    \/ OwnHandled
Loop ==
    \/ RetryOne \/ RetryDone
    \/ \E t \in Targets : SendOne(t) \/ CallOne(t)
    \/ SendDone \/ CallReturns
    \/ TimerInvoked

Next ==
    \/ Handler
    \/ Loop
    \/ TimerFires
    \/ OwnArrives
    \/ Clear
    \/ \E t \in Targets : TargetTakes(t) \/ TargetGoes(t)

Spec == Init /\ [][Next]_vars

(* The sender's run loop, its timer and the targets' run loops go on;      *)
(* nobody has to send again.                                               *)
FairSpec ==
    /\ Spec
    /\ WF_vars(Loop)
    /\ WF_vars(OwnHandled)
    /\ WF_vars(TimerFires)
    /\ \A t \in Targets : WF_vars(TargetTakes(t))
-----------------------------------------------------------------------------
(* Where message m for target t is.                                        *)
Count(s, x) == Cardinality({i \in DOMAIN s : s[i] = x})
Places(t, m) ==
    LET item == [id |-> t, msg |-> m] IN
    Count(queue, item) + Count(list, item) + Count(kept, item)
    + Count(box[t], m) + Count(got[t], m) + (IF item \in dropped THEN 1 ELSE 0)

(* A message is never in two places: no retry sends it twice, and none     *)
(* that was given up or sent stays queued (actor_control.go:308 "the       *)
(* caller must not send it again, or it is duplicated").                   *)
NoDuplicate == \A t \in Targets, m \in 1..Issues : Places(t, m) <= 1

(* postponeSet is the set of ids in the queue whenever a handler may ask   *)
(* it: a stale entry would postpone to an actor for ever, a missing one    *)
(* would let a message overtake.                                           *)
SetExact == pc \in {"idle", "send"} => set = {i.id : i \in Range(queue)}

(* A message that waits in the queue leaves it, though the sender sends    *)
(* nothing more (actor_control.go:27 "so that an actor that sends no       *)
(* messages retries periodically").  It needs room for the timer's message *)
(* in the sender's own mailbox, which OwnMails 4 with MaxBusy 1 leaves in  *)
(* the run: after a lost one postponeTimer stays set and nothing retries.  *)
(* And no other sender fills the targets' mailboxes; the model has none.   *)
PostponeEnds ==
    \A t \in Targets, m \in 1..Issues :
        LET waits == [id |-> t, msg |-> m] \in Range(queue \o list \o kept)
        IN  waits ~> ~waits
=============================================================================
