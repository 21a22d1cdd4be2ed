----------------------------- MODULE Invocation -----------------------------
(***************************************************************************)
(* What travels through one actor's mailbox and what comes back:           *)
(* invocations with their reply channel (actor/invoke.go, Call and         *)
(* SafeCall of actor/manager.go) and timer messages (actor/timer.go, Timer *)
(* and StopTimer of actor/actor_control.go).                               *)
(*                                                                         *)
(* The actor handles one message per step; a caller's timeout, a timer's   *)
(* goroutine and CloseActor fall between any two of them.  Contexts are    *)
(* numbered: each has timers of its own, whose ids start at 1 again.  How  *)
(* messages are gathered in batches, and what retires the actor, is the    *)
(* subject of module ActorGroup.                                           *)
(***************************************************************************)
EXTENDS Integers, Sequences, FiniteSets

CONSTANTS
    Calls,      (* the calls and posts made to the actor                    *)
    Shapes,     (* the forms they may have                                  *)
    MaxTimers,  (* bound: how many timers are started                       *)
    MaxInt,     (* the largest int                                          *)
    Mails       (* BufMails                                                 *)

ASSUME InvocationAssumption ==
    /\ Shapes \subseteq [via : {"post", "call", "safe"}, spawn : BOOLEAN, query : BOOLEAN,
                         result : {"ok", "err", "panic"}]
    /\ MaxTimers \in Nat
    /\ MaxInt \in Nat \ {0, 1}
    /\ Mails \in Nat \ {0}

VARIABLES
    shape,      (* the form of each call                                    *)
    pc,         (* a caller: "idle", "wait" or "done"                       *)
    chan,       (* its reply channel: "empty", "ok", "err" or "closed"      *)
    made,       (* history: has the handler made a reply?                   *)
    owned,      (* history: was the reply returned to the caller?           *)
    closes,     (* history: how often the framework closed the reply        *)
    mailbox,
    ctrl,       (* the ActorControl of the current context                  *)
    contexts,   (* how many contexts there have been                        *)
    timer,      (* every timer started                                      *)
    ended,      (* history: timers stopped, or cleared with their context   *)
    closing,    (* the actor: "no", "asked" to close, or "exited"           *)
    crashed     (* did a panic leave the run loop?                          *)

replies == <<pc, chan, made, owned, closes>>
context == <<ctrl, contexts, timer, ended>>
vars == <<shape, replies, mailbox, context, closing, crashed>>

MinInt == -MaxInt - 1
TimerIds == MinInt..MaxInt
Timers == 1..MaxTimers
CallMsg(c) == <<"call", c>>
TimerMsg(t) == <<"timer", t>>
Messages == {CallMsg(c) : c \in Calls} \cup {TimerMsg(t) : t \in Timers}

(* A new ActorControl; number 0 stands for no context.  timers has the     *)
(* timer of each id, or 0.                                                 *)
NewControl(k) ==
    [ctx |-> k, active |-> FALSE, timers |-> [i \in TimerIds |-> 0], timerId |-> 0]

(* Every variable has its type; the mailbox holds at most BufMails.        *)
ReplyType ==
    /\ shape \in [Calls -> Shapes]
    /\ pc \in [Calls -> {"idle", "wait", "done"}]
    /\ chan \in [Calls -> {"empty", "ok", "err", "closed"}]
    /\ made \in [Calls -> BOOLEAN] /\ owned \in [Calls -> BOOLEAN]
    /\ closes \in [Calls -> 0..2]

MailType == mailbox \in Seq(Messages) /\ Len(mailbox) <= Mails

(* The timers started in the first n contexts; the ActorControl of one of  *)
(* those contexts, or of none, with timers out of the first m.             *)
TimerStates == {"set", "fired", "mailed", "lost", "ran", "over"}
Timer(n) == [id : TimerIds, ctx : 1..n, at : TimerStates]
Control(n, m) ==
    [ctx : 0..n, active : BOOLEAN, timers : [TimerIds -> 0..m], timerId : TimerIds]

ContextType ==
    /\ contexts \in Nat
    /\ timer \in Seq(Timer(contexts))
    /\ ctrl \in Control(contexts, Len(timer)) /\ ctrl.active = (ctrl.ctx # 0)
    /\ ended \subseteq DOMAIN timer

TypeOK ==
    /\ ReplyType /\ MailType /\ ContextType
    /\ closing \in {"no", "asked", "exited"} /\ crashed \in BOOLEAN

Init ==
    /\ shape \in [Calls -> Shapes]
    /\ pc = [c \in Calls |-> "idle"]
    /\ chan = [c \in Calls |-> "empty"]
    /\ made = [c \in Calls |-> FALSE] /\ owned = [c \in Calls |-> FALSE]
    /\ closes = [c \in Calls |-> 0]
    /\ mailbox = << >>
    /\ ctrl = NewControl(0) /\ contexts = 0
    /\ timer = << >> /\ ended = {}
    /\ closing = "no" /\ crashed = FALSE
-----------------------------------------------------------------------------
Full_OneMore == Len(mailbox) > Mails

(* send finds the mailbox full.                                            *)
Full == Len(mailbox) >= Mails

(* The callers.  FCall and SafeFCall put the request in the mailbox, or    *)
(* return the error; a post returns at once.                               *)
Send(c) ==
    /\ pc[c] = "idle"
    /\ IF closing # "no" \/ Full
       THEN pc' = [pc EXCEPT ![c] = "done"] /\ UNCHANGED mailbox
       ELSE /\ pc' = [pc EXCEPT ![c] = IF shape[c].via = "post" THEN "done" ELSE "wait"]
            /\ mailbox' = Append(mailbox, CallMsg(c))
    /\ UNCHANGED <<shape, chan, made, owned, closes, context, closing, crashed>>

(* waitResult and safeResult: the result is there.                         *)
Receive(c) ==
    /\ pc[c] = "wait" /\ chan[c] \in {"ok", "err"}
    /\ pc' = [pc EXCEPT ![c] = "done"]
    /\ chan' = [chan EXCEPT ![c] = "empty"]
    /\ owned' = [owned EXCEPT ![c] = chan[c] = "ok"]
    /\ UNCHANGED <<shape, made, closes, mailbox, context, closing, crashed>>

Drained_Not(c) == closes[c]

(* The framework closes the reply that it finds in the closed channel.     *)
Drained(c) == IF chan[c] = "ok" THEN closes[c] + 1 ELSE closes[c]

(* The caller's context ends: waitResult leaves the channel, safeResult    *)
(* closes and empties it.                                                  *)
Timeout(c) ==
    /\ pc[c] = "wait"
    /\ pc' = [pc EXCEPT ![c] = "done"]
    /\ IF shape[c].via = "safe"
       THEN /\ chan' = [chan EXCEPT ![c] = "closed"]
            /\ closes' = [closes EXCEPT ![c] = Drained(c)]
       ELSE UNCHANGED <<chan, closes>>
    /\ UNCHANGED <<shape, made, owned, mailbox, context, closing, crashed>>

(* CloseActor.                                                             *)
Close ==
    /\ closing = "no"
    /\ closing' = "asked"
    /\ UNCHANGED <<shape, replies, mailbox, context, crashed>>
-----------------------------------------------------------------------------
(* The reply.  Invoke has the panic of a send on a closed channel          *)
(* recovered, and closes the reply, if there is one; without one the panic *)
(* reaches invokeBatch, whose recovery sends on the same channel by Fail,  *)
(* so that the next panic ends the process.                                *)
Answer(c, res) ==
    /\ made' = [made EXCEPT ![c] = @ \/ res = "ok"]
    /\ chan' = IF shape[c].via = "post" \/ chan[c] = "closed" THEN chan
               ELSE [chan EXCEPT ![c] = res]
    /\ closes' = [closes EXCEPT ![c] = IF chan[c] = "closed" /\ res = "ok" THEN @ + 1 ELSE @]
    /\ crashed' = (chan[c] = "closed" /\ res # "ok")
    /\ UNCHANGED <<pc, owned>>

Refuse_Silently(c) == UNCHANGED <<replies, crashed>>

(* Allow answers what it refuses, and Fail what the closed actor drops.    *)
Refuse(c) == Answer(c, "err")

(* The first id from s on that is free among the timers, 1 following on    *)
(* MaxInt; s itself if none is.                                            *)
Least(S) == CHOOSE i \in S : \A j \in S : i <= j
FirstFree(tms, s) ==
    LET ahead == {i \in s..MaxInt : tms[i] = 0}
        wrapped == {i \in 1..(s - 1) : tms[i] = 0}
    IN  CASE ahead # {} -> Least(ahead)
          [] ahead = {} /\ wrapped # {} -> Least(wrapped)
          [] OTHER -> s

FirstId(a) ==
    CASE a.timerId = MaxInt -> MinInt
      [] a.timerId + 1 = MaxInt -> 1
      [] OTHER -> a.timerId + 1

NewId_NoProbe(a) == FirstId(a)

(* Timer's id: it starts to look at timerId + 1, or at 1 where that is     *)
(* MaxInt.  A search that ended at MaxInt lets the next one overflow.      *)
NewId(a) == FirstFree(a.timers, FirstId(a))

(* Timer.Stop keeps a timer that has not fired from firing.                *)
Stopped(all, ts) ==
    [t \in DOMAIN all |-> IF t \in ts /\ all[t].at = "set" THEN [all[t] EXCEPT !.at = "over"]
                          ELSE all[t]]

(* After a message a context that is not active is cleared, with all its   *)
(* timers.                                                                 *)
Settle(a, all, gone) ==
    LET left == {a.timers[i] : i \in TimerIds} \ {0}
    IN  IF a.active
        THEN ctrl' = a /\ timer' = all /\ ended' = gone
        ELSE ctrl' = NewControl(0) /\ timer' = Stopped(all, left) /\ ended' = gone \cup left

(* What a handler or a callback may do to its ActorControl: Open or Quit,  *)
(* and start a timer, stop one, or neither.                                *)
Handle(a, all) ==
    \E on \in BOOLEAN :
        \/ Settle([a EXCEPT !.active = on], all, ended)
        \/ /\ Len(all) < MaxTimers
           /\ Settle([a EXCEPT !.active = on, !.timers[NewId(a)] = Len(all) + 1, !.timerId = NewId(a)],
                     Append(all, [id |-> NewId(a), ctx |-> a.ctx, at |-> "set"]), ended)
        \/ \E i \in TimerIds :
              /\ a.timers[i] # 0
              /\ Settle([a EXCEPT !.active = on, !.timers[i] = 0],
                        Stopped(all, {a.timers[i]}), ended \cup {a.timers[i]})

Allowed(c) == IF ctrl.ctx = 0 THEN shape[c].spawn ELSE shape[c].query

(* The next message is a request: refused, or handled in the context there *)
(* is or in a new one.                                                     *)
InvokeRefused(c) ==
    /\ closing # "exited" /\ mailbox # << >> /\ Head(mailbox) = CallMsg(c)
    /\ ~Allowed(c)
    /\ Refuse(c)
    /\ mailbox' = Tail(mailbox)
    /\ UNCHANGED <<shape, context, closing>>

Invoke(c) ==
    /\ closing # "exited" /\ mailbox # << >> /\ Head(mailbox) = CallMsg(c)
    /\ Allowed(c)
    /\ Answer(c, IF shape[c].result = "ok" THEN "ok" ELSE "err")
    /\ mailbox' = Tail(mailbox)
    /\ LET a == IF ctrl.ctx = 0 THEN NewControl(contexts + 1) ELSE ctrl
       IN  Handle(a, timer) /\ contexts' = IF ctrl.ctx = 0 THEN contexts + 1 ELSE contexts
    /\ UNCHANGED <<shape, closing>>

IsCurrent_ById(t) == ctrl.ctx # 0 /\ ctrl.timers[timer[t].id] # 0

(* A timer's message runs the callback only if the context there is has    *)
(* this very timer under its id.                                           *)
IsCurrent(t) == ctrl.ctx # 0 /\ ctrl.timers[timer[t].id] = t

TimerIgnored(t) ==
    /\ closing # "exited" /\ mailbox # << >> /\ Head(mailbox) = TimerMsg(t)
    /\ ~IsCurrent(t)
    /\ timer' = [timer EXCEPT ![t].at = "over"]
    /\ mailbox' = Tail(mailbox)
    /\ UNCHANGED <<shape, replies, ctrl, contexts, ended, closing, crashed>>

TimerInvoke(t) ==
    /\ closing # "exited" /\ mailbox # << >> /\ Head(mailbox) = TimerMsg(t)
    /\ IsCurrent(t)
    /\ Handle([ctrl EXCEPT !.timers[timer[t].id] = 0], [timer EXCEPT ![t].at = "ran"])
    /\ mailbox' = Tail(mailbox)
    /\ UNCHANGED <<shape, replies, contexts, closing, crashed>>

(* The run loop of a closed actor: it may go on with the messages it has   *)
(* already taken, clears its context, and fails what is left.              *)
Exit ==
    /\ closing = "asked"
    /\ closing' = "exited"
    /\ Settle([ctrl EXCEPT !.active = FALSE], timer, ended)
    /\ UNCHANGED <<shape, replies, mailbox, contexts, crashed>>

Drain ==
    /\ closing = "exited" /\ mailbox # << >>
    /\ mailbox' = Tail(mailbox)
    /\ \/ \E c \in Calls : Head(mailbox) = CallMsg(c) /\ Refuse(c) /\ UNCHANGED timer
       \/ \E t \in Timers : /\ Head(mailbox) = TimerMsg(t)
                            /\ timer' = [timer EXCEPT ![t].at = "over"]
                            /\ UNCHANGED <<replies, crashed>>
    /\ UNCHANGED <<shape, ctrl, contexts, ended, closing>>

(* A timer goes off; its goroutine then sends its message, unless the      *)
(* actor is closed or its mailbox is full.                                 *)
Fire(t) ==
    /\ t \in DOMAIN timer /\ timer[t].at = "set"
    /\ timer' = [timer EXCEPT ![t].at = "fired"]
    /\ UNCHANGED <<shape, replies, mailbox, ctrl, contexts, ended, closing, crashed>>

TimerSend(t) ==
    /\ t \in DOMAIN timer /\ timer[t].at = "fired"
    /\ IF closing # "no" \/ Full
       THEN timer' = [timer EXCEPT ![t].at = "lost"] /\ UNCHANGED mailbox
       ELSE timer' = [timer EXCEPT ![t].at = "mailed"] /\ mailbox' = Append(mailbox, TimerMsg(t))
    /\ UNCHANGED <<shape, replies, ctrl, contexts, ended, closing, crashed>>
-----------------------------------------------------------------------------
RunStep ==
    \/ \E c \in Calls : InvokeRefused(c) \/ Invoke(c)
    \/ \E t \in Timers : TimerIgnored(t) \/ TimerInvoke(t)
    \/ Exit \/ Drain

Next ==
    /\ ~crashed
    /\ \/ \E c \in Calls : Send(c) \/ Receive(c) \/ Timeout(c)
       \/ \E t \in Timers : Fire(t) \/ TimerSend(t)
       \/ Close \/ RunStep

Spec == Init /\ [][Next]_vars
-----------------------------------------------------------------------------
(* "The framework guarantees that a reply the caller cannot get is closed" *)
(* (types.go, SafeReply), and never a second time: once the handler has    *)
(* made a reply and SafeCall has returned, whichever came first, either    *)
(* the caller has it or the framework has closed it once.  A handler that  *)
(* panics has made no reply: types.go:49 and manager.go:217-219 say that   *)
(* the recovery closes one, but Invoke's has none at hand and closes       *)
(* nothing.                                                                *)
ReplyOnce ==
    \A c \in Calls :
        shape[c].via = "safe" =>
            /\ closes[c] + (IF owned[c] THEN 1 ELSE 0) <= 1
            /\ made[c] /\ pc[c] = "done" => closes[c] + (IF owned[c] THEN 1 ELSE 0) = 1

(* Nothing but StopTimer and the end of the context takes a timer out of   *)
(* the map before it runs: a timer started later never takes its id, not   *)
(* when the ids begin again at 1 (actor_control.go Timer).  Its message is *)
(* recognised for as long as it may come.                                  *)
TimerKept ==
    \A t \in DOMAIN timer :
        timer[t].at \in {"set", "fired", "mailed"} /\ t \notin ended
            => ctrl.ctx = timer[t].ctx /\ ctrl.timers[timer[t].id] = t

(* A callback runs only in the context that started it, and never after    *)
(* StopTimer, although its message may be in the mailbox by then, and a    *)
(* timer of the next context may have the same id (timer.go Invoke).       *)
RunsInOwnContext ==
    [][\A t \in DOMAIN timer :
         timer'[t].at = "ran" /\ timer[t].at # "ran"
             => t \notin ended /\ timer[t].ctx = ctrl.ctx]_vars

(* A caller never waits in vain, even if its context has no deadline: its  *)
(* request is in the mailbox or its answer in the channel, whether the     *)
(* actor handles, refuses or fails the request, panics, or closes.         *)
NeverForgotten ==
    \A c \in Calls :
        pc[c] = "wait" /\ ~crashed
            => chan[c] \in {"ok", "err"} \/ \E i \in DOMAIN mailbox : mailbox[i] = CallMsg(c)

(* The actor outlives its callers' timeouts and its handlers' errors:      *)
(* SafeCall's "error handling is that of Call" (manager.go), and a panic   *)
(* "does not destroy the actor" (actor.go invokeBatch).                    *)
NoCrash == ~crashed
=============================================================================
