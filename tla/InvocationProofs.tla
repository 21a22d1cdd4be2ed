-------------------------- MODULE InvocationProofs --------------------------
(***************************************************************************)
(* Proofs about Invocation, for any calls, any number of timers and any    *)
(* width of int.  The replies and the timers are apart: the first half is  *)
(* about a call's way from the mailbox to its channel, the second about    *)
(* the timer map of the context there is.                                  *)
(***************************************************************************)
EXTENDS Invocation, FiniteSetTheorems, SequenceTheorems, NaturalsInduction, WellFoundedInduction, TLAPS

(* m is somewhere in s; it is there at most once.                          *)
Within(m, s) == \E i \in 1..Len(s) : s[i] = m
Single(m, s) == \A i, j \in 1..Len(s) : s[i] = m /\ s[j] = m => i = j

(* A request is sent once, and answered when it leaves the mailbox: until  *)
(* then no reply is made, and only a SafeCall's timeout may have closed    *)
(* the channel.                                                            *)
Sent(c) ==
    /\ Single(CallMsg(c), mailbox)
    /\ pc[c] = "idle" => ~Within(CallMsg(c), mailbox) /\ ~made[c] /\ chan[c] = "empty"
    /\ Within(CallMsg(c), mailbox) => ~made[c] /\ chan[c] \in {"empty", "closed"}
    /\ chan[c] = "ok" => made[c]
    /\ shape[c].via = "post" => pc[c] # "wait"
    /\ shape[c].via # "safe" => chan[c] # "closed" /\ closes[c] = 0

(* The reply of a SafeCall is in the channel as long as the caller waits;  *)
(* it has one owner from then on.                                          *)
Owner(c) ==
    IF pc[c] = "done"
    THEN /\ chan[c] \in {"empty", "closed"}
         /\ chan[c] = "empty" => ~Within(CallMsg(c), mailbox)
         /\ made[c] => closes[c] = (IF owned[c] THEN 0 ELSE 1)
         /\ ~made[c] => closes[c] = 0 /\ ~owned[c]
    ELSE /\ chan[c] # "closed" /\ (made[c] => chan[c] = "ok")
         /\ closes[c] = 0 /\ ~owned[c]

(* A caller that waits will find its answer, or its request is still to be *)
(* handled.                                                                *)
Expected(c) ==
    pc[c] = "wait" /\ ~crashed =>
        chan[c] \in {"ok", "err"} \/ Within(CallMsg(c), mailbox)

CallInv(c) == Sent(c) /\ (shape[c].via = "safe" => Owner(c)) /\ Expected(c)

ReplyInv ==
    /\ ReplyType /\ MailType /\ crashed \in BOOLEAN
    /\ \A c \in Calls : CallInv(c)

(* The timer map a.timers of a context among the first n, the timers       *)
(* started, and those that are gone: the map has each timer under the id   *)
(* it was given, and only timers of this context that are not gone.        *)
Tracks(a, all, gone, n) ==
    /\ all \in Seq(Timer(n)) /\ a \in Control(n, Len(all)) /\ gone \subseteq DOMAIN all
    /\ \A i \in TimerIds :
          a.timers[i] # 0 => /\ all[a.timers[i]].id = i
                            /\ all[a.timers[i]].ctx = a.ctx
                            /\ a.timers[i] \notin gone

(* It has all that may still run.                                          *)
Keeps(a, all, gone) ==
    \A t \in DOMAIN all :
        all[t].at \in {"set", "fired", "mailed"} /\ t \notin gone
            => a.ctx = all[t].ctx /\ a.timers[all[t].id] = t

(* Timer messages are those of timers that were started.                   *)
Started == \A t \in Timers : Within(TimerMsg(t), mailbox) => t \in DOMAIN timer

TimerInv ==
    /\ contexts \in Nat /\ closing \in {"no", "asked", "exited"}
    /\ Tracks(ctrl, timer, ended, contexts) /\ ctrl.active = (ctrl.ctx # 0)
    /\ Started
-----------------------------------------------------------------------------
(* The mailbox.                                                            *)
LEMMA WithinAppend ==
    ASSUME NEW S, NEW s \in Seq(S), NEW m \in S, NEW x
    PROVE  /\ Append(s, m) \in Seq(S) /\ Len(Append(s, m)) = Len(s) + 1
           /\ Within(x, Append(s, m)) <=> Within(x, s) \/ x = m
           /\ Single(x, s) /\ ~(x = m /\ Within(x, s)) => Single(x, Append(s, m))
<1> DEFINE a == Append(s, m)
           n == Len(s) + 1
<1>1. Len(s) \in Nat
  BY LenProperties
<1>2. a \in Seq(S) /\ Len(a) = n /\ (\A i \in 1..Len(s) : a[i] = s[i]) /\ a[n] = m
  BY AppendProperties
<1> HIDE DEF a
<1>3. \A i \in 1..n : i \in 1..Len(s) \/ i = n
  BY <1>1
<1>4. 1..Len(s) \subseteq 1..n /\ n \in 1..n
  BY <1>1
<1>5. Within(x, a) <=> Within(x, s) \/ x = m
  BY <1>2, <1>3, <1>4 DEF Within
<1>6. ASSUME Single(x, s), ~(x = m /\ Within(x, s))
      PROVE  Single(x, a)
  BY <1>2, <1>3, <1>4, <1>6 DEF Single, Within
<1> QED
  BY <1>2, <1>5, <1>6 DEF a

LEMMA WithinTail ==
    ASSUME NEW S, NEW s \in Seq(S), s # << >>, NEW x
    PROVE  /\ Tail(s) \in Seq(S) /\ Len(Tail(s)) = Len(s) - 1
           /\ Within(Head(s), s)
           /\ Within(x, Tail(s)) => Within(x, s)
           /\ Within(x, s) => x = Head(s) \/ Within(x, Tail(s))
           /\ Single(x, s) => Single(x, Tail(s))
           /\ Single(x, s) /\ x = Head(s) => ~Within(x, Tail(s))
<1> DEFINE n == Len(s)
           a == Tail(s)
<1>1. n \in Nat \ {0}
  BY LenProperties, EmptySeq
<1>2. a \in Seq(S) /\ Len(a) = n - 1 /\ (\A i \in 1..(n - 1) : a[i] = s[i + 1]) /\ Head(s) = s[1]
  BY HeadTailProperties
<1> HIDE DEF a, n
<1>3. 1 \in 1..n /\ \A i \in 1..(n - 1) : i + 1 \in 1..n /\ i + 1 # 1
  BY <1>1
<1>4. \A i \in 1..n : i = 1 \/ (i - 1 \in 1..(n - 1) /\ s[i] = a[i - 1])
  <2> TAKE i \in 1..n
  <2>1. i = 1 \/ (i - 1 \in 1..(n - 1) /\ (i - 1) + 1 = i)
    BY <1>1
  <2> QED
    BY <1>2, <2>1
<1>5. Within(Head(s), s) /\ (Within(x, s) <=> \E i \in 1..n : s[i] = x)
  BY <1>2, <1>3 DEF Within, n
<1>6. Within(x, a) <=> \E i \in 1..(n - 1) : a[i] = x
  BY <1>2 DEF Within
<1>7. Within(x, a) => Within(x, s)
  BY <1>2, <1>3, <1>5, <1>6
<1>8. Within(x, s) => x = Head(s) \/ Within(x, a)
  BY <1>2, <1>4, <1>5, <1>6
<1>9. ASSUME Single(x, s)
      PROVE  Single(x, a) /\ (x = Head(s) => ~Within(x, a))
  <2>1. \A i, j \in 1..n : s[i] = x /\ s[j] = x => i = j
    BY <1>9 DEF Single, n
  <2>2. \A i, j \in 1..(n - 1) : i + 1 = j + 1 => i = j
    BY <1>1
  <2>3. Single(x, a)
    BY <1>2, <1>3, <2>1, <2>2 DEF Single
  <2>4. x = Head(s) => ~Within(x, a)
    BY <1>2, <1>3, <1>6, <2>1
  <2> QED
    BY <2>3, <2>4
<1> QED
  BY <1>2, <1>5, <1>7, <1>8, <1>9 DEF a, n

(* A call with which nothing happened.                                     *)
LEMMA CallAside ==
    ASSUME NEW d \in Calls, CallInv(d), ~crashed, shape' = shape,
           pc'[d] = pc[d], chan'[d] = chan[d], made'[d] = made[d],
           owned'[d] = owned[d], closes'[d] = closes[d],
           Single(CallMsg(d), mailbox'),
           Within(CallMsg(d), mailbox') <=> Within(CallMsg(d), mailbox)
    PROVE  CallInv(d)'
<1>1. Sent(d)'
  BY DEF CallInv, Sent
<1>2. Owner(d) => Owner(d)'
  BY DEF Owner
<1>3. Expected(d)'
  BY DEF CallInv, Expected
<1> QED
  BY <1>1, <1>2, <1>3 DEF CallInv

(* The mailbox never has more than BufMails.                               *)
LEMMA MailKept ==
    ASSUME MailType,
           \/ mailbox # << >> /\ mailbox' = Tail(mailbox)
           \/ ~Full /\ \E m \in Messages : mailbox' = Append(mailbox, m)
    PROVE  MailType'
<1>1. mailbox \in Seq(Messages) /\ Len(mailbox) <= Mails /\ Len(mailbox) \in Nat
  BY LenProperties DEF MailType
<1>2. CASE mailbox # << >> /\ mailbox' = Tail(mailbox)
  <2>1. mailbox' \in Seq(Messages) /\ Len(mailbox') = Len(mailbox) - 1
    BY <1>1, <1>2, WithinTail
  <2> QED
    BY <1>1, <2>1, InvocationAssumption DEF MailType
<1>3. CASE ~Full /\ \E m \in Messages : mailbox' = Append(mailbox, m)
  <2>1. mailbox' \in Seq(Messages) /\ Len(mailbox') = Len(mailbox) + 1
    BY <1>1, <1>3, WithinAppend
  <2> QED
    BY <1>1, <1>3, <2>1, InvocationAssumption DEF MailType, Full
<1> QED
  BY <1>2, <1>3

(* A message taken from the mailbox, or put into it, matters to its own    *)
(* call only.                                                              *)
LEMMA MailTaken ==
    ASSUME ReplyInv, mailbox # << >>, mailbox' = Tail(mailbox), NEW d \in Calls
    PROVE  /\ Single(CallMsg(d), mailbox')
           /\ Within(CallMsg(d), mailbox') => Within(CallMsg(d), mailbox)
           /\ Head(mailbox) # CallMsg(d) =>
                (Within(CallMsg(d), mailbox) => Within(CallMsg(d), mailbox'))
           /\ Head(mailbox) = CallMsg(d) =>
                Within(CallMsg(d), mailbox) /\ ~Within(CallMsg(d), mailbox')
<1>1. mailbox \in Seq(Messages) /\ Single(CallMsg(d), mailbox)
  BY DEF ReplyInv, MailType, CallInv, Sent
<1> QED
  BY <1>1, WithinTail

LEMMA MailSent ==
    ASSUME ReplyInv, NEW m \in Messages, mailbox' = Append(mailbox, m), NEW d \in Calls
    PROVE  /\ m = CallMsg(d) => Within(CallMsg(d), mailbox')
           /\ m # CallMsg(d) => (Within(CallMsg(d), mailbox') <=> Within(CallMsg(d), mailbox))
           /\ ~(m = CallMsg(d) /\ Within(CallMsg(d), mailbox)) => Single(CallMsg(d), mailbox')
<1>1. mailbox \in Seq(Messages) /\ Single(CallMsg(d), mailbox)
  BY DEF ReplyInv, MailType, CallInv, Sent
<1> QED
  BY <1>1, WithinAppend

LEMMA MessagesApart ==
    /\ \A c, d \in Calls : CallMsg(c) = CallMsg(d) => c = d
    /\ \A t, u \in Timers : TimerMsg(t) = TimerMsg(u) => t = u
    /\ \A c \in Calls, t \in Timers : CallMsg(c) # TimerMsg(t)
    /\ \A c \in Calls : CallMsg(c) \in Messages
    /\ \A t \in Timers : TimerMsg(t) \in Messages
BY DEF CallMsg, TimerMsg, Messages
-----------------------------------------------------------------------------
(* The replies.                                                            *)
LEMMA ReplyInit == Init => ReplyInv
<1> SUFFICES ASSUME Init PROVE ReplyInv
  OBVIOUS
<1>1. ReplyType /\ crashed \in BOOLEAN
  <2>1. 0 \in 0..2
    OBVIOUS
  <2> QED
    BY <2>1, Zenon DEF Init, ReplyType
<1>2. MailType
  BY InvocationAssumption, EmptySeq DEF Init, MailType
<1>3. \A m : ~Within(m, mailbox) /\ Single(m, mailbox)
  BY DEF Init, Within, Single
<1>4. \A c \in Calls : Sent(c) /\ Owner(c) /\ Expected(c)
  BY <1>3 DEF Init, Sent, Owner, Expected
<1> QED
  BY <1>1, <1>2, <1>4 DEF ReplyInv, CallInv

LEMMA ReplySend ==
    ASSUME ReplyInv, ~crashed, NEW c \in Calls, Send(c)
    PROVE  ReplyInv'
<1>1. ReplyType' /\ crashed' = crashed
  BY DEF ReplyInv, ReplyType, Send
<1>2. shape' = shape /\ chan' = chan /\ made' = made /\ owned' = owned /\ closes' = closes
  BY DEF Send
<1>3. pc[c] = "idle" /\ pc \in [Calls -> {"idle", "wait", "done"}]
  BY DEF ReplyInv, ReplyType, Send
<1>4. ~Within(CallMsg(c), mailbox) /\ ~made[c] /\ chan[c] = "empty" /\ Sent(c)
  BY <1>3 DEF ReplyInv, CallInv, Sent
<1>5. shape[c].via = "safe" => closes[c] = 0 /\ ~owned[c]
  BY <1>3 DEF ReplyInv, CallInv, Owner
<1>6. CASE closing # "no" \/ Full
  <2>1. mailbox' = mailbox /\ pc' = [pc EXCEPT ![c] = "done"]
    BY <1>6 DEF Send
  <2>2. MailType'
    BY <2>1 DEF ReplyInv, MailType
  <2>3. CallInv(c)'
    BY <1>2, <1>3, <1>4, <1>5, <2>1 DEF CallInv, Sent, Owner, Expected
  <2>4. \A d \in Calls : d # c => CallInv(d)'
    <3> SUFFICES ASSUME NEW d \in Calls, d # c PROVE CallInv(d)'
      OBVIOUS
    <3>1. CallInv(d) /\ pc'[d] = pc[d]
      BY <1>3, <2>1 DEF ReplyInv
    <3>2. Single(CallMsg(d), mailbox)
      BY <3>1 DEF CallInv, Sent
    <3> QED
      BY <1>2, <2>1, <3>1, <3>2, CallAside
  <2> QED
    BY <1>1, <2>2, <2>3, <2>4 DEF ReplyInv
<1>7. CASE ~(closing # "no" \/ Full)
  <2>1. /\ mailbox' = Append(mailbox, CallMsg(c))
        /\ pc' = [pc EXCEPT ![c] = IF shape[c].via = "post" THEN "done" ELSE "wait"]
    BY <1>7 DEF Send
  <2>2. CallMsg(c) \in Messages
    BY MessagesApart
  <2>3. Within(CallMsg(c), mailbox') /\ Single(CallMsg(c), mailbox')
    BY <1>4, <2>1, <2>2, MailSent
  <2>4. MailType'
    BY <1>7, <2>1, <2>2, MailKept DEF ReplyInv
  <2>5. CallInv(c)'
    BY <1>2, <1>3, <1>4, <1>5, <2>1, <2>3 DEF CallInv, Sent, Owner, Expected
  <2>6. \A d \in Calls : d # c => CallInv(d)'
    <3> SUFFICES ASSUME NEW d \in Calls, d # c PROVE CallInv(d)'
      OBVIOUS
    <3>1. CallInv(d) /\ pc'[d] = pc[d]
      BY <1>3, <2>1 DEF ReplyInv
    <3>2. CallMsg(c) # CallMsg(d)
      BY MessagesApart
    <3>3. /\ Single(CallMsg(d), mailbox')
          /\ Within(CallMsg(d), mailbox') <=> Within(CallMsg(d), mailbox)
      BY <2>1, <2>2, <3>2, MailSent
    <3> QED
      BY <1>2, <3>1, <3>3, CallAside
  <2> QED
    BY <1>1, <2>5, <2>6, <2>4 DEF ReplyInv
<1> QED
  BY <1>6, <1>7

(* Steps of one caller that leave the mailbox alone.                       *)
LEMMA ReplyCaller ==
    ASSUME ReplyInv, ~crashed, NEW c \in Calls, Receive(c) \/ Timeout(c)
    PROVE  ReplyInv'
<1>1. /\ shape' = shape /\ made' = made /\ mailbox' = mailbox /\ crashed' = crashed
      /\ pc[c] = "wait" /\ pc' = [pc EXCEPT ![c] = "done"]
  BY DEF Receive, Timeout
<1>2. ReplyType /\ MailType' /\ crashed' \in BOOLEAN
  BY <1>1 DEF ReplyInv, MailType
<1>3. Sent(c) /\ (shape[c].via = "safe" => Owner(c))
  BY DEF ReplyInv, CallInv
<1>4. ReplyType' /\ CallInv(c)'
  <2>1. CASE Receive(c)
    <3>1. /\ chan[c] \in {"ok", "err"} /\ chan' = [chan EXCEPT ![c] = "empty"]
          /\ owned' = [owned EXCEPT ![c] = chan[c] = "ok"] /\ closes' = closes
      BY <2>1 DEF Receive
    <3>2. ReplyType'
      BY <1>1, <1>2, <3>1 DEF ReplyType
    <3>3. /\ pc'[c] = "done" /\ chan'[c] = "empty" /\ owned'[c] = (chan[c] = "ok")
          /\ ~Within(CallMsg(c), mailbox)
      BY <1>1, <1>2, <1>3, <3>1 DEF ReplyType, Sent
    <3>4. Sent(c)'
      BY <1>1, <1>3, <3>1, <3>3 DEF Sent
    <3>5. ASSUME shape[c].via = "safe" PROVE Owner(c)'
      <4>1. made[c] <=> chan[c] = "ok"
        BY <1>1, <1>3, <3>5 DEF Sent, Owner
      <4> QED
        BY <1>1, <1>3, <3>1, <3>3, <3>5, <4>1 DEF Owner
    <3> QED
      BY <1>1, <3>2, <3>3, <3>4, <3>5 DEF CallInv, Expected
  <2>2. CASE Timeout(c) /\ shape[c].via # "safe"
    <3>1. chan' = chan /\ owned' = owned /\ closes' = closes
      BY <2>2 DEF Timeout
    <3>2. ReplyType'
      BY <1>1, <1>2, <3>1 DEF ReplyType
    <3>3. pc'[c] = "done"
      BY <1>1, <1>2 DEF ReplyType
    <3> QED
      BY <1>1, <1>3, <2>2, <3>1, <3>2, <3>3 DEF CallInv, Sent, Expected
  <2>3. CASE Timeout(c) /\ shape[c].via = "safe"
    <3>1. /\ chan' = [chan EXCEPT ![c] = "closed"] /\ owned' = owned
          /\ closes' = [closes EXCEPT ![c] = IF chan[c] = "ok" THEN closes[c] + 1 ELSE closes[c]]
      BY <2>3 DEF Timeout, Drained
    <3>2. closes[c] = 0 /\ ~owned[c] /\ (made[c] <=> chan[c] = "ok")
      BY <1>1, <1>3, <2>3 DEF Sent, Owner
    <3>3. ReplyType'
      <4>1. (IF chan[c] = "ok" THEN closes[c] + 1 ELSE closes[c]) \in 0..2
        BY <3>2
      <4> QED
        BY <1>1, <1>2, <3>1, <4>1 DEF ReplyType
    <3>4. pc'[c] = "done" /\ chan'[c] = "closed" /\ closes'[c] = IF made[c] THEN 1 ELSE 0
      BY <1>1, <1>2, <3>1, <3>2 DEF ReplyType
    <3> QED
      BY <1>1, <1>3, <2>3, <3>1, <3>2, <3>3, <3>4 DEF CallInv, Sent, Owner, Expected
  <2> QED
    BY <2>1, <2>2, <2>3
<1>5. \A d \in Calls : d # c => CallInv(d)'
  <2> SUFFICES ASSUME NEW d \in Calls, d # c PROVE CallInv(d)'
    OBVIOUS
  <2>1. /\ pc'[d] = pc[d] /\ chan'[d] = chan[d] /\ made'[d] = made[d]
        /\ owned'[d] = owned[d] /\ closes'[d] = closes[d]
    BY <1>2 DEF ReplyType, Receive, Timeout
  <2>2. CallInv(d) /\ Single(CallMsg(d), mailbox)
    BY DEF ReplyInv, CallInv, Sent
  <2> QED
    BY <1>1, <2>1, <2>2, CallAside
<1> QED
  BY <1>2, <1>4, <1>5 DEF ReplyInv

(* The request at the head of the mailbox is answered.                     *)
LEMMA ReplyAnswer ==
    ASSUME ReplyInv, ~crashed, NEW c \in Calls, NEW res \in {"ok", "err"},
           mailbox # << >>, Head(mailbox) = CallMsg(c), mailbox' = Tail(mailbox),
           Answer(c, res), shape' = shape
    PROVE  ReplyInv'
<1>1. /\ Single(CallMsg(c), mailbox')
      /\ Within(CallMsg(c), mailbox) /\ ~Within(CallMsg(c), mailbox')
  BY MailTaken
<1>2. /\ ReplyType /\ Sent(c) /\ (shape[c].via = "safe" => Owner(c))
      /\ ~made[c] /\ chan[c] \in {"empty", "closed"} /\ pc[c] # "idle"
  BY <1>1 DEF ReplyInv, CallInv, Sent
<1>3. pc' = pc /\ owned' = owned /\ crashed' = (chan[c] = "closed" /\ res # "ok")
  BY DEF Answer
<1>4. made'[c] = (res = "ok") /\ made' \in [Calls -> BOOLEAN]
  BY <1>2 DEF Answer, ReplyType
<1>5. /\ shape[c].via = "post" \/ chan[c] = "closed" => chan' = chan
      /\ shape[c].via # "post" /\ chan[c] # "closed" => chan'[c] = res
      /\ chan' \in [Calls -> {"empty", "ok", "err", "closed"}]
  BY <1>2 DEF Answer, ReplyType
<1>6. closes[c] = 0 /\ ~(shape[c].via = "safe" /\ owned[c])
  BY <1>2 DEF Sent, Owner
<1>7. /\ closes'[c] = (IF chan[c] = "closed" /\ res = "ok" THEN 1 ELSE 0)
      /\ closes' \in [Calls -> 0..2]
  <2> DEFINE k == IF chan[c] = "closed" /\ res = "ok" THEN closes[c] + 1 ELSE closes[c]
  <2>1. k = (IF chan[c] = "closed" /\ res = "ok" THEN 1 ELSE 0) /\ k \in 0..2
    BY <1>6
  <2>2. closes' = [closes EXCEPT ![c] = k] /\ closes \in [Calls -> 0..2]
    BY <1>2 DEF Answer, ReplyType
  <2> QED
    BY <2>1, <2>2
<1>8. ReplyType'
  BY <1>2, <1>3, <1>4, <1>5, <1>7 DEF ReplyType
<1>9. CallInv(c)'
  <2>1. pc[c] \in {"wait", "done"}
    BY <1>2 DEF ReplyType
  <2>2. Sent(c)'
    BY <1>1, <1>2, <1>3, <1>4, <1>5, <1>7, <2>1 DEF Sent
  <2>3. ASSUME shape[c].via = "safe" PROVE Owner(c)'
    <3>1. CASE pc[c] = "wait"
      <4>1. chan[c] = "empty"
        BY <1>2, <2>3, <3>1 DEF Owner
      <4> QED
        BY <1>3, <1>4, <1>5, <1>6, <1>7, <2>3, <3>1, <4>1 DEF Owner
    <3>2. CASE pc[c] = "done"
      <4>1. chan[c] = "closed"
        BY <1>1, <1>2, <2>3, <3>2 DEF Owner
      <4> QED
        BY <1>1, <1>3, <1>4, <1>5, <1>6, <1>7, <2>3, <3>2, <4>1 DEF Owner
    <3> QED
      BY <2>1, <3>1, <3>2
  <2>4. Expected(c)'
    <3>1. pc[c] = "wait" => chan[c] # "closed" /\ shape[c].via # "post"
      BY <1>2 DEF Sent, Owner
    <3> QED
      BY <1>3, <1>5, <3>1 DEF Expected
  <2> QED
    BY <2>2, <2>3, <2>4 DEF CallInv
<1>10. \A d \in Calls : d # c => CallInv(d)'
  <2> SUFFICES ASSUME NEW d \in Calls, d # c PROVE CallInv(d)'
    OBVIOUS
  <2>1. /\ pc'[d] = pc[d] /\ chan'[d] = chan[d] /\ made'[d] = made[d]
        /\ owned'[d] = owned[d] /\ closes'[d] = closes[d]
    BY <1>2 DEF ReplyType, Answer
  <2>2. CallInv(d) /\ Head(mailbox) # CallMsg(d)
    BY MessagesApart DEF ReplyInv
  <2>3. /\ Single(CallMsg(d), mailbox')
        /\ Within(CallMsg(d), mailbox') <=> Within(CallMsg(d), mailbox)
    BY <2>2, MailTaken
  <2> QED
    BY <2>1, <2>2, <2>3, CallAside
<1>11. crashed' \in BOOLEAN /\ MailType'
  BY <1>3, MailKept DEF ReplyInv
<1> QED
  BY <1>8, <1>9, <1>10, <1>11 DEF ReplyInv

(* Steps of which the callers and their channels know nothing.             *)
LEMMA ReplyAside ==
    ASSUME ReplyInv, ~crashed, UNCHANGED <<shape, replies, crashed>>, MailType',
           \A d \in Calls : /\ Single(CallMsg(d), mailbox')
                            /\ Within(CallMsg(d), mailbox') <=> Within(CallMsg(d), mailbox)
    PROVE  ReplyInv'
<1>1. ReplyType' /\ crashed' \in BOOLEAN
  BY DEF ReplyInv, ReplyType, replies
<1>2. ASSUME NEW d \in Calls PROVE CallInv(d)'
  <2>1. CallInv(d)
    BY DEF ReplyInv
  <2> QED
    BY <2>1, CallAside DEF replies
<1> QED
  BY <1>1, <1>2 DEF ReplyInv

LEMMA ReplyNext ==
    ASSUME ReplyInv, Next PROVE ReplyInv'
<1>1. ~crashed
  BY DEF Next
<1>2. \A d \in Calls : Single(CallMsg(d), mailbox)
  BY DEF ReplyInv, CallInv, Sent
<1>3. ASSUME UNCHANGED <<shape, replies, crashed, mailbox>> PROVE ReplyInv'
  <2>1. MailType'
    BY <1>3 DEF ReplyInv, MailType
  <2> QED
    BY <1>1, <1>2, <1>3, <2>1, ReplyAside
<1>4. ASSUME NEW t \in Timers, UNCHANGED <<shape, replies, crashed>>,
             mailbox # << >>, Head(mailbox) = TimerMsg(t), mailbox' = Tail(mailbox)
      PROVE  ReplyInv'
  <2>1. ASSUME NEW d \in Calls
        PROVE  /\ Single(CallMsg(d), mailbox')
               /\ Within(CallMsg(d), mailbox') <=> Within(CallMsg(d), mailbox)
    <3>1. Head(mailbox) # CallMsg(d)
      BY <1>4, MessagesApart
    <3> QED
      BY <1>4, <3>1, MailTaken
  <2>2. MailType'
    BY <1>4, MailKept DEF ReplyInv
  <2> QED
    BY <1>1, <1>4, <2>1, <2>2, ReplyAside
<1>5. ASSUME NEW t \in Timers, TimerSend(t) PROVE ReplyInv'
  <2>1. UNCHANGED <<shape, replies, crashed>>
    BY <1>5 DEF TimerSend
  <2>2. CASE mailbox' = mailbox
    BY <1>3, <2>1, <2>2
  <2>3. CASE ~Full /\ mailbox' = Append(mailbox, TimerMsg(t))
    <3>1. TimerMsg(t) \in Messages /\ \A d \in Calls : TimerMsg(t) # CallMsg(d)
      BY MessagesApart
    <3>2. \A d \in Calls : /\ Single(CallMsg(d), mailbox')
                           /\ Within(CallMsg(d), mailbox') <=> Within(CallMsg(d), mailbox)
      BY <2>3, <3>1, MailSent
    <3>3. MailType'
      BY <2>3, <3>1, MailKept DEF ReplyInv
    <3> QED
      BY <1>1, <2>1, <3>2, <3>3, ReplyAside
  <2> QED
    BY <1>5, <2>2, <2>3 DEF TimerSend
<1>6. ASSUME NEW c \in Calls, InvokeRefused(c) \/ Invoke(c) PROVE ReplyInv'
  <2>1. mailbox # << >> /\ Head(mailbox) = CallMsg(c) /\ mailbox' = Tail(mailbox) /\ shape' = shape
    BY <1>6 DEF InvokeRefused, Invoke
  <2>2. \E res \in {"ok", "err"} : Answer(c, res)
    BY <1>6 DEF InvokeRefused, Invoke, Refuse
  <2> QED
    BY <1>1, <2>1, <2>2, ReplyAnswer
<1>7. ASSUME NEW t \in Timers, TimerIgnored(t) \/ TimerInvoke(t) PROVE ReplyInv'
  BY <1>4, <1>7 DEF TimerIgnored, TimerInvoke
<1>8. ASSUME Drain PROVE ReplyInv'
  <2>1. mailbox # << >> /\ mailbox' = Tail(mailbox) /\ shape' = shape
    BY <1>8 DEF Drain
  <2>2. CASE \E c \in Calls : Head(mailbox) = CallMsg(c) /\ Refuse(c)
    BY <1>1, <2>1, <2>2, ReplyAnswer DEF Refuse
  <2>3. CASE \E t \in Timers : Head(mailbox) = TimerMsg(t) /\ UNCHANGED <<replies, crashed>>
    BY <1>4, <2>1, <2>3
  <2> QED
    BY <1>8, <2>2, <2>3 DEF Drain
<1>9. ASSUME Close \/ Exit \/ \E t \in Timers : Fire(t) PROVE ReplyInv'
  BY <1>3, <1>9 DEF Close, Exit, Fire
<1> QED
  BY <1>1, <1>5, <1>6, <1>7, <1>8, <1>9, ReplySend, ReplyCaller DEF Next, RunStep

LEMMA AlwaysReplyInv == Spec => []ReplyInv
<1>1. ReplyInv /\ UNCHANGED vars => ReplyInv'
  BY DEF vars, replies, ReplyInv, ReplyType, MailType, CallInv, Sent, Owner, Expected
<1>2. ReplyInv /\ [Next]_vars => ReplyInv'
  BY <1>1, ReplyNext
<1> QED
  BY <1>2, ReplyInit, PTL DEF Spec

(* The framework closes a SafeReply once, unless the caller has it,        *)
(* however the timeout of SafeCall, the handler and the drain are          *)
(* interleaved (manager.go safeResult, invoke.go Invoke).                  *)
THEOREM AlwaysReplyOnce == Spec => []ReplyOnce
<1>1. ReplyInv => ReplyOnce
  <2> SUFFICES ASSUME ReplyInv, NEW c \in Calls, shape[c].via = "safe"
               PROVE  /\ closes[c] + (IF owned[c] THEN 1 ELSE 0) <= 1
                      /\ made[c] /\ pc[c] = "done" =>
                            closes[c] + (IF owned[c] THEN 1 ELSE 0) = 1
    BY DEF ReplyOnce
  <2>1. Owner(c) /\ made[c] \in BOOLEAN /\ owned[c] \in BOOLEAN
    BY DEF ReplyInv, CallInv, ReplyType
  <2> QED
    BY <2>1 DEF Owner
<1> QED
  BY <1>1, AlwaysReplyInv, PTL

(* No caller waits in vain: its request is in the mailbox or its answer in *)
(* the channel, whatever the handler does and whenever the actor closes    *)
(* (actor.go invokeBatch and drain, invoke.go Allow, Invoke and Fail).     *)
THEOREM AlwaysNeverForgotten == Spec => []NeverForgotten
<1>1. ReplyInv => NeverForgotten
  <2> SUFFICES ASSUME ReplyInv, NEW c \in Calls, pc[c] = "wait", ~crashed
               PROVE  chan[c] \in {"ok", "err"} \/ \E i \in DOMAIN mailbox : mailbox[i] = CallMsg(c)
    BY DEF NeverForgotten
  <2>1. chan[c] \in {"ok", "err"} \/ Within(CallMsg(c), mailbox)
    BY DEF ReplyInv, CallInv, Expected
  <2>2. DOMAIN mailbox = 1..Len(mailbox)
    BY LenProperties DEF ReplyInv, MailType
  <2> QED
    BY <2>1, <2>2 DEF Within
<1> QED
  BY <1>1, AlwaysReplyInv, PTL
-----------------------------------------------------------------------------
(* The timer map.  Timers stopped, or that took another state, keep their  *)
(* id and their context.                                                   *)
LEMMA TimersAre ==
    ASSUME NEW n \in Nat, NEW all \in Seq(Timer(n))
    PROVE  /\ Len(all) \in Nat /\ DOMAIN all = 1..Len(all)
           /\ \A t \in DOMAIN all :
                /\ all[t] \in Timer(n)
                /\ all[t].id \in TimerIds /\ all[t].ctx \in 1..n
                /\ all[t].at \in TimerStates
<1>1. Len(all) \in Nat /\ DOMAIN all = 1..Len(all) /\ \A t \in DOMAIN all : all[t] \in Timer(n)
  BY LenProperties
<1> QED
  BY <1>1 DEF Timer

LEMMA StoppedAre ==
    ASSUME NEW n \in Nat, NEW all \in Seq(Timer(n)), NEW ts
    PROVE  /\ Stopped(all, ts) \in Seq(Timer(n))
           /\ Len(Stopped(all, ts)) = Len(all) /\ DOMAIN Stopped(all, ts) = DOMAIN all
           /\ \A t \in DOMAIN all :
                /\ Stopped(all, ts)[t].id = all[t].id /\ Stopped(all, ts)[t].ctx = all[t].ctx
                /\ Stopped(all, ts)[t].at \in {all[t].at, "over"}
<1> DEFINE s == Stopped(all, ts)
<1>1. Len(all) \in Nat /\ DOMAIN all = 1..Len(all) /\ \A t \in DOMAIN all : all[t] \in Timer(n)
  BY TimersAre
<1>2. s = [t \in 1..Len(all) |-> s[t]]
  BY <1>1 DEF Stopped
<1>3. \A t \in 1..Len(all) : s[t] = all[t] \/ s[t] = [all[t] EXCEPT !.at = "over"]
  BY <1>1 DEF Stopped
<1> HIDE DEF s
<1>4. \A t \in 1..Len(all) : /\ s[t] \in Timer(n) /\ s[t].id = all[t].id /\ s[t].ctx = all[t].ctx
                             /\ s[t].at \in {all[t].at, "over"}
  <2> TAKE t \in 1..Len(all)
  <2>1. all[t] \in Timer(n)
    BY <1>1
  <2>2. LET r == [all[t] EXCEPT !.at = "over"]
        IN  r \in Timer(n) /\ r.id = all[t].id /\ r.ctx = all[t].ctx /\ r.at = "over"
    BY <2>1 DEF Timer, TimerStates
  <2> QED
    BY <1>3, <2>1, <2>2, Zenon
<1>5. s \in [1..Len(all) -> Timer(n)]
  BY <1>2, <1>4, Zenon
<1>6. s \in Seq(Timer(n)) /\ DOMAIN s = 1..Len(all)
  BY <1>1, <1>5, SeqDef
<1>7. Len(s) = Len(all)
  BY <1>1, <1>6, LenProperties
<1> QED
  BY <1>1, <1>4, <1>6, <1>7 DEF s

(* A map that has timers of all has the same timers of all2.               *)
Alike(all, all2) ==
    /\ Len(all2) = Len(all)
    /\ \A t \in DOMAIN all : all2[t].id = all[t].id /\ all2[t].ctx = all[t].ctx

LEMMA TracksAlike ==
    ASSUME NEW n \in Nat, NEW a, NEW all, NEW gone, Tracks(a, all, gone, n),
           NEW all2 \in Seq(Timer(n)), Alike(all, all2)
    PROVE  Tracks(a, all2, gone, n)
<1>1. all \in Seq(Timer(n)) /\ a \in Control(n, Len(all)) /\ gone \subseteq DOMAIN all
  BY DEF Tracks
<1>2. DOMAIN all = 1..Len(all) /\ DOMAIN all2 = 1..Len(all) /\ Len(all2) = Len(all)
  BY <1>1, TimersAre DEF Alike
<1>3. \A i \in TimerIds : a.timers[i] # 0 => a.timers[i] \in DOMAIN all
  BY <1>1, <1>2, TimersAre DEF Control
<1> QED
  BY <1>1, <1>2, <1>3 DEF Tracks, Alike

(* The state of one timer changes.                                         *)
Moved(all, t, x) == [all EXCEPT ![t].at = x]

LEMMA TimerMoves ==
    ASSUME NEW n \in Nat, NEW a, NEW all, NEW gone, Tracks(a, all, gone, n),
           NEW t \in DOMAIN all, NEW x \in TimerStates
    PROVE  /\ Tracks(a, Moved(all, t, x), gone, n)
           /\ \A u \in DOMAIN all : u # t => Moved(all, t, x)[u] = all[u]
           /\ Moved(all, t, x)[t].at = x
           /\ Alike(all, Moved(all, t, x))
           /\ DOMAIN Moved(all, t, x) = DOMAIN all
<1> DEFINE r == [all[t] EXCEPT !.at = x]
           all2 == Moved(all, t, x)
<1>1. all \in Seq(Timer(n)) /\ t \in 1..Len(all) /\ all[t] \in Timer(n) /\ DOMAIN all = 1..Len(all)
  BY TimersAre DEF Tracks
<1>2. r \in Timer(n) /\ r.id = all[t].id /\ r.ctx = all[t].ctx /\ r.at = x
  <2>1. PICK q \in Timer(n) : q = all[t]
    BY <1>1
  <2>2. r = [q EXCEPT !.at = x]
    BY <2>1
  <2> QED
    BY <2>1, <2>2 DEF Timer
<1>3. all2 = [all EXCEPT ![t] = r]
  BY <1>1 DEF Moved
<1> HIDE DEF r
<1>4. /\ [all EXCEPT ![t] = r] \in Seq(Timer(n)) /\ Len([all EXCEPT ![t] = r]) = Len(all)
      /\ \A j \in 1..Len(all) : [all EXCEPT ![t] = r][j] = IF j = t THEN r ELSE all[j]
  BY <1>1, <1>2, ExceptSeq
<1> HIDE DEF all2
<1>5. /\ all2 \in Seq(Timer(n)) /\ Len(all2) = Len(all)
      /\ \A j \in 1..Len(all) : all2[j] = IF j = t THEN r ELSE all[j]
  BY <1>3, <1>4
<1>6. Alike(all, all2)
  BY <1>1, <1>2, <1>5 DEF Alike
<1>7. DOMAIN all2 = DOMAIN all
  BY <1>1, <1>5, TimersAre
<1>8. Tracks(a, all2, gone, n)
  BY <1>5, <1>6, TracksAlike
<1> QED
  BY <1>1, <1>2, <1>5, <1>6, <1>7, <1>8 DEF all2

(* The ids.                                                                *)
LEMMA LeastIs ==
    ASSUME NEW lo \in Int, NEW hi \in Int, NEW S \in SUBSET (lo..hi), S # {}
    PROVE  Least(S) \in S
<1> DEFINE T == {i - lo : i \in S}
<1>1. T \in SUBSET Nat /\ T # {}
  <2>1. \A i \in S : i - lo \in Nat
    <3> TAKE i \in S
    <3>1. i \in lo..hi
      OBVIOUS
    <3> QED
      BY <3>1
  <2> QED
    BY <2>1
<1> HIDE DEF T
<1>2. PICK x \in T : \A y \in T : ~(<<y, x>> \in OpToRel(<, Nat))
  BY <1>1, NatLessThanWellFounded, WFMin, Zenon
<1>3. \A y \in T : x \in Nat /\ y \in Nat /\ ~(y < x)
  BY <1>1, <1>2 DEF OpToRel
<1>4. PICK i \in S : x = i - lo
  BY DEF T
<1>5. \A j \in S : j - lo \in T
  BY DEF T
<1>6. \A j \in S : i <= j
  <2> TAKE j \in S
  <2>1. i \in Int /\ j \in Int /\ ~(j - lo < i - lo)
    BY <1>3, <1>4, <1>5
  <2> QED
    BY <2>1
<1> QED
  BY <1>6, Zenon DEF Least

LEMMA FirstIdIs ==
    ASSUME NEW n, NEW m, NEW a \in Control(n, m)
    PROVE  FirstId(a) \in TimerIds
<1>1. a.timerId \in TimerIds /\ MaxInt \in Nat \ {0, 1}
  BY InvocationAssumption DEF Control
<1>2. CASE a.timerId = MaxInt
  <2>1. FirstId(a) = MinInt
    BY <1>1, <1>2 DEF FirstId
  <2> QED
    BY <1>1, <2>1 DEF TimerIds, MinInt
<1>3. CASE a.timerId # MaxInt
  <2>1. FirstId(a) = (IF a.timerId + 1 = MaxInt THEN 1 ELSE a.timerId + 1)
    BY <1>1, <1>3 DEF FirstId
  <2> QED
    BY <1>1, <1>3, <2>1 DEF TimerIds, MinInt
<1> QED
  BY <1>2, <1>3

(* The search finds a free id if there is one among 1..MaxInt: what lies   *)
(* ahead of s and what lies behind it is all of that.                      *)
LEMMA FirstFreeIs ==
    ASSUME NEW m, NEW tms \in [TimerIds -> m], NEW s \in TimerIds
    PROVE  /\ FirstFree(tms, s) \in TimerIds
           /\ (\E i \in 1..MaxInt : tms[i] = 0) => tms[FirstFree(tms, s)] = 0
<1> DEFINE ahead == {i \in s..MaxInt : tms[i] = 0}
           wrapped == {i \in 1..(s - 1) : tms[i] = 0}
<1>1. s \in Int /\ MaxInt \in Nat /\ s <= MaxInt /\ MinInt \in Int /\ MinInt < 0 /\ MinInt <= s
  BY InvocationAssumption DEF TimerIds, MinInt
<1>2. s..MaxInt \subseteq TimerIds /\ 1..(s - 1) \subseteq TimerIds
  BY <1>1 DEF TimerIds
<1>3. \A i \in 1..MaxInt : i \in s..MaxInt \/ i \in 1..(s - 1)
  BY <1>1
<1>4. ahead \in SUBSET (s..MaxInt) /\ wrapped \in SUBSET (1..(s - 1))
  OBVIOUS
<1>5. FirstFree(tms, s) = IF ahead # {} THEN Least(ahead)
                          ELSE IF wrapped # {} THEN Least(wrapped) ELSE s
  BY DEF FirstFree
<1>6. CASE ahead # {}
  <2>1. Least(ahead) \in ahead
    <3>1. s \in Int /\ MaxInt \in Int
      BY <1>1
    <3> HIDE DEF ahead
    <3> QED
      BY <1>4, <1>6, <3>1, LeastIs
  <2> QED
    BY <1>2, <1>5, <1>6, <2>1
<1>7. CASE ahead = {} /\ wrapped # {}
  <2>1. Least(wrapped) \in wrapped
    <3>1. 1 \in Int /\ s - 1 \in Int
      BY <1>1
    <3> HIDE DEF wrapped
    <3> QED
      BY <1>4, <1>7, <3>1, LeastIs
  <2> QED
    BY <1>2, <1>5, <1>7, <2>1
<1>8. CASE ahead = {} /\ wrapped = {}
  BY <1>3, <1>5, <1>8
<1> QED
  BY <1>6, <1>7, <1>8

LEMMA NewIdIs ==
    ASSUME NEW n, NEW m, NEW a \in Control(n, m)
    PROVE  /\ NewId(a) \in TimerIds
           /\ (\E i \in 1..MaxInt : a.timers[i] = 0) => a.timers[NewId(a)] = 0
<1>1. a.timers \in [TimerIds -> 0..m]
  BY DEF Control
<1> QED
  BY <1>1, FirstIdIs, FirstFreeIs DEF NewId

(* A map that holds fewer timers than there are ids has a free one: two    *)
(* ids never have one timer.                                               *)
LEMMA IdIsFree ==
    ASSUME NEW n \in Nat, NEW a, NEW all, NEW gone, Tracks(a, all, gone, n), Len(all) < MaxInt
    PROVE  \E i \in 1..MaxInt : a.timers[i] = 0
<1> SUFFICES ASSUME \A i \in 1..MaxInt : a.timers[i] # 0 PROVE FALSE
  OBVIOUS
<1> DEFINE f == [i \in 1..MaxInt |-> a.timers[i]]
<1>1. all \in Seq(Timer(n)) /\ a \in Control(n, Len(all))
  BY DEF Tracks
<1>2. Len(all) \in Nat /\ MaxInt \in Nat
  BY <1>1, TimersAre, InvocationAssumption
<1>3. 1..MaxInt \subseteq TimerIds
  BY <1>2 DEF TimerIds, MinInt
<1>4. f \in [1..MaxInt -> 1..Len(all)]
  <2>1. a.timers \in [TimerIds -> 0..Len(all)]
    BY <1>1 DEF Control
  <2>2. \A i \in 1..MaxInt : a.timers[i] \in 1..Len(all)
    BY <1>2, <1>3, <2>1
  <2> QED
    BY <2>2
<1>5. /\ IsFiniteSet(1..MaxInt) /\ Cardinality(1..MaxInt) = MaxInt
      /\ IsFiniteSet(1..Len(all)) /\ Cardinality(1..Len(all)) = Len(all)
  <2>1. 1 \in Int /\ MaxInt \in Int /\ Len(all) \in Int
    BY <1>2
  <2>2. /\ Cardinality(1..MaxInt) = IF 1 > MaxInt THEN 0 ELSE MaxInt - 1 + 1
        /\ Cardinality(1..Len(all)) = IF 1 > Len(all) THEN 0 ELSE Len(all) - 1 + 1
    BY <2>1, FS_Interval
  <2>3. /\ (IF 1 > MaxInt THEN 0 ELSE MaxInt - 1 + 1) = MaxInt
        /\ (IF 1 > Len(all) THEN 0 ELSE Len(all) - 1 + 1) = Len(all)
    BY <1>2
  <2> QED
    BY <2>1, <2>2, <2>3, FS_Interval
<1>6. PICK x \in 1..MaxInt, y \in 1..MaxInt : x # y /\ f[x] = f[y]
  <2> HIDE DEF f
  <2>1. Cardinality(1..Len(all)) < Cardinality(1..MaxInt)
    BY <1>5
  <2> QED
    BY <1>4, <1>5, <2>1, FS_PigeonHole
<1>7. a.timers[x] = a.timers[y] /\ x \in TimerIds /\ y \in TimerIds
  BY <1>3, <1>6
<1>8. all[a.timers[x]].id = x /\ all[a.timers[y]].id = y
  BY <1>7 DEF Tracks
<1> QED
  BY <1>6, <1>7, <1>8

(* No timer runs from all to all2.                                         *)
NoneRuns(all, all2) ==
    \A t \in DOMAIN all : t \in DOMAIN all2 /\ (all2[t].at = "ran" => all[t].at = "ran")

(* After the message.                                                      *)
LEMMA SettleTracks ==
    ASSUME NEW n \in Nat, NEW a, NEW all, NEW gone, Tracks(a, all, gone, n),
           a.active => a.ctx # 0, Settle(a, all, gone)
    PROVE  /\ Tracks(ctrl', timer', ended', n) /\ ctrl'.active = (ctrl'.ctx # 0)
           /\ NoneRuns(all, timer')
           /\ Keeps(a, all, gone) => Keeps(ctrl', timer', ended')
<1> DEFINE left == {a.timers[i] : i \in TimerIds} \ {0}
           rest == Stopped(all, left)
           none == NewControl(0)
<1>1. all \in Seq(Timer(n)) /\ a \in Control(n, Len(all)) /\ gone \subseteq DOMAIN all
  BY DEF Tracks
<1>2. /\ Len(all) \in Nat /\ DOMAIN all = 1..Len(all)
      /\ \A t \in DOMAIN all : all[t].id \in TimerIds
  BY <1>1, TimersAre
<1>3. a.active \in BOOLEAN /\ a.timers \in [TimerIds -> 0..Len(all)]
  BY <1>1 DEF Control
<1>4. CASE a.active
  <2>1. ctrl' = a /\ timer' = all /\ ended' = gone
    BY <1>4 DEF Settle
  <2>2. a.active = (a.ctx # 0)
    BY <1>3, <1>4
  <2> QED
    BY <2>1, <2>2 DEF NoneRuns
<1>5. CASE ~a.active
  <2>1. ctrl' = none /\ timer' = rest /\ ended' = gone \cup left
    BY <1>5 DEF Settle
  <2>2. /\ rest \in Seq(Timer(n)) /\ Len(rest) = Len(all) /\ DOMAIN rest = DOMAIN all
        /\ \A t \in DOMAIN all : rest[t].id = all[t].id /\ rest[t].at \in {all[t].at, "over"}
    BY <1>1, StoppedAre
  <2>3. /\ none \in Control(n, Len(all)) /\ none.active = (none.ctx # 0)
        /\ \A i \in TimerIds : none.timers[i] = 0
    <3>1. 0 \in TimerIds /\ 0 \in 0..n /\ 0 \in 0..Len(all)
      BY <1>2, InvocationAssumption DEF TimerIds, MinInt
    <3> QED
      BY <3>1 DEF NewControl, Control
  <2>4. left \subseteq DOMAIN all
    <3>1. \A i \in TimerIds : a.timers[i] # 0 => a.timers[i] \in 1..Len(all)
      BY <1>2, <1>3
    <3> QED
      BY <1>2, <3>1
  <2> HIDE DEF rest, none
  <2>5. Tracks(none, rest, gone \cup left, n)
    BY <1>1, <2>2, <2>3, <2>4 DEF Tracks
  <2>6. NoneRuns(all, rest)
    BY <2>2 DEF NoneRuns
  <2>7. ASSUME Keeps(a, all, gone) PROVE Keeps(none, rest, gone \cup left)
    <3> SUFFICES ASSUME NEW t \in DOMAIN all, rest[t].at \in {"set", "fired", "mailed"},
                        t \notin gone, t \notin left
                 PROVE  FALSE
      BY <2>2 DEF Keeps
    <3>1. all[t].at \in {"set", "fired", "mailed"}
      BY <2>2
    <3>2. a.timers[all[t].id] = t /\ all[t].id \in TimerIds
      BY <1>2, <2>7, <3>1 DEF Keeps
    <3>3. t # 0
      BY <1>2
    <3> QED
      BY <3>2, <3>3
  <2> QED
    BY <2>1, <2>3, <2>5, <2>6, <2>7
<1> QED
  BY <1>4, <1>5

(* The ActorControl with another map.                                      *)
LEMMA ControlSet ==
    ASSUME NEW n \in Nat, NEW k \in Nat, NEW a \in Control(n, k), NEW on \in BOOLEAN,
           NEW i \in TimerIds, NEW m \in Nat, NEW t \in 0..m, k <= m, NEW id \in TimerIds,
           NEW b, b = [ctx |-> a.ctx, active |-> on,
                       timers |-> [a.timers EXCEPT ![i] = t], timerId |-> id]
    PROVE  b \in Control(n, m) /\ b.ctx = a.ctx /\ b.timers = [a.timers EXCEPT ![i] = t]
<1>1. a.ctx \in 0..n /\ a.timers \in [TimerIds -> 0..k]
  BY DEF Control
<1>2. \A u \in 0..k : u \in 0..m
  OBVIOUS
<1>3. [a.timers EXCEPT ![i] = t] \in [TimerIds -> 0..m]
  BY <1>1, <1>2
<1> QED
  BY <1>1, <1>3 DEF Control

(* What a handler does to the map: a timer is started, one is taken out.   *)
LEMMA StartTracks ==
    ASSUME NEW n \in Nat, NEW a, NEW all, NEW gone, Tracks(a, all, gone, n), a.ctx # 0,
           NEW id \in TimerIds, NEW b \in Control(n, Len(all) + 1),
           b.ctx = a.ctx, b.timers = [a.timers EXCEPT ![id] = Len(all) + 1],
           NEW r \in Timer(n), r.id = id, r.ctx = a.ctx, r.at = "set",
           NEW all2, all2 = Append(all, r)
    PROVE  /\ Tracks(b, all2, gone, n)
           /\ NoneRuns(all, all2)
           /\ a.timers[id] = 0 /\ Keeps(a, all, gone) => Keeps(b, all2, gone)
<1> DEFINE m == Len(all) + 1
<1>1. all \in Seq(Timer(n)) /\ a \in Control(n, Len(all)) /\ gone \subseteq DOMAIN all
  BY DEF Tracks
<1>2. /\ Len(all) \in Nat /\ DOMAIN all = 1..Len(all)
      /\ \A t \in DOMAIN all : all[t].id \in TimerIds
  BY <1>1, TimersAre
<1>3. a.ctx \in 1..n /\ a.timers \in [TimerIds -> 0..Len(all)]
  BY <1>1 DEF Control
<1>4. r \in Timer(n) /\ r.id = id /\ r.ctx = a.ctx /\ r.at = "set"
  OBVIOUS
<1>5. /\ all2 \in Seq(Timer(n)) /\ Len(all2) = m /\ all2[m] = r
      /\ \A t \in 1..Len(all) : all2[t] = all[t]
  BY <1>1, <1>4, AppendProperties
<1>6. DOMAIN all2 = 1..m /\ m \notin DOMAIN all /\ m # 0
      /\ \A t \in 1..m : t = m \/ t \in 1..Len(all)
  BY <1>2, <1>5, TimersAre
<1>7. b.ctx = a.ctx /\ b.timers = [a.timers EXCEPT ![id] = m] /\ b \in Control(n, m)
  OBVIOUS
<1>8. b.timers[id] = m /\ \A i \in TimerIds : i # id => b.timers[i] = a.timers[i]
  BY <1>3, <1>7
<1>9. \A i \in TimerIds : a.timers[i] # 0 => a.timers[i] \in 1..Len(all)
  BY <1>2, <1>3
<1> HIDE DEF m
<1>10. \A i \in TimerIds : b.timers[i] # 0 => /\ all2[b.timers[i]].id = i
                                             /\ all2[b.timers[i]].ctx = b.ctx
                                             /\ b.timers[i] \notin gone
  <2> SUFFICES ASSUME NEW i \in TimerIds, b.timers[i] # 0
               PROVE  /\ all2[b.timers[i]].id = i
                      /\ all2[b.timers[i]].ctx = b.ctx
                      /\ b.timers[i] \notin gone
    OBVIOUS
  <2>1. CASE i = id
    BY <1>1, <1>4, <1>5, <1>6, <1>7, <1>8, <2>1
  <2>2. CASE i # id
    BY <1>5, <1>7, <1>8, <1>9, <2>2 DEF Tracks
  <2> QED
    BY <2>1, <2>2
<1>11. Tracks(b, all2, gone, n)
  <2>1. gone \subseteq DOMAIN all2
    BY <1>1, <1>2, <1>6 DEF m
  <2> QED
    BY <1>5, <1>7, <1>10, <2>1 DEF Tracks
<1>12. NoneRuns(all, all2)
  <2>1. DOMAIN all \subseteq DOMAIN all2
    BY <1>2, <1>6 DEF m
  <2> QED
    BY <1>2, <1>5, <2>1 DEF NoneRuns
<1>13. ASSUME a.timers[id] = 0, Keeps(a, all, gone) PROVE Keeps(b, all2, gone)
  <2> SUFFICES ASSUME NEW t \in DOMAIN all2, all2[t].at \in {"set", "fired", "mailed"}, t \notin gone
               PROVE  b.ctx = all2[t].ctx /\ b.timers[all2[t].id] = t
    BY DEF Keeps
  <2>1. CASE t = m
    BY <1>4, <1>5, <1>7, <1>8, <2>1
  <2>2. CASE t \in 1..Len(all)
    <3>1. all2[t] = all[t] /\ t \in DOMAIN all /\ t # 0 /\ all[t].id \in TimerIds
      BY <1>2, <1>5, <2>2
    <3>2. a.ctx = all[t].ctx /\ a.timers[all[t].id] = t
      BY <1>13, <3>1 DEF Keeps
    <3> QED
      BY <1>7, <1>8, <1>13, <3>1, <3>2
  <2> QED
    BY <1>6, <2>1, <2>2
<1> QED
  BY <1>11, <1>12, <1>13

LEMMA RemoveTracks ==
    ASSUME NEW n \in Nat, NEW a, NEW all, NEW gone, Tracks(a, all, gone, n),
           NEW i \in TimerIds, a.timers[i] # 0, NEW b \in Control(n, Len(all)),
           b.ctx = a.ctx, b.timers = [a.timers EXCEPT ![i] = 0]
    PROVE  /\ Tracks(b, all, gone \cup {a.timers[i]}, n)
           /\ Keeps(a, all, gone) => Keeps(b, all, gone \cup {a.timers[i]})
<1> DEFINE k == a.timers[i]
<1>1. all \in Seq(Timer(n)) /\ a \in Control(n, Len(all)) /\ gone \subseteq DOMAIN all
  BY DEF Tracks
<1>2. /\ Len(all) \in Nat /\ DOMAIN all = 1..Len(all)
      /\ \A t \in DOMAIN all : all[t].id \in TimerIds
  BY <1>1, TimersAre
<1>3. a.timers \in [TimerIds -> 0..Len(all)]
  BY <1>1 DEF Control
<1>4. k \in DOMAIN all /\ all[k].id = i
  <2>1. k \in 1..Len(all)
    BY <1>2, <1>3
  <2> QED
    BY <1>2, <2>1 DEF Tracks
<1>5. b.ctx = a.ctx /\ b.timers = [a.timers EXCEPT ![i] = 0] /\ b \in Control(n, Len(all))
  OBVIOUS
<1>6. b.timers[i] = 0 /\ \A j \in TimerIds : j # i => b.timers[j] = a.timers[j]
  BY <1>3, <1>5
<1>7. Tracks(b, all, gone \cup {k}, n)
  <2>1. \A j \in TimerIds : b.timers[j] # 0 => /\ all[b.timers[j]].id = j
                                              /\ all[b.timers[j]].ctx = b.ctx
                                              /\ b.timers[j] \notin gone \cup {k}
    BY <1>4, <1>5, <1>6 DEF Tracks
  <2> QED
    BY <1>1, <1>4, <1>5, <2>1 DEF Tracks
<1>8. ASSUME Keeps(a, all, gone) PROVE Keeps(b, all, gone \cup {k})
  <2> SUFFICES ASSUME NEW t \in DOMAIN all, all[t].at \in {"set", "fired", "mailed"},
                      t \notin gone, t # k
               PROVE  b.ctx = all[t].ctx /\ b.timers[all[t].id] = t
    BY DEF Keeps
  <2>1. a.ctx = all[t].ctx /\ a.timers[all[t].id] = t /\ all[t].id \in TimerIds
    BY <1>2, <1>8 DEF Keeps
  <2>2. all[t].id # i
    BY <2>1
  <2> QED
    BY <1>5, <1>6, <2>1, <2>2
<1> QED
  BY <1>7, <1>8

LEMMA KeepsAlike ==
    ASSUME NEW a, NEW all, NEW gone, Keeps(a, all, gone), NEW all2, Alike(all, all2),
           DOMAIN all2 = DOMAIN all,
           \A t \in DOMAIN all : all2[t].at \in {"set", "fired", "mailed"} /\ t \notin gone
                                     => all[t].at \in {"set", "fired", "mailed"}
    PROVE  Keeps(a, all2, gone)
BY DEF Keeps, Alike

(* All ids are never in use: there are fewer timers than positive ints     *)
(* ("impossible in theory", says the comment in Timer on its last resort). *)
IdsSuffice == MaxTimers <= MaxInt

LEMMA HandleTracks ==
    ASSUME NEW n \in Nat, NEW a, NEW all, NEW gone, gone = ended, Tracks(a, all, gone, n),
           a.ctx # 0, Handle(a, all)
    PROVE  /\ Tracks(ctrl', timer', ended', n) /\ ctrl'.active = (ctrl'.ctx # 0)
           /\ NoneRuns(all, timer')
           /\ IdsSuffice /\ Keeps(a, all, gone) => Keeps(ctrl', timer', ended')
<1>1. all \in Seq(Timer(n)) /\ a \in Control(n, Len(all)) /\ gone \subseteq DOMAIN all
  BY DEF Tracks
<1>2. Len(all) \in Nat
  BY <1>1, TimersAre
<1>3. ASSUME NEW on \in BOOLEAN, Settle([a EXCEPT !.active = on], all, ended)
      PROVE  /\ Tracks(ctrl', timer', ended', n) /\ ctrl'.active = (ctrl'.ctx # 0)
             /\ NoneRuns(all, timer')
             /\ Keeps(a, all, gone) => Keeps(ctrl', timer', ended')
  <2>1. PICK b : b = [a EXCEPT !.active = on]
    OBVIOUS
  <2>2. b.ctx = a.ctx /\ b.timers = a.timers /\ b \in Control(n, Len(all))
    BY <1>1, <2>1 DEF Control
  <2>3. Tracks(b, all, gone, n) /\ (Keeps(a, all, gone) => Keeps(b, all, gone))
    BY <1>1, <2>2 DEF Tracks, Keeps
  <2>4. Settle(b, all, gone)
    BY <1>3, <2>1
  <2> QED
    BY <2>2, <2>3, <2>4, SettleTracks
<1>4. ASSUME NEW on \in BOOLEAN, Len(all) < MaxTimers,
             Settle([a EXCEPT !.active = on, !.timers[NewId(a)] = Len(all) + 1, !.timerId = NewId(a)],
                    Append(all, [id |-> NewId(a), ctx |-> a.ctx, at |-> "set"]), ended)
      PROVE  /\ Tracks(ctrl', timer', ended', n) /\ ctrl'.active = (ctrl'.ctx # 0)
             /\ NoneRuns(all, timer')
             /\ IdsSuffice /\ Keeps(a, all, gone) => Keeps(ctrl', timer', ended')
  <2>1. PICK id \in TimerIds : id = NewId(a)
    BY <1>1, NewIdIs
  <2>2. PICK b : b = [a EXCEPT !.active = on, !.timers[id] = Len(all) + 1, !.timerId = id]
    OBVIOUS
  <2>3. PICK r : r = [id |-> id, ctx |-> a.ctx, at |-> "set"]
    OBVIOUS
  <2>4. r \in Timer(n) /\ r.id = id /\ r.ctx = a.ctx /\ r.at = "set"
    <3>1. a.ctx \in 1..n
      BY <1>1 DEF Control
    <3> QED
      BY <2>3, <3>1 DEF Timer, TimerStates
  <2>5. PICK all2 : all2 = Append(all, r)
    OBVIOUS
  <2>6. /\ b \in Control(n, Len(all) + 1)
        /\ b.ctx = a.ctx /\ b.timers = [a.timers EXCEPT ![id] = Len(all) + 1]
    <3>1. b = [ctx |-> a.ctx, active |-> on,
               timers |-> [a.timers EXCEPT ![id] = Len(all) + 1], timerId |-> id]
      BY <1>1, <2>2 DEF Control
    <3>2. /\ Len(all) + 1 \in Nat /\ Len(all) + 1 \in 0..(Len(all) + 1)
          /\ Len(all) <= Len(all) + 1
      BY <1>2
    <3> QED
      BY <1>1, <1>2, <3>1, <3>2, ControlSet
  <2>7. /\ Tracks(b, all2, gone, n) /\ b.ctx = a.ctx /\ NoneRuns(all, all2)
        /\ a.timers[id] = 0 /\ Keeps(a, all, gone) => Keeps(b, all2, gone)
    BY <2>4, <2>5, <2>6, StartTracks
  <2>8. IdsSuffice => a.timers[id] = 0
    <3>1. IdsSuffice => Len(all) < MaxInt
      BY <1>2, <1>4, InvocationAssumption DEF IdsSuffice
    <3> QED
      BY <1>1, <2>1, <3>1, IdIsFree, NewIdIs
  <2>9. Settle(b, all2, gone)
    BY <1>4, <2>1, <2>2, <2>3, <2>5
  <2>10. /\ Tracks(ctrl', timer', ended', n) /\ ctrl'.active = (ctrl'.ctx # 0)
         /\ NoneRuns(all2, timer')
         /\ Keeps(b, all2, gone) => Keeps(ctrl', timer', ended')
    BY <2>7, <2>9, SettleTracks
  <2>11. NoneRuns(all, timer')
    BY <2>7, <2>10 DEF NoneRuns
  <2> QED
    BY <2>7, <2>8, <2>10, <2>11
<1>5. ASSUME NEW on \in BOOLEAN, NEW i \in TimerIds, a.timers[i] # 0,
             Settle([a EXCEPT !.active = on, !.timers[i] = 0],
                    Stopped(all, {a.timers[i]}), ended \cup {a.timers[i]})
      PROVE  /\ Tracks(ctrl', timer', ended', n) /\ ctrl'.active = (ctrl'.ctx # 0)
             /\ NoneRuns(all, timer')
             /\ Keeps(a, all, gone) => Keeps(ctrl', timer', ended')
  <2>1. PICK b : b = [a EXCEPT !.active = on, !.timers[i] = 0]
    OBVIOUS
  <2>2. PICK g : g = gone \cup {a.timers[i]}
    OBVIOUS
  <2>3. PICK all2 : all2 = Stopped(all, {a.timers[i]})
    OBVIOUS
  <2>4. /\ Tracks(b, all, g, n) /\ b.ctx = a.ctx
        /\ Keeps(a, all, gone) => Keeps(b, all, g)
    <3>1. b = [ctx |-> a.ctx, active |-> on,
               timers |-> [a.timers EXCEPT ![i] = 0], timerId |-> a.timerId]
      BY <1>1, <2>1 DEF Control
    <3>2. 0 \in 0..Len(all) /\ Len(all) <= Len(all) /\ a.timerId \in TimerIds
      BY <1>1, <1>2 DEF Control
    <3>3. b \in Control(n, Len(all)) /\ b.ctx = a.ctx /\ b.timers = [a.timers EXCEPT ![i] = 0]
      BY <1>1, <1>2, <3>1, <3>2, ControlSet
    <3> QED
      BY <1>5, <2>2, <3>3, RemoveTracks
  <2>5. /\ all2 \in Seq(Timer(n)) /\ Len(all2) = Len(all) /\ DOMAIN all2 = DOMAIN all
        /\ \A t \in DOMAIN all :
             /\ all2[t].id = all[t].id /\ all2[t].ctx = all[t].ctx
             /\ all2[t].at \in {all[t].at, "over"}
    BY <1>1, <2>3, StoppedAre
  <2>6. Alike(all, all2) /\ NoneRuns(all, all2)
    BY <2>5 DEF Alike, NoneRuns
  <2>7. Tracks(b, all2, g, n)
    BY <2>4, <2>5, <2>6, TracksAlike
  <2>8. Keeps(a, all, gone) => Keeps(b, all2, g)
    <3>1. \A t \in DOMAIN all : all2[t].at \in {"set", "fired", "mailed"} /\ t \notin g
                                    => all[t].at \in {"set", "fired", "mailed"}
      BY <2>5
    <3> QED
      BY <2>4, <2>5, <2>6, <3>1, KeepsAlike
  <2>9. Settle(b, all2, g)
    BY <1>5, <2>1, <2>2, <2>3
  <2>10. /\ Tracks(ctrl', timer', ended', n) /\ ctrl'.active = (ctrl'.ctx # 0)
         /\ NoneRuns(all2, timer')
         /\ Keeps(b, all2, g) => Keeps(ctrl', timer', ended')
    BY <2>4, <2>7, <2>9, SettleTracks
  <2>11. NoneRuns(all, timer')
    BY <2>6, <2>10 DEF NoneRuns
  <2> QED
    BY <2>8, <2>10, <2>11
<1> QED
  BY <1>3, <1>4, <1>5 DEF Handle
-----------------------------------------------------------------------------
(* The steps.  What each of them must show: the map stays exact, a timer   *)
(* that runs does so where it may, and, if there are ids enough, the map   *)
(* loses no timer.                                                         *)
RunsWhereItMay ==
    \A t \in DOMAIN timer :
        timer'[t].at = "ran" /\ timer[t].at # "ran" => t \notin ended /\ timer[t].ctx = ctrl.ctx

TimerStep == TimerInv' /\ RunsWhereItMay /\ (IdsSuffice /\ TimerKept => TimerKept')

LEMMA TimerInit == Init => TimerInv /\ TimerKept
<1> SUFFICES ASSUME Init PROVE TimerInv /\ TimerKept
  OBVIOUS
<1>1. ctrl = NewControl(0) /\ timer = << >> /\ ended = {} /\ contexts = 0 /\ mailbox = << >>
  BY DEF Init
<1>2. 0 \in TimerIds /\ 0 \in 0..0
  BY InvocationAssumption DEF TimerIds, MinInt
<1>3. NewControl(0) \in Control(0, 0) /\ NewControl(0).active = (NewControl(0).ctx # 0)
  BY <1>2 DEF NewControl, Control
<1>4. << >> \in Seq(Timer(0)) /\ Len(<< >>) = 0
  BY EmptySeq
<1>5. \A i \in TimerIds : NewControl(0).timers[i] = 0
  BY DEF NewControl
<1>6. Tracks(NewControl(0), << >>, {}, 0)
  BY <1>3, <1>4, <1>5 DEF Tracks
<1>7. TimerKept
  BY <1>1 DEF TimerKept
<1>8. Started
  BY <1>1, <1>4 DEF Started, Within
<1> QED
  BY <1>1, <1>3, <1>6, <1>7, <1>8 DEF TimerInv, Init

LEMMA StartedKept ==
    ASSUME MailType, Started, DOMAIN timer \subseteq DOMAIN timer',
           \/ mailbox' = mailbox
           \/ mailbox # << >> /\ mailbox' = Tail(mailbox)
           \/ \E m \in Messages : /\ mailbox' = Append(mailbox, m)
                                  /\ \A t \in Timers : m = TimerMsg(t) => t \in DOMAIN timer
    PROVE  Started'
<1> SUFFICES ASSUME NEW t \in Timers, Within(TimerMsg(t), mailbox') PROVE t \in DOMAIN timer'
  BY DEF Started
<1>1. mailbox \in Seq(Messages)
  BY DEF MailType
<1>2. Within(TimerMsg(t), mailbox) => t \in DOMAIN timer
  BY DEF Started
<1>3. CASE mailbox' = mailbox
  BY <1>2, <1>3
<1>4. CASE mailbox # << >> /\ mailbox' = Tail(mailbox)
  BY <1>1, <1>2, <1>4, WithinTail
<1>5. CASE \E m \in Messages : /\ mailbox' = Append(mailbox, m)
                               /\ \A u \in Timers : m = TimerMsg(u) => u \in DOMAIN timer
  BY <1>1, <1>2, <1>5, WithinAppend
<1> QED
  BY <1>3, <1>4, <1>5

(* The steps that leave the context alone.                                 *)
LEMMA TimerAside ==
    ASSUME MailType, TimerInv, UNCHANGED context, closing' \in {"no", "asked", "exited"},
           \/ mailbox' = mailbox
           \/ mailbox # << >> /\ mailbox' = Tail(mailbox)
           \/ \E c \in Calls : mailbox' = Append(mailbox, CallMsg(c))
    PROVE  TimerStep
<1>1. ctrl' = ctrl /\ timer' = timer /\ ended' = ended /\ contexts' = contexts
  BY DEF context
<1>2. Started'
  <2>1. \A c \in Calls : CallMsg(c) \in Messages /\ \A t \in Timers : CallMsg(c) # TimerMsg(t)
    BY MessagesApart
  <2> QED
    BY <1>1, <2>1, StartedKept DEF TimerInv
<1>3. TimerInv'
  BY <1>1, <1>2 DEF TimerInv
<1>4. RunsWhereItMay /\ (TimerKept => TimerKept')
  BY <1>1 DEF RunsWhereItMay, TimerKept
<1> QED
  BY <1>3, <1>4 DEF TimerStep

(* The steps that only change the state of one timer.                      *)
LEMMA TimerAlone ==
    ASSUME MailType, TimerInv, NEW t \in DOMAIN timer,
           NEW x \in {"fired", "mailed", "lost", "over"}, timer' = [timer EXCEPT ![t].at = x],
           x \in {"fired", "mailed"} => timer[t].at \in {"set", "fired"},
           UNCHANGED <<ctrl, contexts, ended, closing>>,
           \/ mailbox' = mailbox
           \/ mailbox # << >> /\ mailbox' = Tail(mailbox)
           \/ t \in Timers /\ mailbox' = Append(mailbox, TimerMsg(t))
    PROVE  TimerStep
<1>1. contexts \in Nat /\ Tracks(ctrl, timer, ended, contexts)
  BY DEF TimerInv
<1>2. /\ Tracks(ctrl, timer', ended, contexts)
      /\ \A u \in DOMAIN timer : u # t => timer'[u] = timer[u]
      /\ timer'[t].at = x /\ Alike(timer, timer') /\ DOMAIN timer' = DOMAIN timer
  <2>1. x \in TimerStates
    BY DEF TimerStates
  <2>2. PICK all : all = timer
    OBVIOUS
  <2>3. timer' = Moved(all, t, x)
    BY <2>2 DEF Moved
  <2>4. t \in DOMAIN all /\ Tracks(ctrl, all, ended, contexts) /\ contexts \in Nat
    BY <1>1, <2>2
  <2>5. /\ Tracks(ctrl, Moved(all, t, x), ended, contexts)
        /\ \A u \in DOMAIN all : u # t => Moved(all, t, x)[u] = all[u]
        /\ Moved(all, t, x)[t].at = x
        /\ Alike(all, Moved(all, t, x))
        /\ DOMAIN Moved(all, t, x) = DOMAIN all
    BY <2>1, <2>4, TimerMoves
  <2> QED
    BY <2>2, <2>3, <2>5
<1>3. Started'
  <2>1. TimerMsg(t) \in Messages \/ t \notin Timers
    BY MessagesApart
  <2>2. \A u \in Timers : t \in Timers /\ TimerMsg(t) = TimerMsg(u) => u \in DOMAIN timer
    BY MessagesApart
  <2> QED
    BY <1>2, <2>1, <2>2, StartedKept DEF TimerInv
<1>4. TimerInv'
  BY <1>2, <1>3 DEF TimerInv
<1>5. RunsWhereItMay
  BY <1>2 DEF RunsWhereItMay
<1>6. ASSUME TimerKept PROVE TimerKept'
  <2> SUFFICES ASSUME NEW u \in DOMAIN timer', timer'[u].at \in {"set", "fired", "mailed"},
                      u \notin ended
               PROVE  ctrl.ctx = timer'[u].ctx /\ ctrl.timers[timer'[u].id] = u
    BY DEF TimerKept
  <2>1. u \in DOMAIN timer /\ timer[u].at \in {"set", "fired", "mailed"}
    BY <1>2
  <2>2. ctrl.ctx = timer[u].ctx /\ ctrl.timers[timer[u].id] = u
    BY <1>6, <2>1 DEF TimerKept
  <2> QED
    BY <1>2, <2>1, <2>2 DEF Alike
<1> QED
  BY <1>4, <1>5, <1>6 DEF TimerStep

(* A request is handled, in the context there is or a new one.             *)
LEMMA TimerHandled ==
    ASSUME MailType, TimerInv, NEW c \in Calls, Invoke(c)
    PROVE  TimerStep
<1>1. PICK n : n = IF ctrl.ctx = 0 THEN contexts + 1 ELSE contexts
  OBVIOUS
<1>2. PICK a : a = IF ctrl.ctx = 0 THEN NewControl(contexts + 1) ELSE ctrl
  OBVIOUS
<1>3. PICK all : all = timer
  OBVIOUS
<1>4. PICK gone : gone = ended
  OBVIOUS
<1>5. /\ contexts \in Nat /\ all \in Seq(Timer(contexts)) /\ ctrl \in Control(contexts, Len(all))
      /\ gone \subseteq DOMAIN all /\ Tracks(ctrl, all, gone, contexts)
  BY <1>3, <1>4 DEF TimerInv, Tracks
<1>6. Len(all) \in Nat /\ DOMAIN all = 1..Len(all)
  BY <1>5, TimersAre
<1>7. n \in Nat /\ contexts <= n /\ contexts' = n /\ Handle(a, all)
  BY <1>1, <1>2, <1>3, <1>5 DEF Invoke
<1>8. Tracks(a, all, gone, n) /\ a.ctx # 0 /\ (TimerKept => Keeps(a, all, gone))
  <2>1. CASE ctrl.ctx # 0
    BY <1>1, <1>2, <1>3, <1>4, <1>5, <2>1 DEF TimerKept, Keeps
  <2>2. CASE ctrl.ctx = 0
    <3>1. n = contexts + 1 /\ a = NewControl(n)
      BY <1>1, <1>2, <2>2
    <3>2. Timer(contexts) \subseteq Timer(n)
      BY <1>5, <3>1 DEF Timer
    <3>3. all \in Seq(Timer(n))
      BY <1>5, <1>6, <3>2, SeqDef
    <3>4. a \in Control(n, Len(all)) /\ a.ctx = n /\ \A i \in TimerIds : a.timers[i] = 0
      <4>1. 0 \in TimerIds /\ n \in 0..n /\ 0 \in 0..Len(all)
        BY <1>6, <1>7, InvocationAssumption DEF TimerIds, MinInt
      <4> QED
        BY <3>1, <4>1 DEF NewControl, Control
    <3>5. Tracks(a, all, gone, n) /\ a.ctx # 0
      BY <1>5, <3>1, <3>3, <3>4 DEF Tracks
    <3>6. \A t \in DOMAIN all : all[t].ctx # 0
      BY <1>5, TimersAre
    <3>7. TimerKept => Keeps(a, all, gone)
      BY <1>3, <1>4, <2>2, <3>6 DEF TimerKept, Keeps
    <3> QED
      BY <3>5, <3>7
  <2> QED
    BY <2>1, <2>2
<1>9. /\ Tracks(ctrl', timer', ended', n) /\ ctrl'.active = (ctrl'.ctx # 0)
      /\ NoneRuns(all, timer')
      /\ IdsSuffice /\ Keeps(a, all, gone) => Keeps(ctrl', timer', ended')
  BY <1>4, <1>7, <1>8, HandleTracks
<1>10. Started'
  <2>1. mailbox # << >> /\ mailbox' = Tail(mailbox) /\ DOMAIN timer \subseteq DOMAIN timer'
    BY <1>3, <1>9 DEF Invoke, NoneRuns
  <2> QED
    BY <2>1, StartedKept DEF TimerInv
<1>11. TimerInv'
  BY <1>7, <1>9, <1>10 DEF TimerInv, Invoke
<1>12. RunsWhereItMay
  BY <1>3, <1>9 DEF RunsWhereItMay, NoneRuns
<1>13. IdsSuffice /\ TimerKept => TimerKept'
  <2>1. Keeps(ctrl', timer', ended') => TimerKept'
    BY DEF Keeps, TimerKept
  <2> QED
    BY <1>8, <1>9, <2>1
<1> QED
  BY <1>11, <1>12, <1>13 DEF TimerStep

(* A timer's callback runs: its timer is out of the map by then.           *)
LEMMA TimerRuns ==
    ASSUME MailType, TimerInv, NEW t \in Timers, TimerInvoke(t)
    PROVE  TimerStep
<1>1. PICK n : n = contexts
  OBVIOUS
<1>2. PICK was : was = timer
  OBVIOUS
<1>3. PICK gone : gone = ended
  OBVIOUS
<1>4. PICK i : i = was[t].id
  OBVIOUS
<1>5. PICK a : a = [ctrl EXCEPT !.timers[i] = 0]
  OBVIOUS
<1>6. PICK all : all = Moved(was, t, "ran")
  OBVIOUS
<1>7. /\ n \in Nat /\ was \in Seq(Timer(n)) /\ ctrl \in Control(n, Len(was))
      /\ gone \subseteq DOMAIN was /\ Tracks(ctrl, was, gone, n)
  BY <1>1, <1>2, <1>3 DEF TimerInv, Tracks
<1>8. /\ Handle(a, all) /\ contexts' = n /\ closing' = closing
      /\ mailbox # << >> /\ mailbox' = Tail(mailbox) /\ Head(mailbox) = TimerMsg(t)
      /\ ctrl.ctx # 0 /\ ctrl.timers[i] = t
  BY <1>1, <1>2, <1>4, <1>5, <1>6 DEF TimerInvoke, IsCurrent, Moved
<1>9. t \in DOMAIN was
  <2>1. mailbox \in Seq(Messages)
    BY DEF MailType
  <2>2. Within(TimerMsg(t), mailbox)
    BY <1>8, <2>1, WithinTail
  <2> QED
    BY <1>2, <2>2 DEF TimerInv, Started
<1>10. /\ Len(was) \in Nat /\ DOMAIN was = 1..Len(was) /\ i \in TimerIds /\ t # 0
  BY <1>4, <1>7, <1>9, TimersAre
<1>11. t \notin ended /\ timer[t].ctx = ctrl.ctx
  BY <1>2, <1>3, <1>7, <1>8, <1>10 DEF Tracks
<1>12. a \in Control(n, Len(was)) /\ a.ctx = ctrl.ctx /\ a.timers = [ctrl.timers EXCEPT ![i] = 0]
  <2>1. PICK c : c = ctrl
    OBVIOUS
  <2>2. c \in Control(n, Len(was)) /\ a = [c EXCEPT !.timers[i] = 0]
    BY <1>5, <1>7, <2>1
  <2>3. c.active \in BOOLEAN /\ c.timerId \in TimerIds
    BY <2>2 DEF Control
  <2>4. a = [ctx |-> c.ctx, active |-> c.active,
             timers |-> [c.timers EXCEPT ![i] = 0], timerId |-> c.timerId]
    BY <2>2 DEF Control
  <2>5. 0 \in 0..Len(was) /\ Len(was) <= Len(was)
    BY <1>10
  <2>6. a \in Control(n, Len(was)) /\ a.ctx = c.ctx /\ a.timers = [c.timers EXCEPT ![i] = 0]
    <3>1. n \in Nat /\ Len(was) \in Nat /\ i \in TimerIds /\ c \in Control(n, Len(was))
      BY <1>7, <1>10, <2>2
    <3> QED
      BY <2>3, <2>4, <2>5, <3>1, ControlSet
  <2> QED
    BY <2>1, <2>6
<1>13. /\ Tracks(a, was, gone \cup {t}, n)
       /\ Keeps(ctrl, was, gone) => Keeps(a, was, gone \cup {t})
  BY <1>7, <1>8, <1>10, <1>12, RemoveTracks
<1>14. Tracks(a, was, gone, n)
  BY <1>7, <1>13 DEF Tracks
<1>15. /\ Tracks(a, all, gone, n) /\ all[t].at = "ran"
       /\ \A u \in DOMAIN was : u # t => all[u] = was[u]
       /\ DOMAIN all = DOMAIN was
  <2>1. "ran" \in TimerStates
    BY DEF TimerStates
  <2> QED
    BY <1>6, <1>7, <1>9, <1>14, <2>1, TimerMoves
<1>16. Keeps(ctrl, was, gone) => Keeps(a, all, gone)
  BY <1>13, <1>15 DEF Keeps
<1>17. /\ Tracks(ctrl', timer', ended', n) /\ ctrl'.active = (ctrl'.ctx # 0)
       /\ NoneRuns(all, timer')
       /\ IdsSuffice /\ Keeps(a, all, gone) => Keeps(ctrl', timer', ended')
  BY <1>3, <1>7, <1>8, <1>12, <1>15, HandleTracks
<1>18. Started'
  <2>1. DOMAIN timer \subseteq DOMAIN timer'
    BY <1>2, <1>15, <1>17 DEF NoneRuns
  <2> QED
    BY <1>8, <2>1, StartedKept DEF TimerInv
<1>19. TimerInv'
  BY <1>7, <1>8, <1>17, <1>18 DEF TimerInv
<1>20. RunsWhereItMay
  <2> SUFFICES ASSUME NEW u \in DOMAIN timer, timer'[u].at = "ran", timer[u].at # "ran"
               PROVE  u \notin ended /\ timer[u].ctx = ctrl.ctx
    BY DEF RunsWhereItMay
  <2>1. all[u].at = "ran"
    BY <1>2, <1>15, <1>17 DEF NoneRuns
  <2>2. u = t
    BY <1>2, <1>15, <2>1
  <2> QED
    BY <1>11, <2>2
<1>21. IdsSuffice /\ TimerKept => TimerKept'
  <2>1. TimerKept => Keeps(ctrl, was, gone)
    BY <1>2, <1>3 DEF TimerKept, Keeps
  <2>2. Keeps(ctrl', timer', ended') => TimerKept'
    BY DEF Keeps, TimerKept
  <2> QED
    BY <1>16, <1>17, <2>1, <2>2
<1> QED
  BY <1>19, <1>20, <1>21 DEF TimerStep

(* The actor exits: its context is cleared.                                *)
LEMMA TimerExit ==
    ASSUME MailType, TimerInv, Exit
    PROVE  TimerStep
<1>1. PICK n : n = contexts
  OBVIOUS
<1>2. PICK all : all = timer
  OBVIOUS
<1>3. PICK gone : gone = ended
  OBVIOUS
<1>4. PICK a : a = [ctrl EXCEPT !.active = FALSE]
  OBVIOUS
<1>5. n \in Nat /\ ctrl \in Control(n, Len(all)) /\ Tracks(ctrl, all, gone, n)
  BY <1>1, <1>2, <1>3 DEF TimerInv, Tracks
<1>6. a.ctx = ctrl.ctx /\ a.timers = ctrl.timers /\ ~a.active /\ a \in Control(n, Len(all))
  BY <1>4, <1>5 DEF Control
<1>7. Tracks(a, all, gone, n) /\ (TimerKept => Keeps(a, all, gone))
  BY <1>2, <1>3, <1>5, <1>6 DEF Tracks, TimerKept, Keeps
<1>8. Settle(a, all, gone) /\ contexts' = n /\ closing' = "exited" /\ mailbox' = mailbox
  BY <1>1, <1>2, <1>3, <1>4 DEF Exit
<1>9. /\ Tracks(ctrl', timer', ended', n) /\ ctrl'.active = (ctrl'.ctx # 0)
      /\ NoneRuns(all, timer')
      /\ Keeps(a, all, gone) => Keeps(ctrl', timer', ended')
  BY <1>5, <1>6, <1>7, <1>8, SettleTracks
<1>10. Started'
  <2>1. DOMAIN timer \subseteq DOMAIN timer'
    BY <1>2, <1>9 DEF NoneRuns
  <2> QED
    BY <1>8, <2>1, StartedKept DEF TimerInv
<1>11. TimerInv'
  BY <1>5, <1>8, <1>9, <1>10 DEF TimerInv
<1>12. RunsWhereItMay
  BY <1>2, <1>9 DEF RunsWhereItMay, NoneRuns
<1>13. Keeps(ctrl', timer', ended') => TimerKept'
  BY DEF Keeps, TimerKept
<1> QED
  BY <1>7, <1>9, <1>11, <1>12, <1>13 DEF TimerStep

LEMMA TimerNext ==
    ASSUME MailType, TimerInv, Next
    PROVE  TimerStep
<1>1. closing \in {"no", "asked", "exited"}
  BY DEF TimerInv
<1>2. ASSUME NEW t \in Timers, mailbox # << >>, Head(mailbox) = TimerMsg(t)
      PROVE  t \in DOMAIN timer
  <2>1. mailbox \in Seq(Messages)
    BY DEF MailType
  <2>2. Within(TimerMsg(t), mailbox)
    BY <1>2, <2>1, WithinTail
  <2> QED
    BY <2>2 DEF TimerInv, Started
<1>3. ASSUME NEW c \in Calls, Send(c) \/ Receive(c) \/ Timeout(c) \/ InvokeRefused(c)
      PROVE  TimerStep
  <2>1. UNCHANGED context /\ closing' = closing
    BY <1>3, Zenon DEF Send, Receive, Timeout, InvokeRefused
  <2>2. \/ mailbox' = mailbox
        \/ mailbox # << >> /\ mailbox' = Tail(mailbox)
        \/ mailbox' = Append(mailbox, CallMsg(c))
    BY <1>3 DEF Send, Receive, Timeout, InvokeRefused
  <2> QED
    BY <1>1, <2>1, <2>2, TimerAside
<1>4. ASSUME Close PROVE TimerStep
  BY <1>4, TimerAside DEF Close
<1>5. ASSUME NEW t \in Timers, Fire(t) PROVE TimerStep
  <2>1. /\ t \in DOMAIN timer /\ timer[t].at = "set" /\ timer' = [timer EXCEPT ![t].at = "fired"]
        /\ UNCHANGED <<ctrl, contexts, ended, closing>> /\ mailbox' = mailbox
    BY <1>5 DEF Fire
  <2> QED
    BY <2>1, TimerAlone
<1>6. ASSUME NEW t \in Timers, TimerSend(t) PROVE TimerStep
  <2>1. /\ t \in DOMAIN timer /\ timer[t].at = "fired"
        /\ UNCHANGED <<ctrl, contexts, ended, closing>>
    BY <1>6 DEF TimerSend
  <2>2. CASE timer' = [timer EXCEPT ![t].at = "lost"] /\ mailbox' = mailbox
    BY <2>1, <2>2, TimerAlone
  <2>3. CASE timer' = [timer EXCEPT ![t].at = "mailed"] /\ mailbox' = Append(mailbox, TimerMsg(t))
    BY <2>1, <2>3, TimerAlone
  <2> QED
    BY <1>6, <2>2, <2>3 DEF TimerSend
<1>7. ASSUME NEW t \in Timers, mailbox # << >>, Head(mailbox) = TimerMsg(t),
             mailbox' = Tail(mailbox), timer' = [timer EXCEPT ![t].at = "over"],
             UNCHANGED <<ctrl, contexts, ended, closing>>
      PROVE  TimerStep
  <2>1. t \in DOMAIN timer
    BY <1>2, <1>7
  <2> QED
    BY <1>7, <2>1, TimerAlone
<1>8. ASSUME NEW t \in Timers, TimerIgnored(t) PROVE TimerStep
  BY <1>7, <1>8 DEF TimerIgnored
<1>9. ASSUME Drain PROVE TimerStep
  <2>1. /\ mailbox # << >> /\ mailbox' = Tail(mailbox)
        /\ UNCHANGED <<ctrl, contexts, ended, closing>>
    BY <1>9 DEF Drain
  <2>2. CASE UNCHANGED timer
    BY <1>1, <2>1, <2>2, TimerAside DEF context
  <2>3. CASE \E t \in Timers : /\ Head(mailbox) = TimerMsg(t)
                               /\ timer' = [timer EXCEPT ![t].at = "over"]
    BY <1>7, <2>1, <2>3
  <2> QED
    BY <1>9, <2>2, <2>3 DEF Drain
<1> QED
  BY <1>3, <1>4, <1>5, <1>6, <1>8, <1>9, TimerHandled, TimerRuns, TimerExit DEF Next, RunStep

LEMMA TimerStutter ==
    ASSUME TimerInv, UNCHANGED vars
    PROVE  TimerStep
<1>1. /\ ctrl' = ctrl /\ timer' = timer /\ ended' = ended /\ contexts' = contexts
      /\ closing' = closing /\ mailbox' = mailbox
  BY DEF vars, context
<1> QED
  BY <1>1 DEF TimerStep, TimerInv, Started, RunsWhereItMay, TimerKept

LEMMA AlwaysTimerInv == Spec => []TimerInv
<1>1. Init => TimerInv
  BY TimerInit
<1>2. ReplyInv /\ TimerInv /\ [Next]_vars => TimerInv'
  BY TimerNext, TimerStutter DEF ReplyInv, TimerStep
<1> QED
  BY <1>1, <1>2, AlwaysReplyInv, PTL DEF Spec

(* Every variable has its type, and the mailbox never holds more than      *)
(* BufMails, for any calls, timers and capacity.                           *)
THEOREM AlwaysTyped == Spec => []TypeOK
<1>1. ReplyInv /\ TimerInv => TypeOK
  BY DEF ReplyInv, TimerInv, Tracks, TypeOK, ContextType
<1> QED
  BY <1>1, AlwaysReplyInv, AlwaysTimerInv, PTL

(* A callback runs only in the context that started its timer and never    *)
(* after StopTimer, whichever messages of stopped timers or of earlier     *)
(* contexts are still in the mailbox (timer.go Invoke).                    *)
THEOREM AlwaysRunsInOwnContext == Spec => RunsInOwnContext
<1>1. ReplyInv /\ TimerInv /\ [Next]_vars => [RunsWhereItMay]_vars
  BY TimerNext DEF ReplyInv, TimerStep
<1>2. Spec => [][RunsWhereItMay]_vars
  BY <1>1, AlwaysReplyInv, AlwaysTimerInv, PTL DEF Spec
<1> QED
  BY <1>2 DEF RunsInOwnContext, RunsWhereItMay

(* No timer is taken out of the map but by StopTimer, by its own message   *)
(* or with its context: the ids begin again at 1, or at the smallest int,  *)
(* and still no later timer takes one in use.  The last resort of the      *)
(* search, which would overwrite one, is out of reach, as its comment says *)
(* (actor_control.go Timer).                                               *)
THEOREM AlwaysTimerKept == IdsSuffice => (Spec => []TimerKept)
<1> SUFFICES ASSUME IdsSuffice PROVE Spec => []TimerKept
  OBVIOUS
<1>1. Init => TimerKept
  BY TimerInit
<1>2. ReplyInv /\ TimerInv /\ TimerKept /\ [Next]_vars => TimerKept'
  BY TimerNext, TimerStutter DEF ReplyInv, TimerStep
<1> QED
  BY <1>1, <1>2, AlwaysReplyInv, AlwaysTimerInv, PTL DEF Spec
=============================================================================
