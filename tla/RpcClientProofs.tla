-------------------------- MODULE RpcClientProofs --------------------------
(***************************************************************************)
(* Proofs about RpcClient, for any number of calls and posts.              *)
(***************************************************************************)
EXTENDS RpcClient, TLAPS

(* A number identifies one call: newSeq is atomic.                         *)
SeqOK ==
    /\ \A c \in Calls : pc[c] = "start" => seq[c] = 0
    /\ \A c \in Calls : pc[c] # "start" => seq[c] \in 1..reqIDSeq
    /\ \A c, d \in Calls : seq[c] = seq[d] /\ pc[c] # "start" /\ pc[d] # "start" => c = d

(* A call is registered under its own number while it is in progress.      *)
PendingOK ==
    \A s \in Numbers : pending[s] # None =>
        seq[pending[s]] = s /\ pc[pending[s]] \in {"write", "wait", "cleanup"}

(* Requests and responses carry the number of the call they belong to.     *)
Numbered(m) == m.of \in Calls /\ pc[m.of] # "start" /\ seq[m.of] = m.seq
WireOK ==
    /\ \A i \in 1..Len(up) : up[i].seq # 0 => Numbered(up[i])
    /\ \A i \in 1..Len(down) : Numbered(down[i])

(* The reader sends a response only to the call it answers.                *)
HandOK ==
    reader = "deliver" =>
        /\ hand \in [to : Calls, of : Calls]
        /\ hand.to = hand.of
        /\ pc[hand.to] \notin {"start", "register"}

(* A channel holds what was meant for its call.                            *)
ChanOK == \A c \in Calls : chan[c] # None => chan[c].of = c

(* Nothing is sent to a call before it registers.                          *)
FreshOK == \A c \in Calls : pc[c] \in {"start", "register"} => c \notin delivered

(* The inductive invariant.                                                *)
Proper == SeqOK /\ PendingOK /\ WireOK /\ HandOK /\ ChanOK /\ FreshOK /\ OwnAnswer /\ SendsOnce
RpcInv == TypeOK /\ Proper

USE DEF callVars, tableVars, readVars, netVars

(* Nothing is registered, sent or closed at first.                         *)
LEMMA InitInv == Init => RpcInv
<1> SUFFICES ASSUME Init PROVE RpcInv
  OBVIOUS
<1>1. TypeOK
  <2>1. CallType
    BY RpcAssumption DEF Init, CallType
  <2>2. TableType
    BY DEF Init, TableType
  <2>3. ReadType
    BY DEF Init, ReadType
  <2>4. NetType
    BY DEF Init, NetType
  <2> QED
    BY <2>1, <2>2, <2>3, <2>4 DEF TypeOK
<1>2. SeqOK /\ PendingOK /\ WireOK /\ HandOK /\ ChanOK /\ FreshOK
  BY RpcAssumption DEF Init, SeqOK, PendingOK, WireOK, HandOK, ChanOK, FreshOK, Numbers
<1>3. OwnAnswer /\ SendsOnce
  BY DEF Init, OwnAnswer, SendsOnce, Registered, InHand
<1> QED
  BY <1>1, <1>2, <1>3 DEF RpcInv, Proper

(* Appending keeps a sequence's type.                                      *)
LEMMA AppendType ==
    ASSUME NEW S, NEW s \in Seq(S), NEW e \in S
    PROVE  Append(s, e) \in Seq(S)
  OBVIOUS

(* A call takes a number.                                                  *)
LEMMA NewSeqInv ==
    ASSUME RpcInv, NEW c \in Calls, NewSeq(c)
    PROVE  RpcInv'
<1> USE RpcAssumption
<1>1. TypeOK /\ SeqOK /\ PendingOK /\ WireOK /\ HandOK /\ ChanOK /\ FreshOK /\ OwnAnswer /\ SendsOnce
  BY DEF RpcInv, Proper
<1>2. /\ pc[c] = "start" /\ pc' = [pc EXCEPT ![c] = "register"]
      /\ reqIDSeq < MaxSeq /\ reqIDSeq' = reqIDSeq + 1
      /\ seq' = [seq EXCEPT ![c] = reqIDSeq + 1]
      /\ UNCHANGED <<result, tableVars, closing, readVars, netVars>>
  BY DEF NewSeq, NextSeq, Go
<1>3. TypeOK'
  <2>1. CallType'
    BY <1>1, <1>2 DEF TypeOK, CallType
  <2> QED
    BY <1>1, <1>2, <2>1 DEF TypeOK, TableType, ReadType, NetType
<1>4. SeqOK'
  BY <1>1, <1>2 DEF SeqOK, TypeOK, CallType
<1>5. PendingOK'
  BY <1>1, <1>2 DEF PendingOK, TypeOK, CallType, TableType
<1>6. WireOK'
  BY <1>1, <1>2 DEF WireOK, Numbered, TypeOK, CallType
<1>7. HandOK' /\ ChanOK' /\ FreshOK'
  BY <1>1, <1>2 DEF HandOK, ChanOK, FreshOK, TypeOK, CallType, ReadType
<1>8. OwnAnswer' /\ SendsOnce'
  BY <1>1, <1>2 DEF OwnAnswer, SendsOnce, Registered, InHand
<1> QED
  BY <1>3, <1>4, <1>5, <1>6, <1>7, <1>8 DEF RpcInv, Proper

(* A call registers: nobody has sent to it before.                         *)
LEMMA RegisterInv ==
    ASSUME RpcInv, NEW c \in Calls, Register(c)
    PROVE  RpcInv'
<1> USE RpcAssumption
<1>1. TypeOK /\ SeqOK /\ PendingOK /\ WireOK /\ HandOK /\ ChanOK /\ FreshOK /\ OwnAnswer /\ SendsOnce
  BY DEF RpcInv, Proper
<1>2. /\ pc[c] = "register" /\ pc' = [pc EXCEPT ![c] = "write"]
      /\ pending' = [pending EXCEPT ![seq[c]] = c]
      /\ UNCHANGED <<reqIDSeq, seq, result, chan, delivered, closing, readVars, netVars>>
  BY DEF Register, Go
<1>0. seq[c] \in Numbers
  BY <1>1, <1>2 DEF SeqOK, TypeOK, CallType, Numbers
<1>3. TypeOK'
  <2>1. CallType'
    BY <1>1, <1>2 DEF TypeOK, CallType
  <2>2. TableType'
    BY <1>0, <1>1, <1>2 DEF TypeOK, TableType
  <2> QED
    BY <1>1, <1>2, <2>1, <2>2 DEF TypeOK, ReadType, NetType
<1>4. SeqOK'
  BY <1>1, <1>2 DEF SeqOK, TypeOK, CallType
<1>5. PendingOK'
  BY <1>0, <1>1, <1>2 DEF PendingOK, TypeOK, CallType, TableType
<1>6. WireOK'
  BY <1>1, <1>2 DEF WireOK, Numbered, TypeOK, CallType
<1>7. HandOK' /\ ChanOK' /\ FreshOK'
  BY <1>1, <1>2 DEF HandOK, ChanOK, FreshOK, TypeOK, CallType, ReadType
<1>8. OwnAnswer' /\ SendsOnce'
  <2>1. Registered' \subseteq Registered \cup {c}
    BY <1>0, <1>1, <1>2 DEF Registered, TypeOK, TableType
  <2>2. c \notin delivered /\ ~InHand(c)
    BY <1>1, <1>2 DEF FreshOK, HandOK, InHand
  <2> QED
    BY <1>1, <1>2, <2>1, <2>2 DEF OwnAnswer, SendsOnce, InHand
<1> QED
  BY <1>3, <1>4, <1>5, <1>6, <1>7, <1>8 DEF RpcInv, Proper

(* Steps of a registered call that touch neither its number nor the table. *)
LEMMA MoveInv ==
    ASSUME RpcInv, NEW c \in Calls, NEW where \in {"wait", "cleanup"},
           pc[c] \in {"write", "wait"},
           pc' = [pc EXCEPT ![c] = where],
           \/ UNCHANGED result
           \/ \E kind \in Kinds : result' = [result EXCEPT ![c] = [kind |-> kind, of |-> c]],
           UNCHANGED chan \/ chan' = [chan EXCEPT ![c] = None],
           UNCHANGED up \/ up' = Append(up, [seq |-> seq[c], of |-> c]),
           UNCHANGED <<reqIDSeq, seq, pending, delivered, closing, readVars, conn, down>>
    PROVE  RpcInv'
<1> USE RpcAssumption
<1>1. TypeOK /\ SeqOK /\ PendingOK /\ WireOK /\ HandOK /\ ChanOK /\ FreshOK /\ OwnAnswer /\ SendsOnce
  BY DEF RpcInv, Proper
<1>3. TypeOK'
  <2>1. CallType'
    <3>1. result' \in [Calls -> Result \cup {None}]
      <4>1. result \in [Calls -> Result \cup {None}]
        BY <1>1 DEF TypeOK, CallType
      <4>2. ASSUME NEW kind \in Kinds PROVE [kind |-> kind, of |-> c] \in Result
        BY DEF Result
      <4> QED
        BY <4>1, <4>2
    <3> QED
      BY <1>1, <3>1 DEF TypeOK, CallType
  <2>2. TableType'
    BY <1>1 DEF TypeOK, TableType
  <2>3. NetType'
    <3>1. [seq |-> seq[c], of |-> c] \in Message
      BY <1>1 DEF TypeOK, CallType, Message
    <3>2. up' \in Seq(Message)
      BY <1>1, <3>1, AppendType DEF TypeOK, NetType
    <3> QED
      BY <1>1, <3>2 DEF TypeOK, NetType
  <2> QED
    BY <1>1, <2>1, <2>2, <2>3 DEF TypeOK, ReadType
<1>4. SeqOK'
  BY <1>1 DEF SeqOK, TypeOK, CallType
<1>5. PendingOK'
  BY <1>1 DEF PendingOK, TypeOK, CallType, TableType
<1>6. WireOK'
  <2>1. CASE UNCHANGED up
    BY <1>1, <2>1 DEF WireOK, Numbered, TypeOK, CallType
  <2>2. CASE up' = Append(up, [seq |-> seq[c], of |-> c])
    <3>1. /\ Len(up') = Len(up) + 1 /\ Len(up) \in Nat
          /\ \A i \in 1..Len(up) : up'[i] = up[i]
          /\ up'[Len(up) + 1] = [seq |-> seq[c], of |-> c]
      BY <1>1, <2>2 DEF TypeOK, NetType, CallType
    <3>2. pc'[c] # "start" /\ \A d \in Calls : pc[d] # "start" => pc'[d] # "start"
      BY <1>1 DEF TypeOK, CallType
    <3> QED
      BY <1>1, <3>1, <3>2 DEF WireOK, Numbered
  <2> QED
    BY <2>1, <2>2
<1>7. HandOK' /\ ChanOK' /\ FreshOK'
  BY <1>1 DEF HandOK, ChanOK, FreshOK, TypeOK, CallType, TableType, ReadType
<1>8. OwnAnswer' /\ SendsOnce'
  <2>1. OwnAnswer'
    BY <1>1 DEF OwnAnswer, TypeOK, CallType
  <2> QED
    BY <1>1, <2>1 DEF SendsOnce, Registered, InHand
<1> QED
  BY <1>3, <1>4, <1>5, <1>6, <1>7, <1>8 DEF RpcInv, Proper

(* The deferred delete takes out the call's own entry.                     *)
LEMMA CleanupInv ==
    ASSUME RpcInv, NEW c \in Calls, Cleanup(c)
    PROVE  RpcInv'
<1> USE RpcAssumption
<1>1. TypeOK /\ SeqOK /\ PendingOK /\ WireOK /\ HandOK /\ ChanOK /\ FreshOK /\ OwnAnswer /\ SendsOnce
  BY DEF RpcInv, Proper
<1>2. /\ pc[c] = "cleanup" /\ pc' = [pc EXCEPT ![c] = "returned"]
      /\ pending' = [pending EXCEPT ![seq[c]] = None]
      /\ UNCHANGED <<reqIDSeq, seq, result, chan, delivered, closing, readVars, netVars>>
  BY DEF Cleanup, Unregistered, Go
<1>0. seq[c] \in Numbers
  BY <1>1, <1>2 DEF SeqOK, TypeOK, CallType, Numbers
<1>3. TypeOK'
  <2>1. CallType'
    BY <1>1, <1>2 DEF TypeOK, CallType
  <2>2. TableType'
    BY <1>0, <1>1, <1>2 DEF TypeOK, TableType
  <2> QED
    BY <1>1, <1>2, <2>1, <2>2 DEF TypeOK, ReadType, NetType
<1>4. SeqOK'
  BY <1>1, <1>2 DEF SeqOK, TypeOK, CallType
<1>5. PendingOK'
  BY <1>0, <1>1, <1>2 DEF PendingOK, TypeOK, CallType, TableType
<1>6. WireOK'
  BY <1>1, <1>2 DEF WireOK, Numbered, TypeOK, CallType
<1>7. HandOK' /\ ChanOK' /\ FreshOK'
  BY <1>1, <1>2 DEF HandOK, ChanOK, FreshOK, TypeOK, CallType, ReadType
<1>8. OwnAnswer' /\ SendsOnce'
  <2>1. Registered' \subseteq Registered
    BY <1>0, <1>1, <1>2 DEF Registered, TypeOK, TableType
  <2> QED
    BY <1>1, <1>2, <2>1 DEF OwnAnswer, SendsOnce, InHand
<1> QED
  BY <1>3, <1>4, <1>5, <1>6, <1>7, <1>8 DEF RpcInv, Proper

(* The steps of a call.                                                    *)
LEMMA CallInv ==
    ASSUME RpcInv, NEW c \in Calls, CallStep(c) \/ SelectTimeout(c)
    PROVE  RpcInv'
<1> USE RpcAssumption
<1>1. CASE Register(c)
  BY <1>1, RegisterInv
<1>2. CASE Cleanup(c)
  BY <1>2, CleanupInv
<1>3. CASE WriteCall(c)
  <2> DEFINE m == [seq |-> seq[c], of |-> c]
  <2>1. CASE Go(c, "wait") /\ UNCHANGED result
    <3>1. UNCHANGED up \/ up' = Append(up, m)
      BY <1>3 DEF WriteCall, Write
    <3> QED
      BY <1>3, <2>1, <3>1, MoveInv DEF WriteCall, Write, Go
  <2>2. CASE Return(c, "write error", c)
    <3>1. "write error" \in Kinds
      BY DEF Kinds
    <3>2. UNCHANGED up \/ up' = Append(up, m)
      BY <1>3 DEF WriteCall, Write
    <3> QED
      BY <1>3, <2>2, <3>1, <3>2, MoveInv DEF WriteCall, Write, Return, Go
  <2> QED
    BY <1>3, <2>1, <2>2 DEF WriteCall, Write
<1>4. CASE Select(c)
  <2>1. CASE chan[c] # None /\ Return(c, chan[c].kind, chan[c].of)
             /\ chan' = [chan EXCEPT ![c] = None]
    <3>1. chan[c].of = c /\ chan[c].kind \in Kinds
      BY <2>1 DEF RpcInv, Proper, ChanOK, TypeOK, TableType, Result
    <3> QED
      BY <1>4, <2>1, <3>1, MoveInv DEF Select, Return, Go
  <2>2. CASE Return(c, "ErrClientClosed", c) /\ UNCHANGED chan
    <3>1. "ErrClientClosed" \in Kinds
      BY DEF Kinds
    <3> QED
      BY <1>4, <2>2, <3>1, MoveInv DEF Select, Return, Go
  <2> QED
    BY <1>4, <2>1, <2>2 DEF Select
<1>5. CASE SelectTimeout(c)
  <2>1. "ctx.Err" \in Kinds
    BY DEF Kinds
  <2> QED
    BY <1>5, <2>1, MoveInv DEF SelectTimeout, Return, Go
<1> QED
  BY <1>1, <1>2, <1>3, <1>4, <1>5 DEF CallStep

(* Close answers the registered calls, to none of which anybody has sent.  *)
LEMMA SweepInv ==
    ASSUME RpcInv, Sweep
    PROVE  RpcInv'
<1> USE RpcAssumption
<1>1. TypeOK /\ SeqOK /\ PendingOK /\ WireOK /\ HandOK /\ ChanOK /\ FreshOK /\ OwnAnswer /\ SendsOnce
  BY DEF RpcInv, Proper
<1>2. /\ chan' = [c \in Calls |-> IF c \in Registered
                                   THEN [kind |-> "connection closed", of |-> c]
                                   ELSE chan[c]]
      /\ delivered' = delivered \cup Registered
      /\ pending' = [s \in Numbers |-> None]
      /\ closing' = "swept"
      /\ UNCHANGED <<callVars, readVars, netVars>>
  BY DEF Sweep
<1>0. /\ Registered \subseteq Calls
      /\ \A c \in Registered : pc[c] \in {"write", "wait", "cleanup"}
  BY <1>1 DEF Registered, TypeOK, TableType, PendingOK
<1>3. TypeOK'
  <2>1. TableType'
    <3>1. \A c \in Calls : [kind |-> "connection closed", of |-> c] \in Result
      BY DEF Result, Kinds
    <3>2. chan \in [Calls -> Result \cup {None}] /\ delivered \in SUBSET Calls
      BY <1>1 DEF TypeOK, TableType
    <3>3. chan' \in [Calls -> Result \cup {None}]
      BY <1>2, <3>1, <3>2
    <3> QED
      BY <1>0, <1>2, <3>2, <3>3 DEF TableType
  <2> QED
    BY <1>1, <1>2, <2>1 DEF TypeOK, CallType, ReadType, NetType
<1>4. SeqOK'
  BY <1>1, <1>2 DEF SeqOK
<1>5. PendingOK'
  BY <1>2 DEF PendingOK
<1>6. WireOK'
  BY <1>1, <1>2 DEF WireOK, Numbered
<1>7. HandOK' /\ ChanOK' /\ FreshOK'
  <2>1. HandOK'
    BY <1>1, <1>2 DEF HandOK
  <2>2. ChanOK'
    BY <1>1, <1>2 DEF ChanOK
  <2>3. FreshOK'
    BY <1>0, <1>1, <1>2 DEF FreshOK
  <2> QED
    BY <2>1, <2>2, <2>3
<1>8. OwnAnswer' /\ SendsOnce'
  <2>1. Registered' = {}
    BY <1>2 DEF Registered
  <2> QED
    BY <1>1, <1>2, <2>1 DEF OwnAnswer, SendsOnce, InHand
<1> QED
  BY <1>3, <1>4, <1>5, <1>6, <1>7, <1>8 DEF RpcInv, Proper

(* A response is matched with the call registered under its number: the    *)
(* call it answers.                                                        *)
LEMMA ReadMessageInv ==
    ASSUME RpcInv, ReadMessage
    PROVE  RpcInv'
<1> USE RpcAssumption
<1>1. TypeOK /\ SeqOK /\ PendingOK /\ WireOK /\ HandOK /\ ChanOK /\ FreshOK /\ OwnAnswer /\ SendsOnce
  BY DEF RpcInv, Proper
<1> DEFINE m == Head(down)
<1>2. /\ reader = "read" /\ down # << >> /\ down' = Tail(down)
      /\ UNCHANGED <<callVars, chan, delivered, closing, conn, up>>
  BY DEF ReadMessage
<1>0. m \in Response /\ Numbered(m)
  <2>1. down[1] = m /\ 1 \in 1..Len(down)
    BY <1>1, <1>2 DEF TypeOK, NetType
  <2> QED
    BY <1>1, <1>2, <2>1 DEF TypeOK, NetType, WireOK
<1>9. \/ /\ pending[m.seq] # None
         /\ hand' = [to |-> pending[m.seq], of |-> m.of]
         /\ pending' = [pending EXCEPT ![m.seq] = None]
         /\ reader' = "deliver"
      \/ reader' = "loop" /\ UNCHANGED <<hand, pending>>
  BY DEF ReadMessage, Found, TakenOut
<1>10. down' \in Seq(Response) /\ \A i \in 1..Len(down') : i + 1 \in 1..Len(down) /\ down'[i] = down[i + 1]
  BY <1>1, <1>2 DEF TypeOK, NetType
<1>11. CASE /\ pending[m.seq] # None
            /\ hand' = [to |-> pending[m.seq], of |-> m.of]
            /\ pending' = [pending EXCEPT ![m.seq] = None]
            /\ reader' = "deliver"
  <2> DEFINE c == pending[m.seq]
  <2>0. m.seq \in Numbers /\ m.of \in Calls /\ c \in Calls
    BY <1>0, <1>1, <1>11 DEF Response, TypeOK, TableType
  <2>1. c = m.of
    BY <1>0, <1>1, <1>11, <2>0 DEF PendingOK, Numbered, SeqOK
  <2>2. pc[c] \in {"write", "wait", "cleanup"} /\ c \in Registered
    BY <1>1, <1>11, <2>0 DEF PendingOK, Registered
  <2>3. Registered' \subseteq Registered /\ c \notin Registered'
    BY <1>1, <1>11, <2>0 DEF Registered, PendingOK, TypeOK, TableType
  <2>4. TypeOK'
    <3>1. TableType'
      BY <1>1, <1>2, <1>11, <2>0 DEF TypeOK, TableType
    <3>2. hand' \in [to : Calls, of : Calls] \cup {None}
      BY <1>11, <2>0
    <3>3. ReadType' /\ NetType'
      BY <1>1, <1>2, <1>10, <1>11, <3>2 DEF TypeOK, ReadType, NetType
    <3> QED
      BY <1>1, <1>2, <3>1, <3>3 DEF TypeOK, CallType
  <2>5. SeqOK' /\ ChanOK' /\ FreshOK' /\ OwnAnswer'
    BY <1>1, <1>2 DEF SeqOK, ChanOK, FreshOK, OwnAnswer
  <2>6. PendingOK'
    BY <1>1, <1>2, <1>11, <2>0 DEF PendingOK, TypeOK, TableType
  <2>7. WireOK'
    BY <1>1, <1>2, <1>10 DEF WireOK, Numbered
  <2>8. HandOK'
    BY <1>2, <1>11, <2>0, <2>1, <2>2 DEF HandOK
  <2>9. SendsOnce'
    BY <1>1, <1>2, <1>11, <2>0, <2>2, <2>3 DEF SendsOnce, InHand
  <2> QED
    BY <2>4, <2>5, <2>6, <2>7, <2>8, <2>9 DEF RpcInv, Proper
<1>12. CASE reader' = "loop" /\ UNCHANGED <<hand, pending>>
  <2>1. TypeOK'
    BY <1>1, <1>2, <1>10, <1>12 DEF TypeOK, CallType, TableType, ReadType, NetType
  <2>2. WireOK'
    BY <1>1, <1>2, <1>10 DEF WireOK, Numbered
  <2>3. SeqOK' /\ PendingOK' /\ HandOK' /\ ChanOK' /\ FreshOK' /\ OwnAnswer' /\ SendsOnce'
    BY <1>1, <1>2, <1>12
       DEF SeqOK, PendingOK, HandOK, ChanOK, FreshOK, OwnAnswer, SendsOnce, Registered, InHand
  <2> QED
    BY <2>1, <2>2, <2>3 DEF RpcInv, Proper
<1> QED
  BY <1>9, <1>11, <1>12

(* The reader's send is the first on that channel.                         *)
LEMMA DeliverInv ==
    ASSUME RpcInv, Deliver
    PROVE  RpcInv'
<1> USE RpcAssumption
<1>1. TypeOK /\ SeqOK /\ PendingOK /\ WireOK /\ HandOK /\ ChanOK /\ FreshOK /\ OwnAnswer /\ SendsOnce
  BY DEF RpcInv, Proper
<1> DEFINE c == hand.to
<1>2. /\ reader = "deliver" /\ reader' = "loop" /\ hand' = None
      /\ chan' = [chan EXCEPT ![c] = [kind |-> "reply", of |-> hand.of]]
      /\ delivered' = delivered \cup {c}
      /\ UNCHANGED <<callVars, pending, closing, netVars>>
  BY DEF Deliver
<1>0. c \in Calls /\ hand.of = c /\ pc[c] \notin {"start", "register"} /\ InHand(c)
  BY <1>1, <1>2 DEF HandOK, InHand
<1>3. TypeOK'
  <2>1. [kind |-> "reply", of |-> hand.of] \in Result
    BY <1>0 DEF Result, Kinds
  <2>2. TableType'
    BY <1>0, <1>1, <1>2, <2>1 DEF TypeOK, TableType
  <2> QED
    BY <1>1, <1>2, <2>2 DEF TypeOK, CallType, ReadType, NetType
<1>4. SeqOK'
  BY <1>1, <1>2 DEF SeqOK
<1>5. PendingOK'
  BY <1>1, <1>2 DEF PendingOK
<1>6. WireOK'
  BY <1>1, <1>2 DEF WireOK, Numbered
<1>7. HandOK' /\ ChanOK' /\ FreshOK'
  <2>1. ChanOK'
    BY <1>0, <1>1, <1>2 DEF ChanOK, TypeOK, TableType
  <2> QED
    BY <1>0, <1>1, <1>2, <2>1 DEF HandOK, FreshOK
<1>8. OwnAnswer' /\ SendsOnce'
  <2>1. c \notin Registered
    BY <1>0, <1>1 DEF SendsOnce
  <2> QED
    BY <1>1, <1>2, <2>1 DEF OwnAnswer, SendsOnce, Registered, InHand
<1> QED
  BY <1>3, <1>4, <1>5, <1>6, <1>7, <1>8 DEF RpcInv, Proper

(* The server answers a call under the call's own number.                  *)
LEMMA ServeInv ==
    ASSUME RpcInv, Serve
    PROVE  RpcInv'
<1> USE RpcAssumption
<1>1. TypeOK /\ SeqOK /\ PendingOK /\ WireOK /\ HandOK /\ ChanOK /\ FreshOK /\ OwnAnswer /\ SendsOnce
  BY DEF RpcInv, Proper
<1> DEFINE m == Head(up)
<1>2. /\ up # << >> /\ up' = Tail(up)
      /\ UNCHANGED <<callVars, tableVars, closing, readVars, conn>>
      /\ (m.seq # 0 /\ down' = Append(down, m)) \/ UNCHANGED down
  BY DEF Serve
<1>0. /\ m \in Message
      /\ m.seq # 0 => Numbered(m)
  <2>1. up[1] = m /\ 1 \in 1..Len(up)
    BY <1>1, <1>2 DEF TypeOK, NetType
  <2> QED
    BY <1>1, <1>2, <2>1 DEF TypeOK, NetType, WireOK
<1>9. /\ up' \in Seq(Message)
      /\ \A i \in 1..Len(up') : i + 1 \in 1..Len(up) /\ up'[i] = up[i + 1]
  BY <1>1, <1>2 DEF TypeOK, NetType
<1>10. ASSUME m.seq # 0 PROVE m \in Response
  BY <1>0, <1>10 DEF Numbered, Message, Response, Numbers
<1>3. TypeOK'
  <2>1. down' \in Seq(Response)
    BY <1>1, <1>2, <1>10, AppendType DEF TypeOK, NetType
  <2> QED
    BY <1>1, <1>2, <1>9, <2>1 DEF TypeOK, CallType, TableType, ReadType, NetType
<1>4. SeqOK'
  BY <1>1, <1>2 DEF SeqOK
<1>5. PendingOK'
  BY <1>1, <1>2 DEF PendingOK
<1>6. WireOK'
  <2>1. CASE UNCHANGED down
    BY <1>1, <1>2, <1>9, <2>1 DEF WireOK, Numbered
  <2>2. CASE m.seq # 0 /\ down' = Append(down, m)
    <3>1. /\ Len(down') = Len(down) + 1 /\ Len(down) \in Nat
          /\ \A i \in 1..Len(down) : down'[i] = down[i]
          /\ down'[Len(down) + 1] = m
      BY <1>1, <2>2 DEF TypeOK, NetType
    <3> QED
      BY <1>0, <1>1, <1>2, <1>9, <2>2, <3>1 DEF WireOK, Numbered
  <2> QED
    BY <1>2, <2>1, <2>2
<1>7. HandOK' /\ ChanOK' /\ FreshOK'
  BY <1>1, <1>2 DEF HandOK, ChanOK, FreshOK
<1>8. OwnAnswer' /\ SendsOnce'
  BY <1>1, <1>2 DEF OwnAnswer, SendsOnce, Registered, InHand
<1> QED
  BY <1>3, <1>4, <1>5, <1>6, <1>7, <1>8 DEF RpcInv, Proper

(* A post adds a request that nobody answers.                              *)
LEMMA WritePostInv ==
    ASSUME RpcInv, NEW p \in Posts, WritePost(p)
    PROVE  RpcInv'
<1> USE RpcAssumption
<1>1. TypeOK /\ SeqOK /\ PendingOK /\ WireOK /\ HandOK /\ ChanOK /\ FreshOK /\ OwnAnswer /\ SendsOnce
  BY DEF RpcInv, Proper
<1> DEFINE m == [seq |-> 0, of |-> None]
<1>2. /\ pc' = [pc EXCEPT ![p] = "returned"]
      /\ UNCHANGED <<reqIDSeq, seq, result, tableVars, closing, readVars, conn, down>>
      /\ UNCHANGED up \/ up' = Append(up, m)
  BY DEF WritePost, Write, Go
<1>0. \A c \in Calls : pc'[c] = pc[c]
  BY <1>1, <1>2 DEF TypeOK, CallType
<1>3. TypeOK'
  <2>1. m \in Message
    BY DEF Message
  <2>2. up' \in Seq(Message)
    BY <1>1, <1>2, <2>1, AppendType DEF TypeOK, NetType
  <2>3. CallType'
    BY <1>1, <1>2 DEF TypeOK, CallType
  <2> QED
    BY <1>1, <1>2, <2>2, <2>3 DEF TypeOK, TableType, ReadType, NetType
<1>4. SeqOK'
  BY <1>0, <1>1, <1>2 DEF SeqOK
<1>5. PendingOK'
  BY <1>0, <1>1, <1>2 DEF PendingOK, TypeOK, TableType
<1>6. WireOK'
  <2>1. CASE UNCHANGED up
    BY <1>0, <1>1, <1>2, <2>1 DEF WireOK, Numbered
  <2>2. CASE up' = Append(up, m)
    <3>1. /\ Len(up') = Len(up) + 1 /\ Len(up) \in Nat
          /\ \A i \in 1..Len(up) : up'[i] = up[i]
          /\ up'[Len(up) + 1] = m
      BY <1>1, <2>2 DEF TypeOK, NetType
    <3> QED
      BY <1>0, <1>1, <1>2, <3>1 DEF WireOK, Numbered
  <2> QED
    BY <1>2, <2>1, <2>2
<1>7. HandOK' /\ ChanOK' /\ FreshOK'
  BY <1>0, <1>1, <1>2 DEF HandOK, ChanOK, FreshOK
<1>8. OwnAnswer' /\ SendsOnce'
  BY <1>1, <1>2 DEF OwnAnswer, SendsOnce, Registered, InHand
<1> QED
  BY <1>3, <1>4, <1>5, <1>6, <1>7, <1>8 DEF RpcInv, Proper

(* Steps that only move the reader, Close or the state of the connection.  *)
LEMMA QuietInv ==
    ASSUME RpcInv,
           \/ UserClose \/ CloseDone \/ CloseConn \/ ReadLoop \/ ReadError \/ Break
           \/ UNCHANGED vars
    PROVE  RpcInv'
<1> USE RpcAssumption
<1>1. TypeOK /\ SeqOK /\ PendingOK /\ WireOK /\ HandOK /\ ChanOK /\ FreshOK /\ OwnAnswer /\ SendsOnce
  BY DEF RpcInv, Proper
<1>2. UNCHANGED <<callVars, tableVars, hand, up, down>>
  BY DEF UserClose, CloseDone, CloseConn, ReadLoop, ReadError, Break, vars
<1>0. closing' \in {"no", "flagged", "signalled", "swept", "end"}
  BY <1>1 DEF TypeOK, ReadType, UserClose, CloseFlag, CloseDone, CloseConn, ReadLoop, ReadError, Break, vars
<1>9. reader' \in {"loop", "read", "deliver", "exit"} /\ (reader' = "deliver" => reader = "deliver")
  BY <1>1 DEF TypeOK, ReadType, UserClose, CloseDone, CloseConn, ReadLoop, ReadError, Break, vars
<1>10. conn' \in {"open", "broken", "closed"}
  BY <1>1 DEF TypeOK, NetType, UserClose, CloseDone, CloseConn, ReadLoop, ReadError, Break, vars
<1>3. TypeOK'
  BY <1>0, <1>1, <1>2, <1>9, <1>10 DEF TypeOK, CallType, TableType, ReadType, NetType
<1>4. SeqOK'
  BY <1>1, <1>2 DEF SeqOK
<1>5. PendingOK'
  BY <1>1, <1>2 DEF PendingOK
<1>6. WireOK'
  BY <1>1, <1>2 DEF WireOK, Numbered
<1>7. HandOK' /\ ChanOK' /\ FreshOK'
  BY <1>1, <1>2, <1>9 DEF HandOK, ChanOK, FreshOK
<1>8. OwnAnswer' /\ SendsOnce'
  BY <1>1, <1>2, <1>9 DEF OwnAnswer, SendsOnce, Registered, InHand
<1> QED
  BY <1>3, <1>4, <1>5, <1>6, <1>7, <1>8 DEF RpcInv, Proper

(* Every step preserves the invariant.                                     *)
LEMMA NextInv == RpcInv /\ [Next]_vars => RpcInv'
<1> SUFFICES ASSUME RpcInv, [Next]_vars PROVE RpcInv'
  OBVIOUS
<1>1. CASE \E c \in Calls : NewSeq(c) \/ CallStep(c) \/ SelectTimeout(c)
  BY <1>1, NewSeqInv, CallInv
<1>2. CASE \E p \in Posts : WritePost(p)
  BY <1>2, WritePostInv
<1>3. CASE UserClose \/ CloseDone \/ CloseConn \/ ReadLoop \/ ReadError \/ Break \/ UNCHANGED vars
  BY <1>3, QuietInv
<1>4. CASE Sweep
  BY <1>4, SweepInv
<1>5. CASE ReadMessage
  BY <1>5, ReadMessageInv
<1>6. CASE Deliver
  BY <1>6, DeliverInv
<1>7. CASE Serve
  BY <1>7, ServeInv
<1> QED
  BY <1>1, <1>2, <1>3, <1>4, <1>5, <1>6, <1>7 DEF Next, CloseStep, ReaderStep, Terminated

(* The inductive invariant holds, and with it the types.                   *)
THEOREM RpcInvariance == Spec => []RpcInv
<1> QED
  BY InitInv, NextInv, PTL DEF Spec

(* No call gets another call's response, whatever closes, timeouts and     *)
(* late responses happen (Call and readResponses match by number).         *)
THEOREM AlwaysOwnAnswer == Spec => []OwnAnswer
<1>1. RpcInv => OwnAnswer
  BY DEF RpcInv, Proper
<1> QED
  BY <1>1, RpcInvariance, PTL

(* Neither the reader nor Close ever finds a call's channel filled by the  *)
(* other, so neither blocks on it.                                         *)
THEOREM AlwaysSendsOnce == Spec => []SendsOnce
<1>1. RpcInv => SendsOnce
  BY DEF RpcInv, Proper
<1> QED
  BY <1>1, RpcInvariance, PTL

(* pendingCalls never keeps a call that has returned.                      *)
THEOREM AlwaysNoLeak == Spec => []NoLeak
<1>1. RpcInv => NoLeak
  BY DEF RpcInv, Proper, PendingOK, NoLeak
<1> QED
  BY <1>1, RpcInvariance, PTL

(* The client, the wire and the callers keep their types.                  *)
THEOREM AlwaysTyped == Spec => []TypeOK
<1>1. RpcInv => TypeOK
  BY DEF RpcInv
<1> QED
  BY <1>1, RpcInvariance, PTL
=============================================================================
