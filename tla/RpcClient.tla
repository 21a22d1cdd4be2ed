----------------------------- MODULE RpcClient -----------------------------
(***************************************************************************)
(* One RPC client (rpc/client.go) on one websocket connection, and the     *)
(* server's loop at its other end (rpc/server.go, entry.go).  Calls and    *)
(* posts run in goroutines of their own, the reader of responses in        *)
(* another; Close is called by users and by the reader.                    *)
(*                                                                         *)
(* A step under pendingMu is atomic.  The requests and responses on the    *)
(* connection keep their order.  A call's reply is known by the call it    *)
(* answers.                                                                *)
(***************************************************************************)
EXTENDS Integers, Sequences

CONSTANTS
    Calls,      (* goroutines that make one Call each                       *)
    Posts,      (* goroutines that Post, Broadcast or Multicast once each   *)
    MaxSeq,     (* bound: the last sequence number                          *)
    MayTimeout, (* can a call's context end?                                *)
    MayGarble,  (* can a message fail to decode?                            *)
    None

ASSUME RpcAssumption ==
    /\ MaxSeq \in Nat
    /\ Calls \cap Posts = {}
    /\ None \notin Calls
    /\ MayTimeout \in BOOLEAN
    /\ MayGarble \in BOOLEAN

VARIABLES
    pc,        (* where a call or post stands                               *)
    reqIDSeq,  (* the last sequence number                                  *)
    seq,       (* each call's sequence number, 0 before it has one          *)
    pending,   (* pendingCalls: the call registered under a number, or None *)
    chan,      (* each call's channel of capacity 1: its content, or None   *)
    result,    (* what each call returns                                    *)
    closing,   (* how far Close has come; not "no" means c.closed           *)
    reader,    (* where readResponses stands                                *)
    hand,      (* the response the reader is about to send on a channel     *)
    conn,      (* "open", "broken" by the network, or "closed" by Close     *)
    up, down,  (* requests and responses on their way                       *)
    delivered  (* history: the calls on whose channel something was sent    *)

callVars == <<pc, reqIDSeq, seq, result>>
tableVars == <<pending, chan, delivered>>
readVars == <<reader, hand>>
netVars == <<conn, up, down>>
vars == <<callVars, tableVars, closing, readVars, netVars>>

Numbers == 1..MaxSeq
Message == [seq : 0..MaxSeq, of : Calls \cup {None}]
Response == [seq : Numbers, of : Calls]
Kinds == {"reply", "connection closed", "ErrClientClosed", "ctx.Err", "write error"}
Result == [kind : Kinds, of : Calls]

(* c.closed is set; c.done is closed.                                      *)
closed == closing # "no"
done_Never == FALSE
done == closing \notin {"no", "flagged"}

CallType ==
    /\ pc \in [Calls \cup Posts ->
               {"start", "register", "write", "wait", "cleanup", "returned"}]
    /\ reqIDSeq \in 0..MaxSeq
    /\ seq \in [Calls -> 0..MaxSeq]
    /\ result \in [Calls -> Result \cup {None}]

TableType ==
    /\ pending \in [Numbers -> Calls \cup {None}]
    /\ chan \in [Calls -> Result \cup {None}]
    /\ delivered \in SUBSET Calls

ReadType ==
    /\ closing \in {"no", "flagged", "signalled", "swept", "end"}
    /\ reader \in {"loop", "read", "deliver", "exit"}
    /\ hand \in [to : Calls, of : Calls] \cup {None}

NetType ==
    /\ conn \in {"open", "broken", "closed"}
    /\ up \in Seq(Message)
    /\ down \in Seq(Response)

(* Every variable has its type.                                            *)
TypeOK == CallType /\ TableType /\ ReadType /\ NetType

Init ==
    /\ pc = [g \in Calls \cup Posts |-> "start"]
    /\ reqIDSeq = 0
    /\ seq = [c \in Calls |-> 0]
    /\ pending = [s \in Numbers |-> None]
    /\ chan = [c \in Calls |-> None]
    /\ result = [c \in Calls |-> None]
    /\ closing = "no"
    /\ reader = "loop"
    /\ hand = None
    /\ conn = "open"
    /\ up = << >>
    /\ down = << >>
    /\ delivered = {}
-----------------------------------------------------------------------------
Go(g, where) == pc' = [pc EXCEPT ![g] = where]

(* Call: the request is encoded under a new number ...                     *)
NextSeq_Raced == IF reqIDSeq = 0 THEN 1 ELSE reqIDSeq
NextSeq == reqIDSeq + 1

NewSeq(c) ==
    /\ pc[c] = "start"
    /\ reqIDSeq < MaxSeq
    /\ reqIDSeq' = NextSeq
    /\ seq' = [seq EXCEPT ![c] = NextSeq]
    /\ Go(c, "register")
    /\ UNCHANGED <<result, tableVars, closing, readVars, netVars>>

(* ... registered with a channel for its response ...                      *)
Register(c) ==
    /\ pc[c] = "register"
    /\ pending' = [pending EXCEPT ![seq[c]] = c]
    /\ Go(c, "write")
    /\ UNCHANGED <<reqIDSeq, seq, result, chan, delivered, closing, readVars, netVars>>

(* ... and written.  A broken connection may or may not be noticed.        *)
Write(m, ok, failed) ==
    \/ conn = "open" /\ ok /\ up' = Append(up, m) /\ UNCHANGED <<conn, down>>
    \/ conn = "broken" /\ (ok \/ failed) /\ UNCHANGED netVars
    \/ conn = "closed" /\ failed /\ UNCHANGED netVars

Return(c, kind, of) ==
    /\ result' = [result EXCEPT ![c] = [kind |-> kind, of |-> of]]
    /\ Go(c, "cleanup")

WriteCall(c) ==
    /\ pc[c] = "write"
    /\ Write([seq |-> seq[c], of |-> c],
             Go(c, "wait") /\ UNCHANGED result, Return(c, "write error", c))
    /\ UNCHANGED <<reqIDSeq, seq, tableVars, closing, readVars>>

(* Post, Broadcast and Multicast write with number 0 and wait for nothing. *)
WritePost(p) ==
    /\ pc[p] = "start"
    /\ Go(p, "returned")
    /\ Write([seq |-> 0, of |-> None], TRUE, TRUE)
    /\ UNCHANGED <<reqIDSeq, seq, result, tableVars, closing, readVars>>

(* The select of Call: any of its ready cases.                             *)
Select(c) ==
    /\ pc[c] = "wait"
    /\ \/ /\ chan[c] # None
          /\ Return(c, chan[c].kind, chan[c].of)
          /\ chan' = [chan EXCEPT ![c] = None]
       \/ done /\ Return(c, "ErrClientClosed", c) /\ UNCHANGED chan
    /\ UNCHANGED <<reqIDSeq, seq, pending, delivered, closing, readVars, netVars>>

SelectTimeout(c) ==
    /\ MayTimeout
    /\ pc[c] = "wait"
    /\ Return(c, "ctx.Err", c)
    /\ UNCHANGED <<reqIDSeq, seq, tableVars, closing, readVars, netVars>>

(* The deferred delete.                                                    *)
Unregistered_IfAnswered(c) ==
    IF result[c].kind = "reply" THEN [pending EXCEPT ![seq[c]] = None] ELSE pending
Unregistered(c) == [pending EXCEPT ![seq[c]] = None]

Cleanup(c) ==
    /\ pc[c] = "cleanup"
    /\ pending' = Unregistered(c)
    /\ Go(c, "returned")
    /\ UNCHANGED <<reqIDSeq, seq, result, chan, delivered, closing, readVars, netVars>>

CallStep(c) == Register(c) \/ WriteCall(c) \/ Select(c) \/ Cleanup(c)
-----------------------------------------------------------------------------
(* Close.  Whoever wins the CompareAndSwap goes through the other steps.   *)
CloseFlag ==
    /\ ~closed
    /\ closing' = "flagged"

UserClose ==
    /\ CloseFlag
    /\ UNCHANGED <<callVars, tableVars, readVars, netVars>>

CloseDone ==
    /\ closing = "flagged"
    /\ closing' = "signalled"
    /\ UNCHANGED <<callVars, tableVars, readVars, netVars>>

(* Under pendingMu every registered call gets an error, and is deleted.    *)
Registered == {pending[s] : s \in Numbers} \ {None}
Sweep ==
    /\ closing = "signalled"
    /\ \A c \in Registered : chan[c] = None
    /\ chan' = [c \in Calls |-> IF c \in Registered
                                THEN [kind |-> "connection closed", of |-> c]
                                ELSE chan[c]]
    /\ delivered' = delivered \cup Registered
    /\ pending' = [s \in Numbers |-> None]
    /\ closing' = "swept"
    /\ UNCHANGED <<callVars, readVars, netVars>>

CloseConn ==
    /\ closing = "swept"
    /\ conn' = "closed"
    /\ closing' = "end"
    /\ UNCHANGED <<callVars, tableVars, readVars, up, down>>

CloseStep == CloseDone \/ Sweep \/ CloseConn
-----------------------------------------------------------------------------
(* readResponses.                                                          *)
ReadLoop ==
    /\ reader = "loop"
    /\ reader' = IF closed THEN "exit" ELSE "read"
    /\ UNCHANGED <<callVars, tableVars, closing, hand, netVars>>

(* A response is read and its call, if it is still there, taken out of     *)
(* pendingCalls.                                                           *)
Found_Always(m) == TRUE
Found(m) == pending[m.seq] # None
TakenOut_Left(s) == pending
TakenOut(s) == [pending EXCEPT ![s] = None]

ReadMessage ==
    /\ reader = "read"
    /\ conn # "closed"
    /\ down # << >>
    /\ down' = Tail(down)
    /\ LET m == Head(down) IN
       \/ /\ Found(m)
          /\ hand' = [to |-> pending[m.seq], of |-> m.of]
          /\ pending' = TakenOut(m.seq)
          /\ reader' = "deliver"
       \/ /\ ~Found(m) \/ MayGarble
          /\ reader' = "loop"
          /\ UNCHANGED <<hand, pending>>
    /\ UNCHANGED <<callVars, chan, delivered, closing, conn, up>>

(* The send on the call's channel, outside of pendingMu.                   *)
Deliver ==
    /\ reader = "deliver"
    /\ chan[hand.to] = None
    /\ chan' = [chan EXCEPT ![hand.to] = [kind |-> "reply", of |-> hand.of]]
    /\ delivered' = delivered \cup {hand.to}
    /\ hand' = None
    /\ reader' = "loop"
    /\ UNCHANGED <<callVars, pending, closing, netVars>>

ReadError ==
    /\ reader = "read"
    /\ conn # "open"
    /\ reader' = "exit"
    /\ IF closed THEN UNCHANGED closing ELSE CloseFlag
    /\ UNCHANGED <<callVars, tableVars, hand, netVars>>

ReaderStep == ReadLoop \/ ReadMessage \/ Deliver \/ ReadError
-----------------------------------------------------------------------------
(* handleRPC serves one request after the other.  A request with number 0  *)
(* is not answered, nor is one that cannot be decoded; any other gets a    *)
(* reply or an error text.                                                 *)
Serve ==
    /\ conn = "open"
    /\ up # << >>
    /\ up' = Tail(up)
    /\ LET m == Head(up) IN
       \/ m.seq # 0 /\ down' = Append(down, m)
       \/ (m.seq = 0 \/ MayGarble) /\ UNCHANGED down
    /\ UNCHANGED <<callVars, tableVars, closing, readVars, conn>>

Break ==
    /\ conn = "open"
    /\ conn' = "broken"
    /\ UNCHANGED <<callVars, tableVars, closing, readVars, up, down>>

(* The client is closed and everybody has returned.                        *)
Terminated ==
    /\ closing = "end"
    /\ reader = "exit"
    /\ \A g \in Calls \cup Posts : pc[g] = "returned"
    /\ UNCHANGED vars

Next ==
    \/ \E c \in Calls : NewSeq(c) \/ CallStep(c) \/ SelectTimeout(c)
    \/ \E p \in Posts : WritePost(p)
    \/ UserClose
    \/ CloseStep
    \/ ReaderStep
    \/ Serve
    \/ Break
    \/ Terminated

Spec == Init /\ [][Next]_vars

(* The client's goroutines go on.  Nothing is assumed of the network, the  *)
(* server, the calls' contexts and the users: no call has to time out.     *)
FairSpec ==
    /\ Spec
    /\ \A c \in Calls : WF_vars(CallStep(c))
    /\ WF_vars(CloseStep)
    /\ WF_vars(ReaderStep)
-----------------------------------------------------------------------------
(* A call never gets another call's response, however calls overlap,       *)
(* responses come late and numbers are handed out (pendingCalls is keyed   *)
(* by the number alone).                                                   *)
OwnAnswer == \A c \in Calls : result[c] # None => result[c].of = c

(* Whoever is about to send on a call's channel is the first to do so: a   *)
(* second send would fill the channel of capacity 1 and block the reader,  *)
(* or Close with pendingMu held.                                           *)
InHand(c) == reader = "deliver" /\ hand.to = c
SendsOnce ==
    \A c \in Calls :
        /\ c \in Registered => c \notin delivered /\ ~InHand(c)
        /\ InHand(c) => c \notin delivered

(* pendingCalls holds only calls in progress: nothing stays behind after a *)
(* timeout, a failed write or a Close that swept before the call           *)
(* registered.                                                             *)
NoLeak ==
    \A s \in Numbers : pending[s] # None => pc[pending[s]] \in {"write", "wait", "cleanup"}

(* Once the client is closed or its connection lost, every call that has   *)
(* begun returns, without a response and without a timeout, also one that  *)
(* registers after Close has swept.                                        *)
CallsReturn ==
    \A c \in Calls :
        (closed \/ conn # "open") /\ pc[c] # "start" ~> pc[c] = "returned"
=============================================================================
