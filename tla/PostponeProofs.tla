--------------------------- MODULE PostponeProofs ---------------------------
(***************************************************************************)
(* Proofs about Postpone, for any number of targets and sends and any      *)
(* capacities.  Every step but the send of a new message only moves        *)
(* messages from one place to another; a message is sent where it has no   *)
(* place yet.                                                              *)
(***************************************************************************)
EXTENDS Postpone, FiniteSetTheorems, SequenceTheorems, TLAPS

(* Between two retries the queue is the only list, and postponeSet has its *)
(* ids.                                                                    *)
Settled == pc # "retry" => list = << >> /\ kept = << >> /\ set = NewSet(queue)

(* The flush timer's message is one of those in the sender's mailbox.      *)
Mailed == timer = "mailed" => own > 0

(* Messages not issued yet have no place, nor has the current one for the  *)
(* targets it has yet to be sent to.                                       *)
Unissued == \A t \in Targets, m \in 1..Issues : m > issued => Places(t, m) = 0
Unsent ==
    /\ why.ids # {} => issued > 0
    /\ pc \in {"send", "retry"} => \A t \in why.ids : Places(t, issued) = 0

(* The inductive invariant.                                                *)
PostponeInv ==
    /\ ControlType /\ TimerType /\ TargetType
    /\ Settled /\ Mailed
    /\ NoDuplicate /\ Unissued /\ Unsent

(* Counting what a sequence holds.                                         *)
LEMMA CountType ==
    ASSUME NEW S, NEW s \in Seq(S), NEW x
    PROVE  /\ IsFiniteSet({i \in DOMAIN s : s[i] = x})
           /\ Count(s, x) \in Nat
           /\ Count(s, x) = 0 <=> x \notin Range(s)
<1> DEFINE T == {i \in DOMAIN s : s[i] = x}
<1>1. DOMAIN s = 1..Len(s) /\ Len(s) \in Nat
  BY LenProperties
<1>2. IsFiniteSet(1..Len(s))
  BY <1>1, FS_Interval
<1>3. T \in SUBSET (1..Len(s))
  BY <1>1
<1>4. IsFiniteSet(T)
  BY <1>2, <1>3, FS_Subset
<1>5. Cardinality(T) \in Nat /\ (Cardinality(T) = 0 <=> T = {})
  BY <1>4, FS_CardinalityType, FS_EmptySet
<1>6. T = {} <=> x \notin Range(s)
  BY DEF Range
<1> QED
  BY <1>4, <1>5, <1>6 DEF Count

LEMMA CountEmpty == ASSUME NEW x PROVE Count(<< >>, x) = 0
<1>1. {i \in DOMAIN << >> : << >>[i] = x} = {}
  OBVIOUS
<1> QED
  BY <1>1, FS_EmptySet DEF Count

LEMMA CountAppend ==
    ASSUME NEW S, NEW s \in Seq(S), NEW e \in S, NEW x
    PROVE  Count(Append(s, e), x) = Count(s, x) + (IF e = x THEN 1 ELSE 0)
<1> DEFINE a == Append(s, e)
           T == {i \in DOMAIN s : s[i] = x}
           U == {i \in DOMAIN a : a[i] = x}
           n == Len(s) + 1
<1>1. Len(s) \in Nat /\ DOMAIN s = 1..Len(s)
  BY LenProperties
<1>2. a \in Seq(S) /\ Len(a) = n /\ (\A i \in 1..Len(s) : a[i] = s[i]) /\ a[n] = e
  BY AppendProperties
<1>3. DOMAIN a = 1..n
  BY <1>2, LenProperties
<1>4. n \notin T /\ IsFiniteSet(T) /\ Cardinality(T) \in Nat
  <2>1. IsFiniteSet(T) /\ Count(s, x) \in Nat
    BY CountType
  <2> QED
    BY <1>1, <2>1 DEF Count
<1>7. Count(a, x) = Cardinality(U) /\ Count(s, x) = Cardinality(T)
  BY DEF Count
<1> HIDE DEF a
<1>5. CASE e = x
  <2>1. U = T \cup {n}
    BY <1>1, <1>2, <1>3, <1>5
  <2>2. Cardinality(T \cup {n}) = Cardinality(T) + 1
    BY <1>4, FS_AddElement
  <2> QED
    BY <1>5, <1>7, <2>1, <2>2 DEF a
<1>6. CASE e # x
  <2>1. U = T
    BY <1>1, <1>2, <1>3, <1>6
  <2> HIDE DEF T, U
  <2> QED
    BY <1>4, <1>6, <1>7, <2>1 DEF a
<1> QED
  BY <1>5, <1>6

LEMMA BoxAppend ==
    ASSUME NEW s \in Seq(1..Issues), NEW e \in 1..Issues, NEW x
    PROVE  Count(Append(s, e), x) = Count(s, x) + (IF e = x THEN 1 ELSE 0)
<1>1. ASSUME NEW S, s \in Seq(S), e \in S
      PROVE  Count(Append(s, e), x) = Count(s, x) + (IF e = x THEN 1 ELSE 0)
  BY <1>1, CountAppend
<1> QED
  BY <1>1, Zenon

LEMMA CountTail ==
    ASSUME NEW S, NEW s \in Seq(S), s # << >>, NEW x
    PROVE  Count(s, x) = Count(Tail(s), x) + (IF Head(s) = x THEN 1 ELSE 0)
<1> DEFINE b == Tail(s)
           T == {i \in DOMAIN b : b[i] = x}
           U == {i \in DOMAIN s : s[i] = x}
           V == U \ {1}
<1>1. Len(s) \in Nat \ {0} /\ DOMAIN s = 1..Len(s) /\ Head(s) = s[1]
  BY LenProperties, EmptySeq
<1>2. b \in Seq(S) /\ Len(b) = Len(s) - 1 /\ \A i \in 1..Len(b) : b[i] = s[i + 1]
  BY HeadTailProperties
<1>3. DOMAIN b = 1..Len(b)
  BY <1>2, LenProperties
<1>4. IsFiniteSet(T) /\ Cardinality(T) \in Nat /\ IsFiniteSet(U) /\ Cardinality(U) \in Nat
  BY <1>2, CountType DEF Count
<1>8. Count(b, x) = Cardinality(T) /\ Count(s, x) = Cardinality(U)
  BY DEF Count
<1> HIDE DEF b
<1>5. Cardinality(V) = Cardinality(T)
  <2> DEFINE f == [i \in T |-> i + 1]
  <2>1. \A i \in T : i \in Int /\ i + 1 \in V
    BY <1>1, <1>2, <1>3
  <2>2. f \in [T -> V]
    BY <2>1
  <2>3. \A i, j \in T : f[i] = f[j] => i = j
    BY <2>1
  <2>4. \A k \in V : \E i \in T : f[i] = k
    <3> SUFFICES ASSUME NEW k \in V PROVE \E i \in T : f[i] = k
      OBVIOUS
    <3>1. k - 1 \in T
      BY <1>1, <1>2, <1>3
    <3> QED
      BY <1>1, <3>1
  <2>5. f \in Bijection(T, V)
    BY <2>2, <2>3, <2>4 DEF Bijection, Injection, Surjection, IsInjective
  <2>6. ExistsBijection(T, V)
    BY <2>5 DEF ExistsBijection
  <2> QED
    BY <1>4, <2>6, FS_Bijection
<1>6. Cardinality(V) = IF 1 \in U THEN Cardinality(U) - 1 ELSE Cardinality(U)
  BY <1>4, FS_RemoveElement
<1>7. 1 \in U <=> Head(s) = x
  BY <1>1
<1> HIDE DEF T, U, V
<1> QED
  BY <1>4, <1>5, <1>6, <1>7, <1>8 DEF b

(* What a queue holds after one more item.                                 *)
LEMMA NewSetAppend ==
    ASSUME NEW s \in Seq(Item), NEW e \in Item
    PROVE  NewSet(Append(s, e)) = NewSet(s) \cup {e.id}
<1>1. Range(Append(s, e)) = Range(s) \cup {e}
  BY AppendProperties, LenProperties DEF Range
<1> QED
  BY <1>1 DEF NewSet

LEMMA PlacesType ==
    ASSUME ControlType, TargetType, NEW t \in Targets, NEW m \in 1..Issues
    PROVE  /\ [id |-> t, msg |-> m] \in Item
           /\ Count(queue, [id |-> t, msg |-> m]) \in Nat
           /\ Count(list, [id |-> t, msg |-> m]) \in Nat
           /\ Count(kept, [id |-> t, msg |-> m]) \in Nat
           /\ Count(box[t], m) \in Nat
           /\ Count(got[t], m) \in Nat
           /\ Places(t, m) \in Nat
<1>1. [id |-> t, msg |-> m] \in Item
  BY DEF Item
<1>2. PICK x \in Item : x = [id |-> t, msg |-> m]
  BY <1>1
<1>3. Count(queue, x) \in Nat /\ Count(list, x) \in Nat /\ Count(kept, x) \in Nat
  BY CountType DEF ControlType
<1>4. box[t] \in Seq(1..Issues) /\ got[t] \in Seq(1..Issues)
  BY DEF TargetType
<1>5. Count(box[t], m) \in Nat /\ Count(got[t], m) \in Nat
  BY <1>4, CountType
<1> QED
  BY <1>1, <1>2, <1>3, <1>5 DEF Places

(* The places of a message, before and after a step.                       *)
LEMMA PlacesAre ==
    ASSUME ControlType, TargetType, ControlType', TargetType', NEW t \in Targets, NEW m \in 1..Issues
    PROVE  \E x \in Item :
              /\ x.id = t /\ x.msg = m
              /\ \A y \in Item : y = x <=> y.id = t /\ y.msg = m
              /\ Count(queue, x) \in Nat /\ Count(list, x) \in Nat /\ Count(kept, x) \in Nat
              /\ Count(box[t], m) \in Nat /\ Count(got[t], m) \in Nat
              /\ Places(t, m) = Count(queue, x) + Count(list, x) + Count(kept, x)
                                + Count(box[t], m) + Count(got[t], m) + (IF x \in dropped THEN 1 ELSE 0)
              /\ Places(t, m)' = Count(queue', x) + Count(list', x) + Count(kept', x)
                                 + Count(box'[t], m) + Count(got'[t], m) + (IF x \in dropped' THEN 1 ELSE 0)
              /\ Places(t, m) \in Nat /\ Places(t, m)' \in Nat
<1>1. PICK x \in Item : x = [id |-> t, msg |-> m]
  BY DEF Item
<1>2. x.id = t /\ x.msg = m /\ \A y \in Item : y = x <=> y.id = t /\ y.msg = m
  BY <1>1 DEF Item
<1>3. /\ Count(queue, x) \in Nat /\ Count(list, x) \in Nat /\ Count(kept, x) \in Nat
      /\ Count(queue', x) \in Nat /\ Count(list', x) \in Nat /\ Count(kept', x) \in Nat
  BY CountType DEF ControlType
<1>4. /\ box[t] \in Seq(1..Issues) /\ got[t] \in Seq(1..Issues)
      /\ box'[t] \in Seq(1..Issues) /\ got'[t] \in Seq(1..Issues)
  BY DEF TargetType
<1>5. /\ Count(box[t], m) \in Nat /\ Count(got[t], m) \in Nat
      /\ Count(box'[t], m) \in Nat /\ Count(got'[t], m) \in Nat
  BY <1>4, CountType
<1>6. Places(t, m) = Count(queue, x) + Count(list, x) + Count(kept, x)
                     + Count(box[t], m) + Count(got[t], m) + (IF x \in dropped THEN 1 ELSE 0)
  BY <1>1 DEF Places
<1>7. Places(t, m)' = Count(queue', x) + Count(list', x) + Count(kept', x)
                      + Count(box'[t], m) + Count(got'[t], m) + (IF x \in dropped' THEN 1 ELSE 0)
  BY <1>1 DEF Places
<1> QED
  BY <1>2, <1>3, <1>5, <1>6, <1>7

(* Messages move, or stay where they are, and none is added.               *)
Moves == \A t \in Targets, m \in 1..Issues : Places(t, m)' <= Places(t, m)

Typed == ControlType' /\ TimerType' /\ TargetType' /\ Settled' /\ Mailed'

LEMMA MovesInv ==
    ASSUME PostponeInv, Typed, Moves, UNCHANGED issued, why'.ids \subseteq why.ids,
           pc' \in {"send", "retry"} => pc \in {"send", "retry"} \/ why'.ids = {}
    PROVE  PostponeInv'
<1>1. ControlType /\ TargetType /\ NoDuplicate /\ Unissued /\ Unsent
  BY DEF PostponeInv
<1>2. \A t \in Targets, m \in 1..Issues : Places(t, m) \in Nat /\ Places(t, m)' \in Nat
  BY <1>1, PlacesAre DEF Typed
<1>3. NoDuplicate' /\ Unissued'
  <2>1. \A t \in Targets, m \in 1..Issues :
           /\ Places(t, m)' <= 1
           /\ m > issued => Places(t, m)' = 0
    BY <1>1, <1>2 DEF NoDuplicate, Unissued, Moves
  <2> QED
    BY <2>1 DEF NoDuplicate, Unissued
<1>4. Unsent'
  <2>1. why.ids \subseteq Targets /\ (why.ids # {} => issued \in 1..Issues)
    BY <1>1 DEF ControlType, Purpose, TargetType, Unsent
  <2>2. ASSUME NEW t \in why'.ids, pc' \in {"send", "retry"} PROVE Places(t, issued)' = 0
    <3>1. t \in Targets /\ issued \in 1..Issues /\ Places(t, issued) = 0
      BY <1>1, <2>1, <2>2 DEF Unsent
    <3>2. PICK m \in 1..Issues : m = issued
      BY <3>1
    <3>3. Places(t, m)' = 0
      BY <1>2, <3>1, <3>2 DEF Moves
    <3> QED
      BY <3>2, <3>3
  <2>3. why'.ids # {} => issued' > 0
    BY <1>1 DEF Unsent
  <2> QED
    BY <2>2, <2>3 DEF Unsent
<1> QED
  BY <1>3, <1>4 DEF PostponeInv, Typed

(* The current message is sent to one of its targets.                      *)
LEMMA SendsInv ==
    ASSUME PostponeInv, Typed, UNCHANGED issued, NEW t \in Targets, t \in why.ids, pc = "send",
           why'.ids \subseteq why.ids, pc' \in {"send", "retry"} => t \notin why'.ids,
           \A u \in Targets, m \in 1..Issues : Places(u, m)' <= Places(u, m) + (IF u = t /\ m = issued THEN 1 ELSE 0)
    PROVE  PostponeInv'
<1>1. ControlType /\ TargetType /\ NoDuplicate /\ Unissued /\ Unsent
  BY DEF PostponeInv
<1>2. \A u \in Targets, m \in 1..Issues : Places(u, m) \in Nat /\ Places(u, m)' \in Nat
  BY <1>1, PlacesAre DEF Typed
<1>3. issued \in 1..Issues /\ Places(t, issued) = 0 /\ why.ids \subseteq Targets
  BY <1>1 DEF ControlType, Purpose, TargetType, Unsent
<1>4. NoDuplicate' /\ Unissued'
  <2>1. PICK k \in 1..Issues : k = issued
    BY <1>3
  <2>2. Places(t, k)' <= 1
    BY <1>2, <1>3, <2>1
  <2>3. \A u \in Targets, m \in 1..Issues : u # t \/ m # k => Places(u, m)' <= Places(u, m)
    BY <1>2, <2>1
  <2> QED
    BY <1>1, <1>2, <1>3, <2>1, <2>2, <2>3 DEF NoDuplicate, Unissued
<1>5. Unsent'
  <2>1. ASSUME NEW u \in why'.ids, pc' \in {"send", "retry"} PROVE Places(u, issued)' = 0
    <3>1. u \in Targets /\ u # t /\ Places(u, issued) = 0
      BY <1>1, <1>3, <2>1 DEF Unsent
    <3>2. PICK m \in 1..Issues : m = issued
      BY <1>3
    <3>3. Places(u, m)' = 0
      BY <1>2, <3>1, <3>2
    <3> QED
      BY <3>2, <3>3
  <2> QED
    BY <1>3, <2>1 DEF Unsent
<1> QED
  BY <1>4, <1>5 DEF PostponeInv, Typed

(* Nothing is moved.                                                       *)
LEMMA QuietInv ==
    ASSUME PostponeInv, UNCHANGED <<why, queue, set, list, kept, box, issued, got, dropped>>,
           pc' = pc \/ (pc' = "idle" /\ pc # "retry"),
           TimerType', alive' \in [Targets -> BOOLEAN], Mailed'
    PROVE  PostponeInv'
<1>1. ControlType /\ TargetType /\ Settled
  BY DEF PostponeInv
<1>2. ControlType' /\ TargetType'
  BY <1>1 DEF ControlType, TargetType
<1>3. Typed
  BY <1>1, <1>2 DEF Typed, Settled, NewSet, Range
<1>4. Moves
  <2> SUFFICES ASSUME NEW t \in Targets, NEW m \in 1..Issues PROVE Places(t, m)' <= Places(t, m)
    BY DEF Moves
  <2>1. Places(t, m)' = Places(t, m) /\ Places(t, m) \in Nat
    BY <1>1, <1>2, PlacesAre DEF Places, Count
  <2> QED
    BY <2>1
<1> QED
  BY <1>3, <1>4, MovesInv

(* poseponePost begins: the queue becomes the list.                        *)
LEMMA BeginsRetry ==
    ASSUME PostponeInv, pc # "retry", NEW w \in Purpose, BeginRetry(w), UNCHANGED set
    PROVE  /\ ControlType' /\ Settled' /\ why' = w
           /\ \A x \in Item : Count(queue', x) + Count(list', x) + Count(kept', x)
                              <= Count(queue, x) + Count(list, x) + Count(kept, x)
<1>1. ControlType /\ list = << >> /\ kept = << >> /\ set = NewSet(queue)
  BY DEF PostponeInv, Settled
<1>2. /\ queue' = << >> /\ list' = queue /\ kept' = << >> /\ why' = w
      /\ pc' = IF queue = << >> THEN After(w) ELSE "retry"
  BY DEF BeginRetry
<1>3. ControlType'
  <2>1. << >> \in Seq(Item) /\ pc' \in {"idle", "retry", "send", "reply"}
    BY <1>2 DEF After
  <2> QED
    BY <1>1, <1>2, <2>1 DEF ControlType
<1>4. Settled'
  BY <1>1, <1>2 DEF Settled, NewSet, Range
<1>5. \A x \in Item : Count(<< >>, x) = 0
  BY CountEmpty
<1>6. \A x \in Item : Count(queue, x) \in Nat
  BY <1>1, CountType DEF ControlType
<1>7. \A x \in Item : Count(queue', x) + Count(list', x) + Count(kept', x)
                      <= Count(queue, x) + Count(list, x) + Count(kept, x)
  BY <1>1, <1>2, <1>5, <1>6
<1> QED
  BY <1>2, <1>3, <1>4, <1>7

LEMMA RetryMoves ==
    ASSUME ControlType, TargetType, ControlType', TargetType', UNCHANGED <<box, got, dropped>>,
           \A x \in Item : Count(queue', x) + Count(list', x) + Count(kept', x)
                           <= Count(queue, x) + Count(list, x) + Count(kept, x)
    PROVE  Moves
<1> SUFFICES ASSUME NEW t \in Targets, NEW m \in 1..Issues PROVE Places(t, m)' <= Places(t, m)
  BY DEF Moves
<1>1. PICK x \in Item :
        /\ Places(t, m) = Count(queue, x) + Count(list, x) + Count(kept, x)
                          + Count(box[t], m) + Count(got[t], m) + (IF x \in dropped THEN 1 ELSE 0)
        /\ Places(t, m)' = Count(queue', x) + Count(list', x) + Count(kept', x)
                           + Count(box'[t], m) + Count(got'[t], m) + (IF x \in dropped' THEN 1 ELSE 0)
        /\ Count(box[t], m) \in Nat /\ Count(got[t], m) \in Nat
        /\ Count(queue, x) \in Nat /\ Count(list, x) \in Nat /\ Count(kept, x) \in Nat
  BY PlacesAre
<1>2. Count(queue', x) \in Nat /\ Count(list', x) \in Nat /\ Count(kept', x) \in Nat
  BY CountType DEF ControlType
<1>3. Count(box'[t], m) = Count(box[t], m) /\ Count(got'[t], m) = Count(got[t], m)
  OBVIOUS
<1> QED
  BY <1>1, <1>2, <1>3

(* A handler begins to send a message that nobody has seen.                *)
LEMMA IssueInv ==
    ASSUME PostponeInv, NEW op \in {"post", "once", "call"}, NEW ts \in SUBSET Targets, Issue(op, ts)
    PROVE  PostponeInv'
<1>1. ControlType /\ TimerType /\ TargetType /\ Mailed /\ NoDuplicate /\ Unissued
  BY DEF PostponeInv
<1>2. /\ pc = "idle" /\ issued < Issues /\ issued' = issued + 1 /\ BeginRetry(By(op, ts))
      /\ UNCHANGED <<set, timer, armed, own, box, alive, got, dropped>>
  BY DEF Issue
<1>3. By(op, ts) \in Purpose /\ By(op, ts).ids = ts
  BY DEF By, Purpose, Again
<1>4. PICK w \in Purpose : w = By(op, ts)
  BY <1>3
<1>5. /\ ControlType' /\ Settled' /\ why' = w
      /\ \A x \in Item : Count(queue', x) + Count(list', x) + Count(kept', x)
                         <= Count(queue, x) + Count(list, x) + Count(kept, x)
  BY <1>2, <1>4, BeginsRetry
<1>6. TimerType' /\ TargetType' /\ Mailed' /\ issued' \in 1..Issues
  BY <1>1, <1>2, PostponeAssumption DEF TimerType, TargetType, Mailed
<1>7. Moves
  BY <1>1, <1>2, <1>5, <1>6, RetryMoves
<1>8. \A t \in Targets, m \in 1..Issues : Places(t, m) \in Nat /\ Places(t, m)' \in Nat
  BY <1>1, <1>5, <1>6, PlacesAre
<1>9. NoDuplicate' /\ Unissued' /\ Unsent'
  <2>1. \A t \in Targets, m \in 1..Issues :
           /\ Places(t, m)' <= 1
           /\ m > issued => Places(t, m)' = 0
    BY <1>1, <1>7, <1>8 DEF NoDuplicate, Unissued, Moves
  <2>2. PICK k \in 1..Issues : k = issued' /\ k > issued
    BY <1>1, <1>2, <1>6 DEF TargetType
  <2>3. \A t \in Targets : Places(t, k)' = 0
    BY <2>1, <2>2
  <2>4. \A t \in Targets, m \in 1..Issues : m > issued' => Places(t, m)' = 0
    BY <1>1, <2>1, <1>2 DEF TargetType
  <2>5. why'.ids \subseteq Targets
    BY <1>5 DEF Purpose
  <2> QED
    BY <1>6, <2>1, <2>2, <2>3, <2>4, <2>5 DEF NoDuplicate, Unissued, Unsent
<1> QED
  BY <1>5, <1>6, <1>9 DEF PostponeInv

(* The flush timer's callback and the end of the context retry the queue.  *)
LEMMA RetryInv ==
    ASSUME PostponeInv, TimerInvoked \/ Clear
    PROVE  PostponeInv'
<1>1. ControlType /\ TimerType /\ TargetType /\ Mailed
  BY DEF PostponeInv
<1>2. PICK op \in {"timer", "clear"} :
        /\ pc = "idle" /\ BeginRetry(By(op, {})) /\ UNCHANGED <<set, box, alive, issued, got, dropped>>
        /\ timer' = "off" /\ armed' = FALSE
        /\ own' = own \/ (own' = own - 1 /\ timer = "mailed")
  BY DEF TimerInvoked, Clear
<1>3. By(op, {}) \in Purpose /\ By(op, {}).ids = {}
  BY DEF By, Purpose, Again
<1>4. PICK w \in Purpose : w = By(op, {}) /\ w.ids = {}
  BY <1>3
<1>5. /\ ControlType' /\ Settled' /\ why' = w
      /\ \A x \in Item : Count(queue', x) + Count(list', x) + Count(kept', x)
                         <= Count(queue, x) + Count(list, x) + Count(kept, x)
  BY <1>2, <1>4, BeginsRetry
<1>6. TimerType' /\ Mailed'
  <2>1. own' \in 0..OwnMails /\ timer' # "mailed" /\ timer' \in {"off", "running", "mailed", "lost"}
    BY <1>1, <1>2, PostponeAssumption DEF TimerType, Mailed
  <2>2. armed' \in BOOLEAN
    BY <1>2
  <2> QED
    BY <2>1, <2>2, Zenon DEF TimerType, Mailed
<1>7. TargetType'
  BY <1>1, <1>2 DEF TargetType
<1>8. Moves
  BY <1>1, <1>2, <1>5, <1>7, RetryMoves
<1> QED
  BY <1>2, <1>4, <1>5, <1>6, <1>7, <1>8, MovesInv DEF Typed

(* FPost puts the message in the mailbox of a target that is not full.     *)
LEMMA Posted ==
    ASSUME TargetType, NEW t \in Targets, NEW m \in 1..Issues, ~Busy(t), ~Gone(t), FPost(t, m)
    PROVE  /\ box' \in [Targets -> Seq(1..Issues)] /\ \A u \in Targets : Len(box'[u]) <= Capacity
           /\ \A u \in Targets, k \in 1..Issues :
                 Count(box'[u], k) = Count(box[u], k) + (IF u = t /\ k = m THEN 1 ELSE 0)
<1>1. PICK b \in Seq(1..Issues) : b = box[t] /\ Len(b) \in Nat /\ Len(b) < Capacity
  BY PostponeAssumption DEF TargetType, Busy, Gone
<1>2. Append(b, m) \in Seq(1..Issues) /\ Len(Append(b, m)) = Len(b) + 1
  BY AppendProperties
<1>3. /\ box' \in [Targets -> Seq(1..Issues)]
      /\ box'[t] = Append(b, m)
      /\ \A u \in Targets \ {t} : box'[u] = box[u]
  BY <1>1, <1>2 DEF FPost, TargetType
<1>4. \A u \in Targets : Len(box[u]) <= Capacity
  BY DEF TargetType
<1>5. Len(box'[t]) <= Capacity
  BY <1>1, <1>2, <1>3, PostponeAssumption
<1>6. ASSUME NEW u \in Targets, NEW k \in 1..Issues
      PROVE  Count(box'[u], k) = Count(box[u], k) + (IF u = t /\ k = m THEN 1 ELSE 0)
  <2>1. CASE u = t
    <3>1. Count(Append(b, m), k) = Count(b, k) + (IF m = k THEN 1 ELSE 0)
      BY BoxAppend
    <3> QED
      BY <1>1, <1>3, <2>1, <3>1
  <2>2. CASE u # t
    <3>1. box[u] \in Seq(1..Issues)
      BY DEF TargetType
    <3>2. Count(box[u], k) \in Nat
      BY <3>1, CountType
    <3> QED
      BY <1>3, <2>2, <3>2
  <2> QED
    BY <2>1, <2>2
<1> QED
  BY <1>3, <1>4, <1>5, <1>6

(* One item of poseponePost's list: kept, given up or sent.                *)
LEMMA RetryOneInv ==
    ASSUME PostponeInv, RetryOne
    PROVE  PostponeInv'
<1>1. ControlType /\ TimerType /\ TargetType /\ Settled /\ Mailed
  BY DEF PostponeInv
<1>2. /\ pc = "retry" /\ list # << >> /\ list' = Tail(list)
      /\ UNCHANGED <<pc, why, queue, set, timer, armed, own, alive, issued, got>>
  BY DEF RetryOne
<1>3. /\ list \in Seq(Item) /\ kept \in Seq(Item)
  BY <1>1 DEF ControlType
<1>4. PICK e \in Item : e = Head(list)
  BY <1>2, <1>3, HeadTailProperties
<1>5. \/ kept' = Append(kept, e) /\ Busy(e.id) /\ UNCHANGED <<box, dropped>>
      \/ kept' = kept /\ dropped' = dropped \cup {e} /\ UNCHANGED box
      \/ kept' = kept /\ ~Busy(e.id) /\ ~Gone(e.id) /\ FPost(e.id, e.msg) /\ UNCHANGED dropped
  BY <1>4 DEF RetryOne, Stays, Busy, Gone
<1>6. e.id \in Targets /\ e.msg \in 1..Issues
  BY DEF Item
<1>7. ControlType'
  <2>1. list' \in Seq(Item) /\ kept' \in Seq(Item)
    <3>1. Tail(list) \in Seq(Item)
      BY <1>2, <1>3, HeadTailProperties
    <3>2. Append(kept, e) \in Seq(Item)
      BY <1>3, AppendProperties
    <3> QED
      BY <1>2, <1>3, <1>5, <3>1, <3>2
  <2> QED
    BY <1>1, <1>2, <2>1 DEF ControlType
<1>8. ~Busy(e.id) /\ ~Gone(e.id) /\ FPost(e.id, e.msg) =>
         /\ box' \in [Targets -> Seq(1..Issues)] /\ \A u \in Targets : Len(box'[u]) <= Capacity
         /\ \A u \in Targets, k \in 1..Issues :
               Count(box'[u], k) = Count(box[u], k) + (IF u = e.id /\ k = e.msg THEN 1 ELSE 0)
  BY <1>1, <1>6, Posted
<1>9. TargetType'
  BY <1>1, <1>2, <1>5, <1>8 DEF TargetType
<1>10. Typed
  BY <1>1, <1>2, <1>7, <1>9 DEF Typed, TimerType, Settled, Mailed
<1>11. Moves
  <2> SUFFICES ASSUME NEW t \in Targets, NEW m \in 1..Issues PROVE Places(t, m)' <= Places(t, m)
    BY DEF Moves
  <2>1. PICK x \in Item :
          /\ \A y \in Item : y = x <=> y.id = t /\ y.msg = m
          /\ Count(queue, x) \in Nat /\ Count(list, x) \in Nat /\ Count(kept, x) \in Nat
          /\ Count(box[t], m) \in Nat /\ Count(got[t], m) \in Nat
          /\ Places(t, m) = Count(queue, x) + Count(list, x) + Count(kept, x)
                            + Count(box[t], m) + Count(got[t], m) + (IF x \in dropped THEN 1 ELSE 0)
          /\ Places(t, m)' = Count(queue', x) + Count(list', x) + Count(kept', x)
                             + Count(box'[t], m) + Count(got'[t], m) + (IF x \in dropped' THEN 1 ELSE 0)
    BY <1>1, <1>7, <1>9, PlacesAre
  <2>2. Count(list, x) = Count(list', x) + (IF e = x THEN 1 ELSE 0) /\ Count(list', x) \in Nat
    <3>1. Count(list, x) = Count(Tail(list), x) + (IF Head(list) = x THEN 1 ELSE 0)
      BY <1>2, <1>3, CountTail
    <3>2. Count(list', x) \in Nat
      BY <1>7, CountType DEF ControlType
    <3> QED
      BY <1>2, <1>4, <3>1, <3>2
  <2>3. Count(queue', x) = Count(queue, x) /\ Count(got'[t], m) = Count(got[t], m)
    BY <1>2
  <2>4. CASE kept' = Append(kept, e) /\ UNCHANGED <<box, dropped>>
    <3>1. Count(kept', x) = Count(kept, x) + (IF e = x THEN 1 ELSE 0)
      BY <1>3, <2>4, CountAppend
    <3>2. Count(box'[t], m) = Count(box[t], m)
      BY <2>4
    <3> QED
      BY <2>1, <2>2, <2>3, <2>4, <3>1, <3>2
  <2>5. CASE kept' = kept /\ dropped' = dropped \cup {e} /\ UNCHANGED box
    <3>1. Count(kept', x) = Count(kept, x) /\ Count(box'[t], m) = Count(box[t], m)
      BY <2>5
    <3>2. x \in dropped' <=> x \in dropped \/ e = x
      BY <2>5
    <3> QED
      BY <2>1, <2>2, <2>3, <3>1, <3>2
  <2>6. CASE kept' = kept /\ ~Busy(e.id) /\ ~Gone(e.id) /\ FPost(e.id, e.msg) /\ UNCHANGED dropped
    <3>1. Count(kept', x) = Count(kept, x)
      BY <2>6
    <3>2. Count(box'[t], m) = Count(box[t], m) + (IF e = x THEN 1 ELSE 0)
      BY <1>8, <2>1, <2>6
    <3> QED
      BY <2>1, <2>2, <2>3, <2>6, <3>1, <3>2
  <2> QED
    BY <1>5, <2>4, <2>5, <2>6
<1> QED
  BY <1>2, <1>10, <1>11, MovesInv

(* The timer that armPostponeFlush leaves.                                 *)
LEMMA FlushType ==
    ASSUME TimerType, Mailed, NEW q, ArmFlush(q), UNCHANGED own
    PROVE  TimerType' /\ Mailed'
<1>1. timer' \in {"off", "running", "mailed", "lost"} /\ own' \in 0..OwnMails /\ Mailed'
  BY DEF TimerType, Mailed, ArmFlush
<1>2. armed' \in BOOLEAN
  BY Zenon DEF TimerType, ArmFlush
<1> QED
  BY <1>1, <1>2, Zenon DEF TimerType

(* poseponePost ends: what was kept is the queue, or given up.             *)
LEMMA RetryDoneInv ==
    ASSUME PostponeInv, RetryDone
    PROVE  PostponeInv'
<1>1. ControlType /\ TimerType /\ TargetType /\ Settled /\ Mailed
  BY DEF PostponeInv
<1>2. /\ pc = "retry" /\ list = << >> /\ list' = << >> /\ kept' = << >> /\ pc' = After(why)
      /\ UNCHANGED <<why, own, box, alive, issued, got>>
  BY DEF RetryDone
<1>3. /\ queue \in Seq(Item) /\ kept \in Seq(Item) /\ << >> \in Seq(Item)
  BY <1>1 DEF ControlType
<1>4. \/ queue' = << >> /\ dropped' = dropped \cup Range(kept)
      \/ queue' = kept /\ dropped' = dropped
  BY DEF RetryDone
<1>5. set' = NewSet(queue') /\ NewSet(queue') \subseteq Targets
  <2>1. set' = NewSet(queue')
    BY DEF RetryDone, NewSet, Range
  <2>2. queue' \in Seq(Item)
    BY <1>3, <1>4
  <2>3. \A i \in DOMAIN queue' : queue'[i] \in Item
    BY <2>2
  <2> QED
    BY <2>1, <2>3 DEF NewSet, Range, Item
<1>6. ControlType'
  <2>1. pc' \in {"idle", "retry", "send", "reply"}
    BY <1>2 DEF After
  <2> QED
    BY <1>1, <1>2, <1>3, <1>4, <1>5, <2>1 DEF ControlType
<1>7. TimerType' /\ Mailed'
  <2>1. CASE armed' = FALSE /\ timer' = "off"
    <3>1. timer' \in {"off", "running", "mailed", "lost"} /\ own' \in 0..OwnMails /\ Mailed'
      BY <1>1, <1>2, <2>1 DEF TimerType, Mailed
    <3> QED
      BY <2>1, <3>1, Zenon DEF TimerType
  <2>2. CASE ArmFlush(kept)
    BY <1>1, <1>2, <2>2, FlushType
  <2>3. CASE UNCHANGED <<armed, timer>>
    BY <1>1, <1>2, <2>3 DEF TimerType, Mailed
  <2> QED
    BY <2>1, <2>2, <2>3 DEF RetryDone
<1>8. TargetType'
  <2>1. Range(kept) \subseteq Item
    BY <1>3 DEF Range
  <2> QED
    BY <1>1, <1>2, <1>4, <2>1 DEF TargetType
<1>9. Moves
  <2> SUFFICES ASSUME NEW t \in Targets, NEW m \in 1..Issues PROVE Places(t, m)' <= Places(t, m)
    BY DEF Moves
  <2>1. PICK x \in Item :
          /\ Count(queue, x) \in Nat /\ Count(list, x) \in Nat /\ Count(kept, x) \in Nat
          /\ Count(box[t], m) \in Nat /\ Count(got[t], m) \in Nat
          /\ Places(t, m) = Count(queue, x) + Count(list, x) + Count(kept, x)
                            + Count(box[t], m) + Count(got[t], m) + (IF x \in dropped THEN 1 ELSE 0)
          /\ Places(t, m)' = Count(queue', x) + Count(list', x) + Count(kept', x)
                             + Count(box'[t], m) + Count(got'[t], m) + (IF x \in dropped' THEN 1 ELSE 0)
    BY <1>1, <1>6, <1>8, PlacesAre
  <2>2. /\ Count(list', x) = 0 /\ Count(kept', x) = 0 /\ Count(<< >>, x) = 0
        /\ Count(box'[t], m) = Count(box[t], m) /\ Count(got'[t], m) = Count(got[t], m)
    BY <1>2, CountEmpty
  <2>3. Count(kept, x) = 0 <=> x \notin Range(kept)
    BY <1>3, CountType
  <2> QED
    BY <1>4, <2>1, <2>2, <2>3
<1>10. Typed
  BY <1>2, <1>5, <1>6, <1>7, <1>8 DEF Typed, Settled
<1> QED
  BY <1>2, <1>9, <1>10, MovesInv

(* The current message reaches target t's mailbox, the queue or nobody.    *)
LEMMA SentPlaces ==
    ASSUME ControlType, TargetType, ControlType', TargetType', UNCHANGED <<list, kept, got>>,
           NEW t \in Targets, NEW e \in Item, e.id = t,
           \/ queue' = Append(queue, e) /\ UNCHANGED <<box, dropped>>
           \/ dropped' = dropped \cup {e} /\ UNCHANGED <<queue, box>>
           \/ /\ ~Busy(t) /\ ~Gone(t) /\ FPost(t, e.msg)
              /\ UNCHANGED <<queue, dropped>>
    PROVE  \A u \in Targets, m \in 1..Issues :
              Places(u, m)' <= Places(u, m) + (IF u = t /\ m = e.msg THEN 1 ELSE 0)
<1> SUFFICES ASSUME NEW u \in Targets, NEW m \in 1..Issues
             PROVE  Places(u, m)' <= Places(u, m) + (IF u = t /\ m = e.msg THEN 1 ELSE 0)
  OBVIOUS
<1>1. PICK x \in Item :
        /\ \A y \in Item : y = x <=> y.id = u /\ y.msg = m
        /\ Count(queue, x) \in Nat /\ Count(list, x) \in Nat /\ Count(kept, x) \in Nat
        /\ Count(box[u], m) \in Nat /\ Count(got[u], m) \in Nat
        /\ Places(u, m) = Count(queue, x) + Count(list, x) + Count(kept, x)
                          + Count(box[u], m) + Count(got[u], m) + (IF x \in dropped THEN 1 ELSE 0)
        /\ Places(u, m)' = Count(queue', x) + Count(list', x) + Count(kept', x)
                           + Count(box'[u], m) + Count(got'[u], m) + (IF x \in dropped' THEN 1 ELSE 0)
  BY PlacesAre
<1>2. e = x <=> u = t /\ m = e.msg
  BY <1>1
<1>3. /\ Count(list', x) = Count(list, x) /\ Count(kept', x) = Count(kept, x)
      /\ Count(got'[u], m) = Count(got[u], m)
  OBVIOUS
<1>4. CASE queue' = Append(queue, e) /\ UNCHANGED <<box, dropped>>
  <2>1. queue \in Seq(Item)
    BY DEF ControlType
  <2>2. Count(queue', x) = Count(queue, x) + (IF e = x THEN 1 ELSE 0)
    BY <1>4, <2>1, CountAppend
  <2>3. Count(box'[u], m) = Count(box[u], m)
    BY <1>4
  <2> QED
    BY <1>1, <1>2, <1>3, <1>4, <2>2, <2>3
<1>5. CASE dropped' = dropped \cup {e} /\ UNCHANGED <<queue, box>>
  <2>1. Count(queue', x) = Count(queue, x) /\ Count(box'[u], m) = Count(box[u], m)
    BY <1>5
  <2>2. x \in dropped' <=> x \in dropped \/ e = x
    BY <1>5
  <2> QED
    BY <1>1, <1>2, <1>3, <2>1, <2>2
<1>6. CASE ~Busy(t) /\ ~Gone(t) /\ FPost(t, e.msg) /\ UNCHANGED <<queue, dropped>>
  <2>1. e.msg \in 1..Issues
    BY DEF Item
  <2>2. Count(box'[u], m) = Count(box[u], m) + (IF u = t /\ m = e.msg THEN 1 ELSE 0)
    BY <1>6, <2>1, Posted
  <2>3. Count(queue', x) = Count(queue, x)
    BY <1>6
  <2> QED
    BY <1>1, <1>3, <1>6, <2>2, <2>3
<1> QED
  BY <1>4, <1>5, <1>6

LEMMA SendOneInv ==
    ASSUME PostponeInv, NEW t \in Targets, SendOne(t)
    PROVE  PostponeInv'
<1>1. ControlType /\ TimerType /\ TargetType /\ Settled /\ Mailed /\ Unsent
  BY DEF PostponeInv
<1>2. /\ pc = "send" /\ t \in why.ids /\ why' = [why EXCEPT !.ids = @ \ {t}]
      /\ UNCHANGED <<pc, list, kept, own, alive, issued, got>>
  BY DEF SendOne
<1>3. PICK e \in Item : e = [id |-> t, msg |-> issued] /\ e.id = t /\ e.msg = issued
  <2>1. issued \in 1..Issues
    BY <1>1, <1>2 DEF Unsent, TargetType
  <2>2. [id |-> t, msg |-> issued] \in Item
    BY <2>1 DEF Item
  <2> QED
    BY <2>2
<1>4. \/ AppendPostpone(e) /\ UNCHANGED <<box, dropped>>
      \/ dropped' = dropped \cup {e} /\ UNCHANGED <<queue, set, timer, armed, box>>
      \/ /\ ~Busy(t) /\ ~Gone(t) /\ FPost(t, e.msg)
         /\ UNCHANGED <<queue, set, timer, armed, dropped>>
  BY <1>3 DEF SendOne, MustQueue
<1>5. queue \in Seq(Item) /\ set = NewSet(queue) /\ list = << >> /\ kept = << >> /\ set \subseteq Targets
  BY <1>1, <1>2 DEF ControlType, Settled
<1>6. queue' \in Seq(Item) /\ set' = NewSet(queue') /\ set' \subseteq Targets
  <2>1. CASE AppendPostpone(e)
    <3>1. queue' = Append(queue, e) /\ set' = set \cup {t}
      BY <1>3, <2>1 DEF AppendPostpone
    <3>2. Append(queue, e) \in Seq(Item) /\ NewSet(Append(queue, e)) = NewSet(queue) \cup {t}
      BY <1>3, <1>5, AppendProperties, NewSetAppend
    <3> QED
      BY <1>5, <3>1, <3>2
  <2>2. CASE UNCHANGED <<queue, set>>
    BY <1>5, <2>2
  <2> QED
    BY <1>4, <2>1, <2>2
<1>7. why' \in Purpose /\ why'.ids = why.ids \ {t}
  BY <1>1, <1>2 DEF ControlType, Purpose
<1>8. ControlType' /\ Settled'
  BY <1>1, <1>2, <1>5, <1>6, <1>7 DEF ControlType, Settled
<1>9. TimerType' /\ Mailed'
  <2>1. CASE AppendPostpone(e)
    BY <1>1, <1>2, <2>1, FlushType DEF AppendPostpone
  <2>2. CASE UNCHANGED <<timer, armed>>
    BY <1>1, <1>2, <2>2 DEF TimerType, Mailed
  <2> QED
    BY <1>4, <2>1, <2>2
<1>10. TargetType'
  <2>1. e.msg \in 1..Issues
    BY DEF Item
  <2>2. box' \in [Targets -> Seq(1..Issues)] /\ \A u \in Targets : Len(box'[u]) <= Capacity
    <3>1. CASE UNCHANGED box
      BY <1>1, <3>1 DEF TargetType
    <3>2. CASE ~Busy(t) /\ ~Gone(t) /\ FPost(t, e.msg)
      BY <1>1, <2>1, <3>2, Posted
    <3> QED
      BY <1>4, <3>1, <3>2
  <2> QED
    BY <1>1, <1>2, <1>4, <2>2 DEF TargetType
<1>11. \/ queue' = Append(queue, e) /\ UNCHANGED <<box, dropped>>
       \/ dropped' = dropped \cup {e} /\ UNCHANGED <<queue, box>>
       \/ /\ ~Busy(t) /\ ~Gone(t) /\ FPost(t, e.msg)
          /\ UNCHANGED <<queue, dropped>>
  BY <1>4 DEF AppendPostpone
<1>12. \A u \in Targets, m \in 1..Issues :
          Places(u, m)' <= Places(u, m) + (IF u = t /\ m = e.msg THEN 1 ELSE 0)
  BY <1>1, <1>2, <1>3, <1>8, <1>10, <1>11, SentPlaces
<1> QED
  BY <1>2, <1>3, <1>7, <1>8, <1>9, <1>10, <1>12, SendsInv DEF Typed

LEMMA CallOneInv ==
    ASSUME PostponeInv, NEW t \in Targets, CallOne(t)
    PROVE  PostponeInv'
<1>1. ControlType /\ TimerType /\ TargetType /\ Settled /\ Mailed /\ Unsent
  BY DEF PostponeInv
<1>2. pc = "send" /\ t \in why.ids /\ UNCHANGED <<set, timer, armed, own, alive, issued, got>>
  BY DEF CallOne
<1>3. TimerType' /\ Mailed'
  BY <1>1, <1>2 DEF TimerType, Mailed
<1>4. CASE why.again > 0 /\ BeginRetry([why EXCEPT !.again = @ - 1]) /\ UNCHANGED <<box, dropped>>
  <2>1. PICK w \in Purpose : w = [why EXCEPT !.again = @ - 1] /\ w.ids = why.ids
    <3>1. why.again \in 0..2 /\ why.again - 1 \in 0..2
      BY <1>1, <1>4 DEF ControlType, Purpose, Again
    <3> DEFINE a == why.again - 1
               w == [why EXCEPT !.again = a]
    <3>2. a \in 0..Again /\ why \in Purpose
      BY <1>1, <3>1 DEF ControlType, Again
    <3> HIDE DEF a
    <3>3. w \in Purpose /\ w.ids = why.ids
      BY <3>2 DEF Purpose
    <3> QED
      BY <3>2, <3>3 DEF a, Purpose
  <2>2. /\ ControlType' /\ Settled' /\ why' = w
        /\ \A x \in Item : Count(queue', x) + Count(list', x) + Count(kept', x)
                           <= Count(queue, x) + Count(list, x) + Count(kept, x)
    BY <1>2, <1>4, <2>1, BeginsRetry
  <2>3. TargetType'
    BY <1>1, <1>2, <1>4 DEF TargetType
  <2>4. Moves
    BY <1>1, <1>2, <1>4, <2>2, <2>3, RetryMoves
  <2> QED
    BY <1>2, <1>3, <2>1, <2>2, <2>3, <2>4, MovesInv DEF Typed
<1>5. CASE ~(why.again > 0 /\ BeginRetry([why EXCEPT !.again = @ - 1]) /\ UNCHANGED <<box, dropped>>)
  <2>1. PICK e \in Item : e = [id |-> t, msg |-> issued] /\ e.id = t /\ e.msg = issued
    <3>1. issued \in 1..Issues
      BY <1>1, <1>2 DEF Unsent, TargetType
    <3>2. [id |-> t, msg |-> issued] \in Item
      BY <3>1 DEF Item
    <3> QED
      BY <3>2
  <2>2. /\ pc' \in {"idle", "reply"} /\ UNCHANGED <<why, queue, list, kept>>
        /\ \/ dropped' = dropped \cup {e} /\ UNCHANGED <<queue, box>>
           \/ /\ ~Busy(t) /\ ~Gone(t) /\ FPost(t, e.msg)
              /\ UNCHANGED <<queue, dropped>>
    BY <1>5, <2>1 DEF CallOne, MustQueue
  <2>3. ControlType' /\ Settled'
    BY <1>1, <1>2, <2>2 DEF ControlType, Settled, NewSet, Range
  <2>4. TargetType'
    <3>1. e.msg \in 1..Issues
      BY DEF Item
    <3>2. box' \in [Targets -> Seq(1..Issues)] /\ \A u \in Targets : Len(box'[u]) <= Capacity
      <4>1. CASE UNCHANGED box
        BY <1>1, <4>1 DEF TargetType
      <4>2. CASE ~Busy(t) /\ ~Gone(t) /\ FPost(t, e.msg)
        BY <1>1, <3>1, <4>2, Posted
      <4> QED
        BY <2>2, <4>1, <4>2
    <3> QED
      BY <1>1, <1>2, <2>2, <3>2 DEF TargetType
  <2>5. \A u \in Targets, m \in 1..Issues :
           Places(u, m)' <= Places(u, m) + (IF u = t /\ m = e.msg THEN 1 ELSE 0)
    BY <1>1, <1>2, <2>1, <2>2, <2>3, <2>4, SentPlaces
  <2> QED
    BY <1>2, <1>3, <2>1, <2>2, <2>3, <2>4, <2>5, SendsInv DEF Typed
<1> QED
  BY <1>4, <1>5

(* A target takes a message out of its mailbox.                            *)
LEMMA TakesInv ==
    ASSUME PostponeInv, NEW t \in Targets, TargetTakes(t)
    PROVE  PostponeInv'
<1>1. ControlType /\ TimerType /\ TargetType /\ Settled /\ Mailed
  BY DEF PostponeInv
<1>2. /\ box[t] # << >> /\ box' = [box EXCEPT ![t] = Tail(@)]
      /\ got' = [got EXCEPT ![t] = Append(@, Head(box[t]))]
      /\ UNCHANGED <<pc, why, queue, set, list, kept, timer, armed, own, alive, issued, dropped>>
  BY DEF TargetTakes, control
<1>3. PICK b \in Seq(1..Issues), g \in Seq(1..Issues) : b = box[t] /\ g = got[t] /\ Len(b) <= Capacity
  BY <1>1 DEF TargetType
<1>4. b # << >> /\ Head(b) \in 1..Issues /\ Tail(b) \in Seq(1..Issues) /\ Len(Tail(b)) = Len(b) - 1
      /\ Len(b) \in Nat
  BY <1>2, <1>3, HeadTailProperties, LenProperties
<1>5. Append(g, Head(b)) \in Seq(1..Issues)
  BY <1>4, AppendProperties
<1>6. /\ box' \in [Targets -> Seq(1..Issues)] /\ got' \in [Targets -> Seq(1..Issues)]
      /\ box'[t] = Tail(b) /\ got'[t] = Append(g, Head(b))
      /\ \A u \in Targets \ {t} : box'[u] = box[u] /\ got'[u] = got[u]
  BY <1>1, <1>2, <1>3, <1>4, <1>5 DEF TargetType
<1>7. TargetType'
  <2>1. \A u \in Targets : Len(box[u]) <= Capacity
    BY <1>1 DEF TargetType
  <2>2. Len(box'[t]) <= Capacity
    BY <1>3, <1>4, <1>6, PostponeAssumption
  <2>3. \A u \in Targets : Len(box'[u]) <= Capacity
    BY <1>6, <2>1, <2>2
  <2> QED
    BY <1>1, <1>2, <1>6, <2>3 DEF TargetType
<1>8. ControlType' /\ TimerType' /\ Settled' /\ Mailed'
  BY <1>1, <1>2 DEF ControlType, TimerType, Settled, Mailed, NewSet, Range
<1>9. Moves
  <2> SUFFICES ASSUME NEW u \in Targets, NEW m \in 1..Issues PROVE Places(u, m)' <= Places(u, m)
    BY DEF Moves
  <2>1. PICK x \in Item :
          /\ Count(queue, x) \in Nat /\ Count(list, x) \in Nat /\ Count(kept, x) \in Nat
          /\ Count(box[u], m) \in Nat /\ Count(got[u], m) \in Nat
          /\ Places(u, m) = Count(queue, x) + Count(list, x) + Count(kept, x)
                            + Count(box[u], m) + Count(got[u], m) + (IF x \in dropped THEN 1 ELSE 0)
          /\ Places(u, m)' = Count(queue', x) + Count(list', x) + Count(kept', x)
                             + Count(box'[u], m) + Count(got'[u], m) + (IF x \in dropped' THEN 1 ELSE 0)
    BY <1>1, <1>7, <1>8, PlacesAre
  <2>2. /\ Count(queue', x) = Count(queue, x) /\ Count(list', x) = Count(list, x)
        /\ Count(kept', x) = Count(kept, x)
    BY <1>2
  <2>3. Count(box'[u], m) + Count(got'[u], m) = Count(box[u], m) + Count(got[u], m)
    <3>1. CASE u = t
      <4>1. Count(b, m) = Count(Tail(b), m) + (IF Head(b) = m THEN 1 ELSE 0)
        BY <1>4, CountTail
      <4>2. Count(Append(g, Head(b)), m) = Count(g, m) + (IF Head(b) = m THEN 1 ELSE 0)
        BY <1>4, BoxAppend
      <4>3. Count(Tail(b), m) \in Nat /\ Count(g, m) \in Nat
        BY <1>4, CountType
      <4>4. box[u] = b /\ got[u] = g /\ box'[u] = Tail(b) /\ got'[u] = Append(g, Head(b))
        BY <1>3, <1>6, <3>1
      <4>5. PICK h \in {0, 1} : h = IF Head(b) = m THEN 1 ELSE 0
        OBVIOUS
      <4>6. Count(b, m) = Count(Tail(b), m) + h /\ Count(Append(g, Head(b)), m) = Count(g, m) + h
        BY <4>1, <4>2, <4>5
      <4>7. Count(Tail(b), m) + Count(Append(g, Head(b)), m) = Count(b, m) + Count(g, m)
        BY <4>3, <4>6
      <4> QED
        BY <4>4, <4>7
    <3>2. CASE u # t
      BY <1>6, <3>2
    <3> QED
      BY <3>1, <3>2
  <2>4. Count(box'[u], m) \in Nat /\ Count(got'[u], m) \in Nat
    <3>1. box'[u] \in Seq(1..Issues) /\ got'[u] \in Seq(1..Issues)
      BY <1>6
    <3> QED
      BY <3>1, CountType
  <2> QED
    BY <1>2, <2>1, <2>2, <2>3, <2>4
<1> QED
  BY <1>2, <1>7, <1>8, <1>9, MovesInv DEF Typed

LEMMA PostponeStart == Init => PostponeInv
<1> SUFFICES ASSUME Init PROVE PostponeInv
  OBVIOUS
<1>1. ControlType
  <2>1. why \in Purpose
    BY DEF Init, By, Purpose, Again
  <2> QED
    BY <2>1 DEF Init, ControlType
<1>2. TimerType /\ Mailed
  <2>1. timer \in {"off", "running", "mailed", "lost"} /\ own \in 0..OwnMails /\ timer # "mailed"
    BY PostponeAssumption DEF Init
  <2>2. armed \in BOOLEAN
    BY Zenon DEF Init
  <2> QED
    BY <2>1, <2>2, Zenon DEF TimerType, Mailed
<1>3. TargetType
  <2>1. << >> \in Seq(1..Issues) /\ Len(<< >>) = 0
    BY EmptySeq
  <2> QED
    BY <2>1, PostponeAssumption DEF Init, TargetType
<1>4. Settled
  BY DEF Init, Settled, NewSet, Range
<1>5. \A t \in Targets, m \in 1..Issues : Places(t, m) = 0
  <2> SUFFICES ASSUME NEW t \in Targets, NEW m \in 1..Issues PROVE Places(t, m) = 0
    OBVIOUS
  <2>1. \A x : Count(<< >>, x) = 0
    BY CountEmpty
  <2>2. box[t] = << >> /\ got[t] = << >> /\ queue = << >> /\ list = << >> /\ kept = << >> /\ dropped = {}
    BY DEF Init
  <2> QED
    BY <2>1, <2>2 DEF Places
<1>6. why.ids = {}
  BY DEF Init, By
<1> QED
  BY <1>1, <1>2, <1>3, <1>4, <1>5, <1>6 DEF PostponeInv, NoDuplicate, Unissued, Unsent

LEMMA PostponeStep == PostponeInv /\ [Next]_vars => PostponeInv'
<1> SUFFICES ASSUME PostponeInv, [Next]_vars PROVE PostponeInv'
  OBVIOUS
<1>1. CASE SendDone \/ CallReturns \/ TimerFires \/ OwnArrives \/ OwnHandled \/ UNCHANGED vars
           \/ (\E t \in Targets : TargetGoes(t))
  <2>1. ControlType /\ TimerType /\ TargetType /\ Mailed
    BY DEF PostponeInv
  <2>2. /\ UNCHANGED <<why, queue, set, list, kept, box, issued, got, dropped>>
        /\ pc' = pc \/ (pc' = "idle" /\ pc # "retry")
    BY <1>1 DEF SendDone, CallReturns, TimerFires, OwnArrives, OwnHandled, vars, control, TargetGoes
  <2>3. alive' \in [Targets -> BOOLEAN]
    BY <1>1, <2>1 DEF TargetType, SendDone, CallReturns, TimerFires, OwnArrives, OwnHandled, vars, TargetGoes
  <2>4. armed' = armed
    BY <1>1 DEF SendDone, CallReturns, TimerFires, OwnArrives, OwnHandled, vars, control, TargetGoes
  <2>5. /\ timer' \in {"off", "running", "mailed", "lost"} /\ own' \in 0..OwnMails
        /\ timer' = "mailed" => own' > 0
    BY <1>1, <2>1, PostponeAssumption
       DEF TimerType, Mailed, SendDone, CallReturns, TimerFires, OwnArrives, OwnHandled, vars, control, TargetGoes
  <2>6. TimerType' /\ Mailed'
    BY <2>1, <2>4, <2>5, Zenon DEF TimerType, Mailed
  <2> QED
    BY <2>2, <2>3, <2>6, QuietInv
<1>2. CASE \E op \in {"post", "once", "call"}, ts \in (SUBSET Targets) \ {{}} : Issue(op, ts)
  BY <1>2, IssueInv
<1>3. CASE RetryOne \/ RetryDone \/ TimerInvoked \/ Clear
  BY <1>3, RetryOneInv, RetryDoneInv, RetryInv
<1>4. ASSUME NEW t \in Targets, SendOne(t) \/ CallOne(t) \/ TargetTakes(t) PROVE PostponeInv'
  BY <1>4, SendOneInv, CallOneInv, TakesInv
<1> QED
  BY <1>1, <1>2, <1>3, <1>4 DEF Next, Handler, Loop

(* The queue, the retry's lists, the timer and the mailboxes keep their    *)
(* types, and no mailbox holds more than BufMails.                         *)
THEOREM AlwaysTyped == Spec => []TypeOK
<1>1. PostponeInv => TypeOK
  BY DEF PostponeInv, TypeOK
<1> QED
  BY <1>1, PostponeStart, PostponeStep, PTL DEF Spec

(* No message is in two places, whatever retries, full mailboxes, cleared  *)
(* contexts and actors that come and go it meets (poseponePost,            *)
(* appendPostpone).                                                        *)
THEOREM AlwaysNoDuplicate == Spec => []NoDuplicate
<1>1. PostponeInv => NoDuplicate
  BY DEF PostponeInv
<1> QED
  BY <1>1, PostponeStart, PostponeStep, PTL DEF Spec

(* postponeSet has the ids of the queue whenever a handler asks it.        *)
THEOREM AlwaysSetExact == Spec => []SetExact
<1>1. PostponeInv => SetExact
  BY DEF PostponeInv, Settled, SetExact, NewSet
<1> QED
  BY <1>1, PostponeStart, PostponeStep, PTL DEF Spec
=============================================================================
