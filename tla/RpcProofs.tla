----------------------------- MODULE RpcProofs ------------------------------
(***************************************************************************)
(* What holds of the RPC transport for any number of callers, any limits   *)
(* and any delays a provider asks for.                                     *)
(***************************************************************************)
EXTENDS RpcTransport, FiniteSetTheorems, TLAPS

Pcs == {"idle", "acquire", "pace", "sent", "answered"}

CallType ==
    [pc : Pcs, kind : Kinds, cost : 1..MaxCost, attempt : Nat,
     left : 0..OperationTimeout, delay : Int,
     answer : Answers \union {"none"}, posts : Nat,
     result : {"none", "ok", "Transient", "SnapshotUnavailable",
               "InsufficientFunds", "Other"}]

Holders == {c \in Callers : HoldsPermit(c)}

\* The typing of everything but the upper bound of permits, which needs the
\* count of the permits that are held.
Typed ==
    /\ permits \in Int
    /\ nextRequest \in Nat /\ bucket \in Nat /\ quiet \in Nat
    /\ call \in [Callers -> CallType]

\* The deadline covers both the cost that has been posted and every cool-down.
Deadline ==
    /\ bucket <= nextRequest /\ bucket <= MaxCost
    /\ quiet <= nextRequest

\* What one call has posted, by the attempt it is in.
AttemptOf(r) ==
    /\ r.pc = "idle" => r.posts = 0 /\ r.attempt = 0
    /\ r.pc \in {"acquire", "pace"} => r.posts = r.attempt
    /\ r.pc \in {"sent", "answered"} => r.posts = r.attempt + 1
    /\ r.attempt <= MaxRetries
    /\ r.kind = "write" => r.attempt = 0
    /\ r.pc = "answered" => r.answer \in Answers

\* A permanent result belongs to a definite answer.
ResultOf(r) ==
    r.result \in {"InsufficientFunds", "SnapshotUnavailable", "Other"}
        => ~Transient(r.answer) /\ r.answer # "none" /\ r.pc = "idle"

Posted == \A c \in Callers : AttemptOf(call[c]) /\ ResultOf(call[c])

\* The count of permits, kept apart because only sets matter in it.
Counted == permits >= 0 /\ PermitsConserved

LEMMA IdleTyped ==
    /\ IdleCall \in CallType
    /\ AttemptOf(IdleCall) /\ ResultOf(IdleCall)
BY RpcAssumption DEF IdleCall, CallType, Pcs, Kinds, Answers, AttemptOf,
    ResultOf, Transient

\* A call record may be given a new value in one field.
LEMMA FieldTyped ==
    ASSUME NEW r \in CallType
    PROVE  /\ \A v \in Pcs : [r EXCEPT !.pc = v] \in CallType
           /\ \A v \in Kinds : [r EXCEPT !.kind = v] \in CallType
           /\ \A v \in 1..MaxCost : [r EXCEPT !.cost = v] \in CallType
           /\ \A v \in Nat : [r EXCEPT !.attempt = v] \in CallType
           /\ \A v \in 0..OperationTimeout :
                [r EXCEPT !.left = v] \in CallType
           /\ \A v \in Int : [r EXCEPT !.delay = v] \in CallType
           /\ \A v \in Answers \union {"none"} :
                [r EXCEPT !.answer = v] \in CallType
           /\ \A v \in Nat : [r EXCEPT !.posts = v] \in CallType
BY DEF CallType

LEMMA ReturnedTyped ==
    ASSUME NEW answer \in Answers \union {"none"},
           NEW result \in {"none", "ok", "Transient", "SnapshotUnavailable",
                           "InsufficientFunds", "Other"}
    PROVE  /\ Returned(answer, result) \in CallType
           /\ Returned(answer, result).pc = "idle"
           /\ AttemptOf(Returned(answer, result))
           /\ Returned(answer, result).answer = answer
           /\ Returned(answer, result).result = result
<1> DEFINE r == Returned(answer, result)
<1>1. /\ r.pc = "idle" /\ r.kind = "read" /\ r.posts = 0 /\ r.attempt = 0
      /\ r.answer = answer /\ r.result = result
      BY DEF Returned, IdleCall
<1>2. r.pc = "idle" /\ r.answer = answer /\ r.result = result
      BY <1>1
<1>3. AttemptOf(r)
      BY <1>1, RpcAssumption DEF AttemptOf
<1>4. r \in CallType
      BY IdleTyped DEF Returned, CallType
<1> QED BY <1>2, <1>3, <1>4

LEMMA ClassifyTyped ==
    ASSUME NEW kind \in Kinds, NEW answer \in Answers, NEW x \in BOOLEAN
    PROVE  /\ Classify(kind, answer, x) \in
                {"none", "ok", "Transient", "SnapshotUnavailable",
                 "InsufficientFunds", "Other"}
           /\ Classify(kind, answer, x) \in
                {"InsufficientFunds", "SnapshotUnavailable", "Other"}
                => ~Transient(answer)
BY DEF Classify, SnapshotGone, Transient, Answers, Kinds

LEMMA DelaysTyped ==
    ASSUME NEW c \in Callers, NEW d \in Delays(c)
    PROVE  d \in Int
BY RpcAssumption DEF Delays, Sooner, Backoff

-----------------------------------------------------------------------------
(* Types and the two deadlines                                             *)

LEMMA InitTyped == Init => Typed /\ Deadline /\ Posted
BY RpcAssumption, IdleTyped DEF Init, Typed, Deadline, Posted

LEMMA CallStepTyped ==
    ASSUME Typed, Deadline, Posted, NEW c \in Callers,
           Call(c) \/ Acquire(c) \/ Post(c)
    PROVE  Typed' /\ Deadline' /\ Posted'
<1>0. call[c] \in CallType /\ AttemptOf(call[c]) /\ ResultOf(call[c])
      BY DEF Typed, Posted
<1>1. CASE Call(c)
  <2>1. PICK kind \in Kinds, cost \in 1..MaxCost :
          call' = [call EXCEPT ![c] = [IdleCall EXCEPT
                    !.pc = "acquire", !.kind = kind, !.cost = cost,
                    !.left = OperationTimeout]]
        BY <1>1 DEF Call
  <2> DEFINE r == [IdleCall EXCEPT !.pc = "acquire", !.kind = kind,
                       !.cost = cost, !.left = OperationTimeout]
  <2>2. r \in CallType /\ AttemptOf(r) /\ ResultOf(r)
    <3>1. /\ r.pc = "acquire" /\ r.posts = 0 /\ r.attempt = 0
          /\ r.result = "none"
          BY DEF IdleCall
    <3>2. r \in CallType
      <4>1. "acquire" \in Pcs /\ OperationTimeout \in 0..OperationTimeout
            BY RpcAssumption DEF Pcs
      <4> QED BY <4>1, IdleTyped, FieldTyped
    <3> QED BY <3>1, <3>2, RpcAssumption DEF AttemptOf, ResultOf
  <2>3. call' = [call EXCEPT ![c] = r]
        BY <2>1
  <2> HIDE DEF r
  <2> QED BY <1>1, <2>2, <2>3 DEF Call, Typed, Deadline, Posted
<1>2. CASE Acquire(c)
  <2> DEFINE r == [call[c] EXCEPT !.pc = "pace"]
  <2>1. r \in CallType /\ AttemptOf(r) /\ ResultOf(r)
        BY <1>0, <1>2 DEF Acquire, At, CallType, Pcs, AttemptOf, ResultOf
  <2>2. call' = [call EXCEPT ![c] = r]
        BY <1>2 DEF Acquire, Typed
  <2> HIDE DEF r
  <2> QED BY <1>2, <2>1, <2>2 DEF Acquire, Typed, Deadline, Posted
<1>3. CASE Post(c)
  <2> DEFINE r == [call[c] EXCEPT !.pc = "sent", !.posts = call[c].posts + 1]
  <2>1. r \in CallType /\ AttemptOf(r) /\ ResultOf(r)
    <3>1. /\ r.pc = "sent" /\ r.posts = call[c].posts + 1
          /\ r.attempt = call[c].attempt /\ r.kind = call[c].kind
          /\ r.result = call[c].result /\ r.answer = call[c].answer
          BY <1>0 DEF CallType
    <3>2. r \in CallType
      <4>1. "sent" \in Pcs /\ call[c].posts + 1 \in Nat
            BY <1>0 DEF Pcs, CallType
      <4> QED BY <1>0, <4>1, FieldTyped
    <3>3. call[c].pc = "pace"
          BY <1>3 DEF Post, At
    <3> HIDE DEF r
    <3> QED BY <1>0, <3>1, <3>2, <3>3 DEF AttemptOf, ResultOf
  <2>2. call' = [call EXCEPT ![c] = r]
        BY <1>3 DEF Post, Typed
  <2>3. call[c].cost \in 1..MaxCost
        BY <1>0 DEF CallType
  <2>4. Deadline' /\ nextRequest' \in Nat /\ bucket' \in Nat
        BY <1>3, <2>3, RpcAssumption
        DEF Post, Paced, Cost, Later, Deadline, Typed
  <2> HIDE DEF r
  <2> QED BY <1>3, <2>1, <2>2, <2>4 DEF Post, Typed, Posted
<1> QED BY <1>1, <1>2, <1>3

LEMMA ReplyTyped ==
    ASSUME Typed, Deadline, Posted, NEW c \in Callers,
           Answer(c) \/ Conclude(c) \/ OperationTimesOut(c)
    PROVE  Typed' /\ Deadline' /\ Posted'
<1>0. call[c] \in CallType /\ AttemptOf(call[c]) /\ ResultOf(call[c])
      BY DEF Typed, Posted
<1>1. CASE Answer(c)
  <2>1. PICK answer \in Answers :
          \E delay \in IF Transient(answer) THEN Delays(c) ELSE {0} :
            call' = [call EXCEPT ![c] = [call[c] EXCEPT !.pc = "answered",
                                 !.answer = answer, !.delay = delay]]
        BY <1>1 DEF Answer
  <2>2. PICK delay \in IF Transient(answer) THEN Delays(c) ELSE {0} :
            call' = [call EXCEPT ![c] = [call[c] EXCEPT !.pc = "answered",
                                 !.answer = answer, !.delay = delay]]
        BY <2>1
  <2>3. delay \in Int
        BY DelaysTyped
  <2> DEFINE r == [call[c] EXCEPT !.pc = "answered", !.answer = answer,
                                  !.delay = delay]
  <2>4. r \in CallType /\ AttemptOf(r) /\ ResultOf(r)
        BY <1>0, <1>1, <2>3
        DEF Answer, At, CallType, Pcs, AttemptOf, ResultOf
  <2>5. call' = [call EXCEPT ![c] = r]
        BY <2>2 DEF Typed
  <2> HIDE DEF r
  <2>6. permits' = permits + 1
        BY <1>1 DEF Answer
  <2>7. permits' \in Int
        BY <2>6 DEF Typed
  <2> QED BY <1>1, <2>4, <2>5, <2>7 DEF Answer, Typed, Deadline, Posted
<1>2. CASE Conclude(c)
  <2>1. call[c].answer \in Answers /\ call[c].kind \in Kinds
        BY <1>0, <1>2 DEF Conclude, At, AttemptOf, CallType
  <2>2. Deadline' /\ nextRequest' \in Nat /\ quiet' \in Nat
        BY <1>0, <1>2 DEF Conclude, CooledDown, Later, Deadline, Typed, CallType
  <2>3. CASE Retries(c)
    <3> DEFINE r == [call[c] EXCEPT !.pc = "acquire",
                                    !.attempt = call[c].attempt + 1,
                                    !.delay = 0, !.answer = "none"]
    <3>1. r \in CallType /\ AttemptOf(r) /\ ResultOf(r)
      <4>1. /\ r.pc = "acquire" /\ r.posts = call[c].posts
            /\ r.attempt = call[c].attempt + 1 /\ r.kind = call[c].kind
            /\ r.result = call[c].result
            BY <1>0 DEF CallType
      <4>2. r \in CallType
        <5>1. "acquire" \in Pcs /\ call[c].attempt + 1 \in Nat
              BY <1>0 DEF Pcs, CallType
        <5>2. [[call[c] EXCEPT !.pc = "acquire"]
                  EXCEPT !.attempt = call[c].attempt + 1] \in CallType
              BY <1>0, <5>1, FieldTyped
        <5>3. [[[call[c] EXCEPT !.pc = "acquire"]
                  EXCEPT !.attempt = call[c].attempt + 1]
                  EXCEPT !.delay = 0] \in CallType
              BY <5>2, 0 \in Int, FieldTyped, Zenon
        <5> QED BY <5>3, FieldTyped, Zenon
      <4>3. call[c].pc = "answered" /\ call[c].attempt < MaxRetries
            /\ call[c].kind # "write"
            BY <1>2, <2>3 DEF Conclude, At, Retries, ReadOnly
      <4> HIDE DEF r
      <4>4. call[c].attempt \in Nat /\ call[c].posts \in Nat
            BY <1>0 DEF CallType
      <4> QED BY <1>0, <4>1, <4>2, <4>3, <4>4, RpcAssumption
              DEF AttemptOf, ResultOf
    <3>2. call' = [call EXCEPT ![c] = r]
          BY <1>2, <2>3 DEF Conclude, Typed
    <3> HIDE DEF r
    <3> QED BY <1>2, <2>2, <3>1, <3>2 DEF Conclude, Typed, Posted
  <2>4. CASE ~Retries(c)
    <3> DEFINE x == ReadOnly(call[c].kind) /\ Transient(call[c].answer)
               result == Classify(call[c].kind, call[c].answer, x)
               r == Returned(call[c].answer, result)
    <3>1. x \in BOOLEAN
          BY DEF ReadOnly, Transient
    <3>2. call' = [call EXCEPT ![c] = r]
          BY <1>2, <2>4 DEF Conclude
    <3> HIDE DEF x
    <3>3. /\ result \in {"none", "ok", "Transient", "SnapshotUnavailable",
                          "InsufficientFunds", "Other"}
          /\ result \in {"InsufficientFunds", "SnapshotUnavailable", "Other"}
                => ~Transient(call[c].answer)
          BY <2>1, <3>1, ClassifyTyped
    <3> HIDE DEF result
    <3>4. r \in CallType /\ AttemptOf(r) /\ r.answer = call[c].answer
          /\ r.result = result /\ r.pc = "idle"
          BY <2>1, <3>3, ReturnedTyped
    <3>5. ResultOf(r)
          BY <2>1, <3>3, <3>4 DEF ResultOf, Answers
    <3> HIDE DEF r
    <3> QED BY <1>2, <2>2, <3>2, <3>4, <3>5 DEF Conclude, Typed, Posted
  <2> QED BY <2>3, <2>4
<1>3. CASE OperationTimesOut(c)
  <2>1. Returned("none", "Transient") \in CallType
        /\ AttemptOf(Returned("none", "Transient"))
        /\ ResultOf(Returned("none", "Transient"))
        BY ReturnedTyped DEF ResultOf
  <2>2. permits' \in Int
        BY <1>3 DEF OperationTimesOut, PermitsAfterDrop, Typed
  <2> QED BY <1>3, <2>1, <2>2
          DEF OperationTimesOut, Typed, Deadline, Posted
<1> QED BY <1>1, <1>2, <1>3

LEMMA TickTyped ==
    ASSUME Typed, Deadline, Posted, Tick
    PROVE  Typed' /\ Deadline' /\ Posted'
<1>1. Deadline' /\ nextRequest' \in Nat /\ bucket' \in Nat /\ quiet' \in Nat
      BY RpcAssumption DEF Tick, Elapse, Later, Deadline, Typed
<1>2. ASSUME NEW c \in Callers
      PROVE  /\ call'[c] \in CallType
             /\ AttemptOf(call'[c]) /\ ResultOf(call'[c])
  <2> DEFINE r == [call[c] EXCEPT !.left = Elapse(@)]
  <2>1. call[c] \in CallType /\ AttemptOf(call[c]) /\ ResultOf(call[c])
        BY DEF Typed, Posted
  <2>2. r \in CallType /\ AttemptOf(r) /\ ResultOf(r)
        BY <2>1, RpcAssumption
        DEF CallType, AttemptOf, ResultOf, Elapse, Later
  <2> QED BY <2>2 DEF Tick
<1> QED BY <1>1, <1>2 DEF Tick, Typed, Posted

LEMMA StepTyped ==
    ASSUME Typed, Deadline, Posted, [Next]_vars
    PROVE  Typed' /\ Deadline' /\ Posted'
<1>1. CASE UNCHANGED vars
      BY <1>1 DEF vars, Typed, Deadline, Posted
<1> QED BY <1>1, CallStepTyped, ReplyTyped, TickTyped DEF Next, CallStep

-----------------------------------------------------------------------------
(* Permits                                                                 *)

LEMMA HoldersFinite == IsFiniteSet(Holders) /\ Cardinality(Holders) \in Nat
BY RpcAssumption, FS_Subset, FS_CardinalityType DEF Holders

LEMMA InitCounted == Init => Counted
<1> SUFFICES ASSUME Init PROVE Counted
    OBVIOUS
<1>1. Holders = {}
      BY DEF Holders, HoldsPermit, Init, IdleCall
<1> QED BY <1>1, FS_EmptySet, RpcAssumption
        DEF Counted, PermitsConserved, Init, Holders

\* Steps that leave the set of holders alone, add one, or drop one.
LEMMA CountMoves ==
    ASSUME Typed, Counted, NEW c \in Callers,
           \/ permits' = permits /\ Holders' = Holders
           \/ /\ permits > 0 /\ permits' = permits - 1
              /\ c \notin Holders /\ Holders' = Holders \union {c}
           \/ /\ permits' = permits + 1
              /\ c \in Holders /\ Holders' = Holders \ {c}
    PROVE  Counted'
<1> DEFINE n == Cardinality(Holders)
<1>1. /\ permits \in Int /\ permits >= 0 /\ permits + n = MaxConcurrent
      BY DEF Typed, Counted, PermitsConserved, Holders
<1>2. IsFiniteSet(Holders) /\ n \in Nat
      BY HoldersFinite
<1>3. Counted' <=> /\ permits' >= 0
                   /\ permits' + Cardinality(Holders') = MaxConcurrent
      BY DEF Counted, PermitsConserved, Holders
<1>4. CASE permits' = permits /\ Holders' = Holders
      BY <1>1, <1>3, <1>4
<1>5. CASE /\ permits > 0 /\ permits' = permits - 1
           /\ c \notin Holders /\ Holders' = Holders \union {c}
  <2>1. Cardinality(Holders') = n + 1
        BY <1>2, <1>5, FS_AddElement
  <2> HIDE DEF n
  <2> QED BY <1>1, <1>2, <1>3, <1>5, <2>1, RpcAssumption
<1>6. CASE /\ permits' = permits + 1
           /\ c \in Holders /\ Holders' = Holders \ {c}
  <2>1. Cardinality(Holders') = n - 1
        BY <1>2, <1>6, FS_RemoveElement
  <2> HIDE DEF n
  <2> QED BY <1>1, <1>2, <1>3, <1>6, <2>1, RpcAssumption
<1> QED BY <1>4, <1>5, <1>6

LEMMA StepCounted ==
    ASSUME Typed, Counted, [Next]_vars
    PROVE  Counted'
<1> USE DEF Holders, HoldsPermit, Typed
<1>1. ASSUME NEW c \in Callers, Call(c) PROVE Counted'
  <2>1. call[c].pc = "idle" /\ call'[c].pc = "acquire" /\ permits' = permits
        /\ \A d \in Callers \ {c} : call'[d] = call[d]
        BY <1>1 DEF Call, At, IdleCall
  <2>2. Holders' = Holders
        BY <2>1
  <2> QED BY <2>1, <2>2, CountMoves
<1>2. ASSUME NEW c \in Callers, Acquire(c) PROVE Counted'
  <2>1. call[c].pc = "acquire" /\ call'[c].pc = "pace"
        /\ permits > 0 /\ permits' = permits - 1
        /\ \A d \in Callers \ {c} : call'[d] = call[d]
        BY <1>2 DEF Acquire, At, CallType
  <2>2. c \notin Holders /\ Holders' = Holders \union {c}
        BY <2>1
  <2> QED BY <2>1, <2>2, CountMoves
<1>3. ASSUME NEW c \in Callers, Post(c) PROVE Counted'
  <2>1. call[c].pc = "pace" /\ call'[c].pc = "sent" /\ permits' = permits
        /\ \A d \in Callers \ {c} : call'[d] = call[d]
        BY <1>3 DEF Post, At, CallType
  <2>2. Holders' = Holders
        BY <2>1
  <2> QED BY <2>1, <2>2, CountMoves
<1>4. ASSUME NEW c \in Callers, Answer(c) PROVE Counted'
  <2>1. call[c].pc = "sent" /\ call'[c].pc = "answered"
        /\ permits' = permits + 1
        /\ \A d \in Callers \ {c} : call'[d] = call[d]
        BY <1>4 DEF Answer, At, CallType
  <2>2. c \in Holders /\ Holders' = Holders \ {c}
        BY <2>1
  <2> QED BY <2>1, <2>2, CountMoves
<1>5. ASSUME NEW c \in Callers, Conclude(c) PROVE Counted'
  <2>1. call[c].pc = "answered" /\ permits' = permits
        /\ \A d \in Callers \ {c} : call'[d] = call[d]
        BY <1>5 DEF Conclude, At
  <2>2. call'[c].pc \in {"acquire", "idle"}
        BY <1>5 DEF Conclude, CallType, Returned, IdleCall
  <2>3. Holders' = Holders
        BY <2>1, <2>2
  <2> QED BY <2>1, <2>3, CountMoves
<1>6. ASSUME NEW c \in Callers, OperationTimesOut(c) PROVE Counted'
  <2>1. call'[c].pc = "idle" /\ permits' = PermitsAfterDrop(c)
        /\ \A d \in Callers \ {c} : call'[d] = call[d]
        BY <1>6 DEF OperationTimesOut, Returned, IdleCall
  <2>2. CASE HoldsPermit(c)
    <3>1. c \in Holders /\ Holders' = Holders \ {c} /\ permits' = permits + 1
          BY <2>1, <2>2 DEF PermitsAfterDrop
    <3> QED BY <3>1, CountMoves
  <2>3. CASE ~HoldsPermit(c)
    <3>1. Holders' = Holders /\ permits' = permits
          BY <2>1, <2>3 DEF PermitsAfterDrop
    <3> QED BY <3>1, CountMoves
  <2> QED BY <2>2, <2>3
<1>7. CASE Tick \/ UNCHANGED vars
  <2>1. permits' = permits /\ \A d \in Callers : call'[d].pc = call[d].pc
        BY <1>7 DEF Tick, vars, CallType
  <2>2. Holders' = Holders
        BY <2>1
  <2> QED BY <2>1, <2>2 DEF Counted, PermitsConserved
<1> QED BY <1>1, <1>2, <1>3, <1>4, <1>5, <1>6, <1>7 DEF Next, CallStep

-----------------------------------------------------------------------------
Inductive == Typed /\ Deadline /\ Posted /\ Counted

LEMMA InductiveHolds == Spec => []Inductive
<1>1. Init => Inductive
      BY InitTyped, InitCounted DEF Inductive
<1>2. Inductive /\ [Next]_vars => Inductive'
      BY StepTyped, StepCounted DEF Inductive
<1> QED BY <1>1, <1>2, PTL DEF Spec

\* Every reachable state is well typed; in particular the semaphore never holds
\* more permits than it was made with.
THEOREM TypeCorrect == Spec => []TypeOK
<1>1. Inductive => TypeOK
  <2> SUFFICES ASSUME Inductive PROVE TypeOK
      OBVIOUS
  <2>1. permits \in 0..MaxConcurrent
        BY HoldersFinite, RpcAssumption
        DEF Inductive, Typed, Counted, PermitsConserved, Holders
  <2> QED BY <2>1 DEF Inductive, Typed, CallType, Pcs, TypeOK
<1> QED BY <1>1, InductiveHolds, PTL

\* No permit is ever lost or made up, for any number of callers, wherever the
\* operation time-out drops a call.
THEOREM PermitsAreConserved == Spec => []PermitsConserved
<1>1. Inductive => PermitsConserved
      BY DEF Inductive, Counted
<1> QED BY <1>1, InductiveHolds, PTL

\* The provider's rate is respected by all callers together.
THEOREM RateIsHeld == Spec => []RateHeld
<1>1. Inductive => RateHeld
      BY DEF Inductive, Deadline, RateHeld
<1> QED BY <1>1, InductiveHolds, PTL

\* A signed transaction is posted at most once, a read at most max_retries + 1
\* times.
THEOREM PostsAreBounded == Spec => []PostedAtMost
<1>1. Inductive => PostedAtMost
  <2> SUFFICES ASSUME Inductive, NEW c \in Callers
               PROVE  call[c].posts <= IF ReadOnly(call[c].kind)
                                       THEN MaxRetries + 1 ELSE 1
      BY DEF PostedAtMost
  <2>1. call[c] \in CallType /\ AttemptOf(call[c])
        BY DEF Inductive, Typed, Posted
  <2>2. /\ call[c].pc \in Pcs /\ call[c].attempt \in Nat
        /\ call[c].kind \in Kinds
        BY <2>1 DEF CallType
  <2> QED BY <2>1, <2>2, RpcAssumption DEF AttemptOf, ReadOnly, Pcs, Kinds
<1> QED BY <1>1, InductiveHolds, PTL

\* While any recorded cool-down runs, no caller posts.
THEOREM CooldownIsShared == Spec => CooldownShared
<1>1. ASSUME Inductive, [Next]_vars, NEW c \in Callers,
             call'[c].posts > call[c].posts
      PROVE  quiet = 0
  <2>0. call[c] \in CallType /\ call[c].posts \in Nat
        BY <1>1 DEF Inductive, Typed, CallType
  <2>1. CASE \E d \in Callers : Post(d)
        BY <2>1, <1>1 DEF Post, Paced, Inductive, Typed, Deadline
  <2>2. CASE \E d \in Callers : Call(d) \/ Acquire(d) \/ Answer(d)
    <3>1. PICK d \in Callers : Call(d) \/ Acquire(d) \/ Answer(d)
          BY <2>2
    <3>2. CASE c # d
      <4>1. call'[c] = call[c]
            BY <3>1, <3>2, <1>1 DEF Call, Acquire, Answer, Inductive, Typed
      <4> QED BY <4>1, <2>0, <1>1
    <3>3. CASE c = d /\ Call(d)
          BY <3>3, <1>1, <2>0 DEF Call, IdleCall, Inductive, Typed
    <3>4. CASE c = d /\ Acquire(d)
          BY <3>4, <1>1, <2>0 DEF Acquire, CallType, Inductive, Typed
    <3>5. CASE c = d /\ Answer(d)
          BY <3>5, <1>1, <2>0 DEF Answer, CallType, Inductive, Typed
    <3> QED BY <3>1, <3>2, <3>3, <3>4, <3>5
  <2>3. CASE \E d \in Callers : Conclude(d) \/ OperationTimesOut(d)
    <3>1. PICK d \in Callers : Conclude(d) \/ OperationTimesOut(d)
          BY <2>3
    <3>2. CASE c # d
          BY <3>1, <3>2, <1>1, <2>0
          DEF Conclude, OperationTimesOut, Inductive, Typed
    <3>3. CASE c = d /\ Conclude(d)
          BY <3>3, <1>1, <2>0
          DEF Conclude, Returned, IdleCall, CallType, Inductive, Typed
    <3>4. CASE c = d /\ OperationTimesOut(d)
          BY <3>4, <1>1, <2>0
          DEF OperationTimesOut, Returned, IdleCall, Inductive, Typed
    <3> QED BY <3>1, <3>2, <3>3, <3>4
  <2>4. CASE Tick \/ UNCHANGED vars
    <3>1. call'[c].posts = call[c].posts
          BY <2>4, <1>1 DEF Tick, vars, Inductive, Typed, CallType
    <3> QED BY <3>1, <2>0, <1>1
  <2> QED BY <1>1, <2>1, <2>2, <2>3, <2>4 DEF Next, CallStep
<1>2. Inductive /\ [Next]_vars =>
        [\A c \in Callers : call'[c].posts > call[c].posts => quiet = 0]_vars
      BY <1>1
<1> QED BY <1>2, InductiveHolds, PTL DEF Spec, CooldownShared

\* A permanent failure is only reported on a definite answer.
THEOREM PermanentIsAnswered == Spec => []PermanentMeansAnswered
<1>1. Inductive => PermanentMeansAnswered
      BY DEF Inductive, Posted, ResultOf, PermanentMeansAnswered
<1> QED BY <1>1, InductiveHolds, PTL

=============================================================================
