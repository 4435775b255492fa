---------------------------- MODULE RpcTransport ----------------------------
(***************************************************************************)
(* The one HTTP transport through which the gateway talks to Ethereum      *)
(* (api/src/rpc.rs): a shared budget of concurrent requests, a shared      *)
(* pacing deadline, retries of reads only, and an operation timeout that   *)
(* drops a call at whatever await it is in.                                *)
(*                                                                         *)
(* A tick is the time one request costs (1 / requests_per_second).  Every  *)
(* deadline is kept as the number of ticks that remain, so the state does  *)
(* not grow with time.                                                     *)
(***************************************************************************)
EXTENDS Integers, FiniteSets

CONSTANTS
    Callers,            \* tasks that use the transport
    MaxConcurrent,      \* ETHEREUM_RPC_MAX_CONCURRENT
    MaxRetries,         \* ETHEREUM_RPC_MAX_RETRIES
    InitialBackoff,     \* in ticks, as the three below
    MaxBackoff,
    OperationTimeout,
    RetryHints,         \* delays a provider may ask for
    HintCap,            \* 86_400 s
    MaxCost             \* requests in one batch packet

\* RpcConfig::validate
ASSUME RpcAssumption ==
    /\ IsFiniteSet(Callers)
    /\ MaxConcurrent \in Nat \ {0} /\ MaxRetries \in Nat
    /\ InitialBackoff \in Nat \ {0} /\ MaxBackoff \in Nat
    /\ InitialBackoff <= MaxBackoff
    /\ OperationTimeout \in Nat \ {0} /\ MaxCost \in Nat \ {0}
    /\ RetryHints \subseteq Nat /\ HintCap \in Nat

Later(a, b) == IF a >= b THEN a ELSE b

Sooner(a, b) == IF a <= b THEN a ELSE b

VARIABLES
    permits,        \* free permits of Budget.concurrent
    nextRequest,    \* Budget.next_request, as ticks from now
    call,           \* where each caller's execute() is
    bucket,         \* history: cost posted, leaking one per tick
    quiet           \* history: ticks left of the longest recorded cool-down

vars == <<permits, nextRequest, call, bucket, quiet>>

\* pinned: a read at a block hash, behind read_pinned_snapshot.
Kinds == {"read", "pinned", "write"}

\* is_read_method of every method of the packet
ReadOnly(kind) == kind # "write"

\* What the provider may answer: a result; a 429 or another status or RPC code
\* worth a retry; a connection, body or request time-out error; an RPC error
\* saying that the pinned block is gone, that funds are short, or another one,
\* with which a bad status and a body that does not parse are counted.
Answers == {"ok", "busy", "lost", "gone", "unfunded", "refused"}

\* transient_http_status, transient_rpc_error, reqwest's transport errors
Transient(answer) == answer \in {"busy", "lost"}

\* read_pinned_snapshot(): the same answer elsewhere is an ordinary RPC error.
SnapshotGone(kind, answer) == kind = "pinned" /\ answer = "gone"

\* classify(): the FailureKind of what execute() returned.
Classify(kind, answer, exhausted) ==
    CASE answer = "ok" -> "ok"
      [] exhausted \/ Transient(answer) -> "Transient"
      [] SnapshotGone(kind, answer) -> "SnapshotUnavailable"
      [] answer = "unfunded" -> "InsufficientFunds"
      [] OTHER -> "Other"

IdleCall == [pc |-> "idle", kind |-> "read", cost |-> 1, attempt |-> 0,
             left |-> 0, delay |-> 0, answer |-> "none", posts |-> 0,
             result |-> "none"]

\* A call that is over leaves its last answer and its result.
Returned(answer, result) ==
    [IdleCall EXCEPT !.answer = answer, !.result = result]

Init ==
    /\ permits = MaxConcurrent
    /\ nextRequest = 0
    /\ call = [c \in Callers |-> IdleCall]
    /\ bucket = 0 /\ quiet = 0

At(c, pc) == call[c].pc = pc

-----------------------------------------------------------------------------
(* Service::call                                                           *)

Call(c) ==
    /\ At(c, "idle")
    /\ \E kind \in Kinds, cost \in 1..MaxCost :
         call' = [call EXCEPT ![c] = [IdleCall EXCEPT
                    !.pc = "acquire", !.kind = kind, !.cost = cost,
                    !.left = OperationTimeout]]
    /\ UNCHANGED <<permits, nextRequest, bucket, quiet>>

\* A permit is held while its request is paced and in flight.
HoldsPermit(c) == call[c].pc \in {"pace", "sent"}

\* Faults: the permit of a dropped call is lost, or given back in any case.
PermitsKept(c) == permits

\* A dropped future gives its permit back.
PermitsAfterDrop(c) == IF HoldsPermit(c) THEN permits + 1 ELSE permits

\* Fault: only the request in flight is timed.
RequestTimesOut(c) ==
    /\ At(c, "sent") /\ call[c].left = 0
    /\ permits' = PermitsAfterDrop(c)
    /\ call' = [call EXCEPT ![c] = Returned("none", "Transient")]
    /\ UNCHANGED <<nextRequest, bucket, quiet>>

\* The operation times out at any await; an exhausted call is RpcUnavailable.
OperationTimesOut(c) ==
    /\ ~At(c, "idle") /\ call[c].left = 0
    /\ permits' = PermitsAfterDrop(c)
    /\ call' = [call EXCEPT ![c] = Returned("none", "Transient")]
    /\ UNCHANGED <<nextRequest, bucket, quiet>>

-----------------------------------------------------------------------------
(* execute                                                                 *)

Acquire(c) ==
    /\ At(c, "acquire") /\ permits > 0
    /\ permits' = permits - 1
    /\ call' = [call EXCEPT ![c] = [call[c] EXCEPT !.pc = "pace"]]
    /\ UNCHANGED <<nextRequest, bucket, quiet>>

\* A batch pays for each of its requests.
Cost(c) == call[c].cost

\* pace(): whoever finds the deadline passed takes it and moves it on.
Paced(c) == nextRequest = 0

Post(c) ==
    /\ At(c, "pace") /\ Paced(c)
    /\ nextRequest' = Later(nextRequest, Cost(c))
    /\ call' = [call EXCEPT ![c] = [call[c] EXCEPT !.pc = "sent", !.posts = call[c].posts + 1]]
    /\ bucket' = bucket + call[c].cost
    /\ UNCHANGED <<permits, quiet>>

\* backoff(): equal jitter below a doubling ceiling.
Ceiling(retry) == Sooner(InitialBackoff * 2^retry, MaxBackoff)

Backoff(retry) == (Ceiling(retry) \div 2)..Ceiling(retry)

\* retry_after and /rate/backoff_seconds, clamped; without one, the back-off.
Delays(c) ==
    {Sooner(hint, HintCap) : hint \in RetryHints} \union Backoff(call[c].attempt)

\* The permit goes back before the cool-down is shared.
Answer(c) ==
    /\ At(c, "sent")
    /\ \E answer \in Answers :
         \E delay \in IF Transient(answer) THEN Delays(c) ELSE {0} :
            call' = [call EXCEPT ![c] = [call[c] EXCEPT !.pc = "answered",
                                 !.answer = answer, !.delay = delay]]
    /\ permits' = permits + 1
    /\ UNCHANGED <<nextRequest, bucket, quiet>>

\* cooldown(): the deadline never moves back.
CooledDown(delay) == Later(nextRequest, delay)

\* Fault: sends are retried like reads.
RetryAny(c) == Transient(call[c].answer) /\ call[c].attempt < MaxRetries

Retries(c) ==
    /\ Transient(call[c].answer) /\ ReadOnly(call[c].kind)
    /\ call[c].attempt < MaxRetries

\* Share the cool-down, then retry a read or return.
Conclude(c) ==
    /\ At(c, "answered")
    /\ IF Transient(call[c].answer)
       THEN /\ nextRequest' = CooledDown(call[c].delay)
            /\ quiet' = Later(quiet, call[c].delay)
       ELSE UNCHANGED <<nextRequest, quiet>>
    /\ call' = IF Retries(c)
               THEN [call EXCEPT ![c] = [call[c] EXCEPT !.pc = "acquire",
                                 !.attempt = call[c].attempt + 1, !.delay = 0,
                                 !.answer = "none"]]
               ELSE [call EXCEPT ![c] = Returned(call[c].answer,
                       Classify(call[c].kind, call[c].answer,
                                ReadOnly(call[c].kind)
                                /\ Transient(call[c].answer)))]
    /\ UNCHANGED <<permits, bucket>>

Elapse(n) == Later(n - 1, 0)

\* Time passes for everybody.
Tick ==
    /\ nextRequest' = Elapse(nextRequest)
    /\ call' = [c \in Callers |-> [call[c] EXCEPT !.left = Elapse(@)]]
    /\ bucket' = Elapse(bucket) /\ quiet' = Elapse(quiet)
    /\ UNCHANGED permits

CallStep(c) == Acquire(c) \/ Post(c) \/ Answer(c) \/ Conclude(c)

Next ==
    \/ \E c \in Callers : Call(c) \/ CallStep(c) \/ OperationTimesOut(c)
    \/ Tick

Spec == Init /\ [][Next]_vars

-----------------------------------------------------------------------------
\* Every variable keeps its type.
TypeOK ==
    /\ permits \in 0..MaxConcurrent
    /\ nextRequest \in Nat /\ bucket \in Nat /\ quiet \in Nat
    /\ call \in [Callers ->
         [pc : {"idle", "acquire", "pace", "sent", "answered"}, kind : Kinds,
          cost : 1..MaxCost, attempt : Nat,
          left : 0..OperationTimeout, delay : Int,
          answer : Answers \union {"none"}, posts : Nat,
          result : {"none", "ok", "Transient", "SnapshotUnavailable",
                    "InsufficientFunds", "Other"}]]

\* No permit is lost or made up, wherever a call is dropped (concurrent).
PermitsConserved ==
    permits + Cardinality({c \in Callers : HoldsPermit(c)}) = MaxConcurrent

\* However calls interleave, retry and time out, the cost posted in any stretch
\* of time is at most what the rate allows plus one packet (pace).
RateHeld == bucket <= MaxCost

\* "Only read operations are retried here": a signed transaction is posted at
\* most once per call, and a read at most max_retries + 1 times.
PostedAtMost ==
    \A c \in Callers :
        call[c].posts <= IF ReadOnly(call[c].kind) THEN MaxRetries + 1 ELSE 1

\* While a cool-down that any caller has recorded is running, nobody posts,
\* not even a caller that was told a shorter one (pace, cooldown).
CooldownShared ==
    [][\A c \in Callers : call'[c].posts > call[c].posts => quiet = 0]_vars

\* A call that reports a permanent failure had a definite answer; waiting,
\* exhausted retries and time-outs are reported as transient (classify).
PermanentMeansAnswered ==
    \A c \in Callers :
        call[c].result \in {"InsufficientFunds", "SnapshotUnavailable", "Other"}
            => ~Transient(call[c].answer) /\ call[c].answer # "none"

-----------------------------------------------------------------------------
\* Tasks are polled, the clock runs, reqwest's own time-out ends a request.
Fairness ==
    /\ WF_vars(Tick)
    /\ \A c \in Callers : WF_vars(CallStep(c)) /\ WF_vars(OperationTimesOut(c))

FairSpec == Spec /\ Fairness

\* Every call returns, however often the others push the shared deadline away.
EveryCallReturns == \A c \in Callers : []<>At(c, "idle")

=============================================================================
