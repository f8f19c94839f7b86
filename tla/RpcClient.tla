----------------------------- MODULE RpcClient -----------------------------
(***************************************************************************)
(* JSON-RPC requests with retries and failover                             *)
(* (crates/chains/evm/src/rpc.rs), and the adapter operations built on     *)
(* them (adapter.rs, decode.rs).  Endpoint p is tried at attempt a when    *)
(* a % N = p; each attempt first asks for the chain id and then makes the  *)
(* call, under one timeout.  Endpoints may serve the wrong chain, fail in  *)
(* every way ChainError tells apart, answer anything, or not at all.       *)
(*                                                                         *)
(* One operation is followed at a time: operations share nothing but the   *)
(* client, which has no state of its own.  Back-off delays are steps       *)
(* without a duration.                                                     *)
(***************************************************************************)
EXTENDS Integers

CONSTANTS
    N,              \* how many endpoints are configured
    Attempts,       \* --rpc-max-retries
    Blocks,         \* block hashes an endpoint may answer with
    MaxLogs,        \* bound: log indices an endpoint may answer with
    MaxHeight,      \* bound: heights an endpoint may answer with
    Confirmations,  \* --finality-confirmations
    Null            \* JSON null, and None

(* RpcClient::new refuses anything else.                                   *)
ASSUME ClientAssumption == N \in Nat \ {0} /\ Attempts \in Nat \ {0}
ASSUME RpcBounds == MaxLogs \in Nat /\ MaxHeight \in Nat /\ Confirmations \in Nat

Endpoints == 0..(N - 1)

Operations == {"validate", "latest", "finalized", "header", "block"}

ASSUME NullAssumption == Null \notin Operations

(* The failures of one call.  "unsupported" is Rpc with code -32601 or     *)
(* -32602, "rpc" any other code; "decode" a malformed response or          *)
(* quantity.  A timeout is "transport".                                    *)
CallErrors == {"transport", "rate_limited", "unsupported", "rpc", "decode"}

VARIABLES
    rightChain,   \* the endpoints that serve the expected chain
    op,           \* the adapter operation under way, or Null
    method,       \* the method of its current request
    attempt,      \* the attempt of the current request
    stage,        \* where the attempt stands, or the operation's outcome
    held,         \* fetch_block's header while it asks for the logs
    result,       \* the value or error the operation returned
    from,         \* history: endpoints whose answers the result rests on
    tried         \* history: endpoints whose attempt failed in this request

requestVars == <<method, attempt, stage, tried>>
vars == <<rightChain, op, method, attempt, stage, held, result, from, tried>>

Ended == {"ok", "err"}

-----------------------------------------------------------------------------
(* Mutant: every attempt goes to the first endpoint.                       *)
FirstEndpoint == 0

(* The endpoint of the current attempt.                                    *)
Provider == attempt % N

(* ChainError::is_retryable *)
IsRetryable(e) == e \in {"transport", "rate_limited"}

Init ==
    /\ rightChain \in SUBSET Endpoints
    /\ op = Null /\ method = Null /\ attempt = 0 /\ stage = "ok"
    /\ held = Null /\ result = Null
    /\ from = {} /\ tried = {}

(* request(): the attempts start over, at the first endpoint.              *)
Request(m) ==
    method' = m /\ attempt' = 0 /\ stage' = "identity" /\ tried' = {}

(* The first request of each operation; "finalized" stands for asking      *)
(* eth_getBlockByNumber with that tag.                                     *)
MethodOf ==
    [validate |-> "eth_chainId", latest |-> "eth_blockNumber", finalized |-> "finalized",
     header |-> "eth_getBlockByNumber", block |-> "eth_getBlockByNumber"]

Begin(o) ==
    /\ stage \in Ended
    /\ op' = o
    /\ Request(MethodOf[o])
    /\ held' = Null /\ result' = Null /\ from' = {}
    /\ UNCHANGED rightChain

Return(outcome, value) ==
    /\ stage' = outcome /\ result' = value
    /\ held' = Null
    /\ UNCHANGED <<op, method, attempt, tried>>

(* latest_height().saturating_sub(finality_confirmations)                  *)
Estimate(h) == IF h > Confirmations THEN h - Confirmations ELSE 0

-----------------------------------------------------------------------------
(* A failed request, as the operation sees it: finalized_height falls back *)
(* to an estimate when the endpoint does not know the tag, everything else *)
(* is returned.                                                            *)
RequestFailed(e) ==
    IF method = "finalized" /\ e = "unsupported"
    THEN Request("eth_blockNumber") /\ UNCHANGED <<op, held, result>>
    ELSE Return("err", e)

(* Mutant: one attempt too many.                                           *)
AttemptFailedOnceMore(e) ==
    IF IsRetryable(e) /\ attempt < Attempts
    THEN /\ stage' = "backoff" /\ tried' = tried \union {Provider}
         /\ UNCHANGED <<op, method, attempt, held, result>>
    ELSE RequestFailed(e)

(* A failed attempt: retryable errors lead to the next one.                *)
AttemptFailed(e) ==
    IF IsRetryable(e) /\ attempt + 1 < Attempts
    THEN /\ stage' = "backoff" /\ tried' = tried \union {Provider}
         /\ UNCHANGED <<op, method, attempt, held, result>>
    ELSE RequestFailed(e)

(* Mutant: the attempt is repeated without being counted.                  *)
WakeUncounted ==
    /\ stage = "backoff"
    /\ stage' = "identity"
    /\ UNCHANGED <<rightChain, op, method, attempt, held, result, from, tried>>

(* The back-off is over: on to the next endpoint.                          *)
Wake ==
    /\ stage = "backoff"
    /\ attempt' = attempt + 1 /\ stage' = "identity"
    /\ UNCHANGED <<rightChain, op, method, held, result, from, tried>>

CallFails(e) ==
    /\ stage \in {"identity", "call"}
    /\ AttemptFailed(e)
    /\ UNCHANGED <<rightChain, from>>

(* Nothing came back in time.                                              *)
Timeout == CallFails("transport")

(* Mutant: only the first attempt verifies the chain.                      *)
IdentityOnce ==
    /\ stage = "identity"
    /\ IF attempt = 0 /\ Provider \notin rightChain
       THEN AttemptFailed("mismatch") /\ UNCHANGED from
       ELSE IF method = "eth_chainId"
       THEN Return("ok", Null) /\ from' = from \union {Provider}
       ELSE /\ stage' = "call"
            /\ UNCHANGED <<op, method, attempt, held, result, from, tried>>
    /\ UNCHANGED rightChain

(* eth_chainId is answered and compared with the configured chain.         *)
Identity ==
    /\ stage = "identity"
    /\ IF Provider \notin rightChain
       THEN AttemptFailed("mismatch") /\ UNCHANGED from
       ELSE IF method = "eth_chainId"
       THEN Return("ok", Null) /\ from' = from \union {Provider}
       ELSE /\ stage' = "call"
            /\ UNCHANGED <<op, method, attempt, held, result, from, tried>>
    /\ UNCHANGED rightChain

-----------------------------------------------------------------------------
(* The answers, and what each operation makes of them.                     *)

Answer(m) ==
    /\ stage = "call" /\ method = m
    /\ from' = from \union {Provider}
    /\ UNCHANGED rightChain

LatestAnswered ==
    /\ Answer("eth_blockNumber")
    /\ \E h \in 0..MaxHeight :
          Return("ok", IF op = "finalized" THEN Estimate(h) ELSE h)

(* No finalized block is height zero.                                      *)
FinalizedAnswered ==
    /\ Answer("finalized")
    /\ \E h \in (0..MaxHeight) \union {Null} :
          Return("ok", IF h = Null THEN 0 ELSE h)

(* decode::header refuses null and another height; fetch_block goes on     *)
(* with the logs of the block it was given.                                *)
HeaderAnswered ==
    /\ Answer("eth_getBlockByNumber")
    /\ \/ Return("err", "unavailable")
       \/ Return("err", "decode")
       \/ /\ op = "header"
          /\ \E b \in Blocks : Return("ok", b)
       \/ /\ op = "block"
          /\ \E b \in Blocks : held' = b
          /\ Request("eth_getLogs")
          /\ UNCHANGED <<op, result>>

Logs == [block : Blocks, index : 0..MaxLogs]

(* Mutant: log indices are sorted but not checked for gaps.                *)
DecodesSorted(logs) == \A l \in logs : l.block = held

(* decode::block: every log is of this block, and the indices are          *)
(* 0, 1, 2, ... without a gap or a repetition.                             *)
Decodes(logs) ==
    /\ \A l \in logs : l.block = held
    /\ \A l, k \in logs : l.index = k.index => l = k
    /\ \E n \in 0..(MaxLogs + 1) : {l.index : l \in logs} = 0..(n - 1)

LogsAnswered ==
    /\ Answer("eth_getLogs")
    /\ \E logs \in SUBSET Logs :
          IF Decodes(logs)
          THEN Return("ok", [hash |-> held, logs |-> logs])
          ELSE Return("err", "decode")

-----------------------------------------------------------------------------
Next ==
    \/ \E o \in Operations : Begin(o)
    \/ Wake \/ Timeout \/ Identity
    \/ \E e \in CallErrors : CallFails(e)
    \/ LatestAnswered \/ FinalizedAnswered \/ HeaderAnswered \/ LogsAnswered

Spec == Init /\ [][Next]_vars

(* Timers fire; no endpoint need ever answer.                              *)
FairSpec == Spec /\ WF_vars(Wake) /\ WF_vars(Timeout)

-----------------------------------------------------------------------------
(* The client stays within its attempts, asks configured endpoints, and    *)
(* fetches a block with the two methods that takes.                        *)
TypeOK ==
    /\ rightChain \subseteq Endpoints
    /\ op \in Operations \union {Null}
    /\ attempt \in 0..(Attempts - 1)
    /\ stage \in {"identity", "call", "backoff"} \union Ended
    /\ from \subseteq Endpoints /\ tried \subseteq Endpoints
    /\ op = "block" => method \in {"eth_getBlockByNumber", "eth_getLogs"}

(* The endpoints of the attempts made so far have failed.                  *)
TriedInTurn ==
    /\ \A p \in Endpoints : p < attempt => p \in tried
    /\ stage = "backoff" => Provider \in tried /\ attempt + 1 < Attempts

(* A call is made only after the endpoint's chain was verified.            *)
CallsAreVerified ==
    /\ stage = "call" => Provider \in rightChain
    /\ from \subseteq rightChain

(* No answer of an endpoint on another chain reaches a caller, whichever   *)
(* endpoint the failover settles on for each request of the operation.     *)
OnlyRightChain == stage = "ok" => from \subseteq rightChain

(* A transient error is reported only after every endpoint the attempts    *)
(* reach has failed: one endpoint that answers is enough.                  *)
GivesUpLast ==
    stage = "err" /\ IsRetryable(result) =>
        \A p \in Endpoints : p < Attempts => p \in tried \union {Provider}

(* A fetched block is whole: its logs are its own, from the first on and   *)
(* without gaps, although block and logs come from two requests that may   *)
(* reach endpoints on different forks.                                     *)
BlockIsConsistent ==
    stage = "ok" /\ op = "block" =>
        /\ \A l \in result.logs : l.block = result.hash
        /\ \A l \in result.logs : \A i \in 0..l.index :
              \E k \in result.logs : k.index = i

(* A transient error ends a request at the last attempt only.              *)
TransientAtLastAttempt ==
    stage = "err" /\ IsRetryable(result) => attempt + 1 = Attempts

(* The inductive invariant of RpcClientProofs: attempts go round the       *)
(* endpoints in turn, each call follows its own identity check, and what   *)
(* an operation returned was decoded from such calls.                      *)
RpcInvariant ==
    TypeOK /\ TriedInTurn /\ CallsAreVerified /\ TransientAtLastAttempt /\ BlockIsConsistent

(* Every operation ends, even if no endpoint ever answers.                 *)
OperationEnds == stage \notin Ended ~> stage \in Ended
=============================================================================
