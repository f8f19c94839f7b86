-------------------------- MODULE RpcClientProofs --------------------------
(***************************************************************************)
(* Proofs about RpcClient, for any number of endpoints and attempts and    *)
(* any answers: only the configured chain is listened to, every endpoint   *)
(* in reach is asked before a transient error is reported, and a fetched   *)
(* block is consistent.                                                    *)
(***************************************************************************)
EXTENDS RpcClient, TLAPS

USE ClientAssumption, RpcBounds, NullAssumption

(* The attempts go round the endpoints, starting with the first.           *)
LEMMA ProviderInTurn ==
    ASSUME attempt \in Nat
    PROVE  Provider \in Endpoints /\ (attempt < N => Provider = attempt)
BY DEF Provider, Endpoints

(* A list of logs that decodes is the beginning of the block's logs.       *)
LEMMA DecodedIsPrefix ==
    ASSUME NEW logs \in SUBSET Logs, Decodes(logs)
    PROVE  /\ \A l \in logs : l.block = held
           /\ \A l \in logs : \A i \in 0..l.index : \E k \in logs : k.index = i
<1>1. PICK n \in 0..(MaxLogs + 1) : {l.index : l \in logs} = 0..(n - 1)
  BY DEF Decodes
<1>2. ASSUME NEW l \in logs, NEW i \in 0..l.index
      PROVE  \E k \in logs : k.index = i
  <2>1. l.index \in 0..(n - 1)
    BY <1>1
  <2>2. i \in 0..(n - 1)
    BY <2>1
  <2>. QED BY <1>1, <2>2
<1>. QED BY <1>2 DEF Decodes

(* A failed attempt keeps the invariant, whatever the error.               *)
LEMMA FailureKeepsInvariant ==
    ASSUME RpcInvariant, NEW e, AttemptFailed(e), stage \in {"identity", "call"},
           UNCHANGED <<rightChain, from>>
    PROVE  RpcInvariant'
<1>. USE DEF RpcInvariant, TypeOK, Ended
<1>1. attempt \in Nat /\ Provider \in Endpoints /\ (attempt < N => Provider = attempt)
  BY ProviderInTurn
<1>2. CASE IsRetryable(e) /\ attempt + 1 < Attempts
  <2>1. /\ stage' = "backoff" /\ tried' = tried \union {Provider}
        /\ UNCHANGED <<op, method, attempt, held, result>>
    BY <1>2 DEF AttemptFailed
  <2>2. Provider' = Provider
    BY <2>1 DEF Provider
  <2>3. TypeOK' /\ TriedInTurn'
    BY <1>1, <1>2, <2>1, <2>2 DEF TriedInTurn
  <2>4. CallsAreVerified' /\ TransientAtLastAttempt' /\ BlockIsConsistent'
    BY <2>1 DEF CallsAreVerified, TransientAtLastAttempt, BlockIsConsistent
  <2>. QED BY <2>3, <2>4
<1>3. CASE ~(IsRetryable(e) /\ attempt + 1 < Attempts)
  <2>1. RequestFailed(e)
    BY <1>3 DEF AttemptFailed
  <2>2. CASE method = "finalized" /\ e = "unsupported"
    <3>1. /\ method' = "eth_blockNumber" /\ attempt' = 0 /\ stage' = "identity" /\ tried' = {}
          /\ UNCHANGED <<op, held, result>>
      BY <2>1, <2>2 DEF RequestFailed, Request
    <3>2. op # "block"
      BY <2>2
    <3>3. TypeOK' /\ TriedInTurn'
      BY <3>1, <3>2 DEF TriedInTurn, Endpoints
    <3>4. CallsAreVerified' /\ TransientAtLastAttempt' /\ BlockIsConsistent'
      BY <3>1 DEF CallsAreVerified, TransientAtLastAttempt, BlockIsConsistent
    <3>. QED BY <3>3, <3>4
  <2>3. CASE ~(method = "finalized" /\ e = "unsupported")
    <3>1. /\ stage' = "err" /\ result' = e
          /\ UNCHANGED <<op, method, attempt, tried>>
      BY <2>1, <2>3 DEF RequestFailed, Return
    <3>2. TypeOK' /\ TriedInTurn'
      BY <3>1 DEF TriedInTurn
    <3>3. TransientAtLastAttempt'
      BY <1>1, <1>3, <3>1 DEF TransientAtLastAttempt
    <3>4. CallsAreVerified' /\ BlockIsConsistent'
      BY <3>1 DEF CallsAreVerified, BlockIsConsistent
    <3>. QED BY <3>2, <3>3, <3>4
  <2>. QED BY <2>2, <2>3
<1>. QED BY <1>2, <1>3

(* Returning a value that is no block, or an error of decoding, keeps the  *)
(* invariant.                                                              *)
LEMMA ReturnKeepsInvariant ==
    ASSUME RpcInvariant, NEW o \in Ended, NEW v, Return(o, v),
           o = "err" => ~IsRetryable(v),
           o = "ok" => op # "block",
           rightChain' = rightChain, from' \subseteq rightChain
    PROVE  RpcInvariant'
<1>. USE DEF RpcInvariant, TypeOK, Ended
<1>1. stage' = o /\ result' = v /\ UNCHANGED <<op, method, attempt, tried>>
  BY DEF Return
<1>2. TypeOK' /\ TriedInTurn'
  BY <1>1 DEF TriedInTurn
<1>3. CallsAreVerified' /\ TransientAtLastAttempt' /\ BlockIsConsistent'
  BY <1>1 DEF CallsAreVerified, TransientAtLastAttempt, BlockIsConsistent, IsRetryable
<1>. QED BY <1>2, <1>3

(* Every step keeps the invariant.                                         *)
LEMMA RpcInvariantStep ==
    RpcInvariant /\ [Next]_vars => RpcInvariant'
<1>. SUFFICES ASSUME RpcInvariant, [Next]_vars PROVE RpcInvariant'
  OBVIOUS
<1>. USE DEF RpcInvariant, TypeOK, Ended
<1>1. ASSUME NEW o \in Operations, Begin(o) PROVE RpcInvariant'
  <2>1. /\ op' = o /\ method' = MethodOf[o] /\ attempt' = 0 /\ stage' = "identity"
        /\ tried' = {} /\ from' = {} /\ UNCHANGED rightChain
    BY <1>1 DEF Begin, Request
  <2>2. o = "block" => MethodOf[o] = "eth_getBlockByNumber"
    BY DEF MethodOf
  <2>3. TypeOK' /\ TriedInTurn'
    BY <2>1, <2>2 DEF TriedInTurn, Endpoints
  <2>4. CallsAreVerified' /\ TransientAtLastAttempt' /\ BlockIsConsistent'
    BY <2>1 DEF CallsAreVerified, TransientAtLastAttempt, BlockIsConsistent
  <2>. QED BY <2>3, <2>4
<1>2. CASE Wake
  <2>1. /\ stage = "backoff" /\ attempt' = attempt + 1 /\ stage' = "identity"
        /\ UNCHANGED <<rightChain, op, method, held, result, from, tried>>
    BY <1>2 DEF Wake
  <2>2. TypeOK'
    BY <2>1 DEF TriedInTurn
  <2>3. TriedInTurn'
    BY <2>1, ProviderInTurn DEF TriedInTurn, Endpoints
  <2>4. CallsAreVerified' /\ TransientAtLastAttempt' /\ BlockIsConsistent'
    BY <2>1 DEF CallsAreVerified, TransientAtLastAttempt, BlockIsConsistent
  <2>. QED BY <2>2, <2>3, <2>4
<1>3. ASSUME NEW e, CallFails(e) PROVE RpcInvariant'
  BY <1>3, FailureKeepsInvariant DEF CallFails
<1>4. CASE Timeout
  BY <1>3, <1>4 DEF Timeout
<1>5. CASE Identity
  <2>1. stage = "identity" /\ UNCHANGED rightChain
    BY <1>5 DEF Identity
  <2>2. CASE Provider \notin rightChain
    BY <1>5, <2>1, <2>2, FailureKeepsInvariant DEF Identity
  <2>3. CASE Provider \in rightChain /\ method = "eth_chainId"
    <3>1. Return("ok", Null) /\ from' = from \union {Provider}
      BY <1>5, <2>3 DEF Identity
    <3>2. op # "block" /\ from' \subseteq rightChain
      BY <2>3, <3>1 DEF CallsAreVerified
    <3>. QED BY <2>1, <3>1, <3>2, ReturnKeepsInvariant
  <2>4. CASE Provider \in rightChain /\ method # "eth_chainId"
    <3>1. /\ stage' = "call"
          /\ UNCHANGED <<op, method, attempt, held, result, from, tried>>
      BY <1>5, <2>4 DEF Identity
    <3>2. TypeOK' /\ TriedInTurn'
      BY <2>1, <3>1 DEF TriedInTurn
    <3>3. CallsAreVerified' /\ TransientAtLastAttempt' /\ BlockIsConsistent'
      BY <2>1, <2>4, <3>1
         DEF CallsAreVerified, TransientAtLastAttempt, BlockIsConsistent, Provider
    <3>. QED BY <3>2, <3>3
  <2>. QED BY <2>2, <2>3, <2>4
<1>6. ASSUME NEW m, Answer(m)
      PROVE  stage = "call" /\ method = m /\ rightChain' = rightChain /\ from' \subseteq rightChain
  BY <1>6 DEF Answer, CallsAreVerified
<1>7. CASE LatestAnswered
  <2>1. Answer("eth_blockNumber") /\ \E v : Return("ok", v)
    BY <1>7 DEF LatestAnswered
  <2>. QED BY <1>6, <2>1, ReturnKeepsInvariant
<1>8. CASE FinalizedAnswered
  <2>1. Answer("finalized") /\ \E v : Return("ok", v)
    BY <1>8 DEF FinalizedAnswered
  <2>. QED BY <1>6, <2>1, ReturnKeepsInvariant
<1>9. CASE HeaderAnswered
  <2>1. /\ stage = "call" /\ rightChain' = rightChain /\ from' \subseteq rightChain
    BY <1>6, <1>9 DEF HeaderAnswered
  <2>2. ASSUME NEW v \in {"unavailable", "decode"}, Return("err", v) PROVE RpcInvariant'
    BY <2>1, <2>2, ReturnKeepsInvariant DEF IsRetryable
  <2>3. ASSUME op = "header", NEW v, Return("ok", v) PROVE RpcInvariant'
    BY <2>1, <2>3, ReturnKeepsInvariant
  <2>4. ASSUME Request("eth_getLogs"), UNCHANGED <<op, result>> PROVE RpcInvariant'
    <3>1. method' = "eth_getLogs" /\ attempt' = 0 /\ stage' = "identity" /\ tried' = {}
      BY <2>4 DEF Request
    <3>2. from' \subseteq Endpoints
      BY <2>1
    <3>3. TypeOK' /\ TriedInTurn'
      BY <2>1, <2>4, <3>1, <3>2 DEF TriedInTurn, Endpoints
    <3>4. CallsAreVerified' /\ TransientAtLastAttempt' /\ BlockIsConsistent'
      BY <2>1, <3>1 DEF CallsAreVerified, TransientAtLastAttempt, BlockIsConsistent
    <3>. QED BY <3>3, <3>4
  <2>. QED BY <1>9, <2>2, <2>3, <2>4 DEF HeaderAnswered
<1>10. CASE LogsAnswered
  <2>1. /\ stage = "call" /\ rightChain' = rightChain /\ from' \subseteq rightChain
    BY <1>6, <1>10 DEF LogsAnswered
  <2>2. PICK logs \in SUBSET Logs :
          IF Decodes(logs) THEN Return("ok", [hash |-> held, logs |-> logs])
          ELSE Return("err", "decode")
    BY <1>10 DEF LogsAnswered
  <2>3. CASE Decodes(logs)
    <3>1. /\ stage' = "ok" /\ result' = [hash |-> held, logs |-> logs]
          /\ UNCHANGED <<op, method, attempt, tried>>
      BY <2>2, <2>3 DEF Return
    <3>2. BlockIsConsistent'
      BY <2>3, <3>1, DecodedIsPrefix DEF BlockIsConsistent
    <3>3. TypeOK' /\ TriedInTurn'
      BY <2>1, <3>1 DEF TriedInTurn
    <3>4. CallsAreVerified' /\ TransientAtLastAttempt'
      BY <2>1, <3>1 DEF CallsAreVerified, TransientAtLastAttempt
    <3>. QED BY <3>2, <3>3, <3>4
  <2>4. CASE ~Decodes(logs)
    BY <2>1, <2>2, <2>4, ReturnKeepsInvariant DEF IsRetryable
  <2>. QED BY <2>3, <2>4
<1>11. CASE UNCHANGED vars
  BY <1>11 DEF vars, TriedInTurn, CallsAreVerified, TransientAtLastAttempt,
               BlockIsConsistent, Provider
<1>. QED BY <1>1, <1>2, <1>3, <1>4, <1>5, <1>7, <1>8, <1>9, <1>10, <1>11 DEF Next

(* RpcInvariant always holds: the attempts go round the endpoints in turn, *)
(* each call follows its own identity check, and a fetched block is whole. *)
THEOREM ClientKeepsInvariant == Spec => []RpcInvariant
<1>1. Init => RpcInvariant
  <2>. SUFFICES ASSUME Init PROVE RpcInvariant
    OBVIOUS
  <2>1. op # "block"
    BY DEF Init, Operations
  <2>2. TypeOK /\ TriedInTurn
    BY <2>1 DEF Init, TypeOK, TriedInTurn, Ended, Endpoints
  <2>3. CallsAreVerified /\ TransientAtLastAttempt /\ BlockIsConsistent
    BY <2>1 DEF Init, CallsAreVerified, TransientAtLastAttempt, BlockIsConsistent
  <2>. QED BY <2>2, <2>3 DEF RpcInvariant
<1>. QED BY <1>1, RpcInvariantStep, PTL DEF Spec

(* A result rests on answers of the configured chain only                  *)
(* (ChainIdMismatch in RpcClient::request), for any endpoints and failures. *)
THEOREM ClientHearsOnlyRightChain == Spec => []OnlyRightChain
<1>1. RpcInvariant => OnlyRightChain
  BY DEF RpcInvariant, CallsAreVerified, OnlyRightChain
<1>. QED BY <1>1, ClientKeepsInvariant, PTL

(* A transient error is reported only after every endpoint in reach of the *)
(* attempts has failed (the failover of RpcClient::request).               *)
THEOREM ClientGivesUpLast == Spec => []GivesUpLast
<1>1. RpcInvariant => GivesUpLast
  <2>. SUFFICES ASSUME RpcInvariant, stage = "err", IsRetryable(result),
                       NEW p \in Endpoints, p < Attempts
                PROVE  p \in tried \union {Provider}
    BY DEF GivesUpLast
  <2>1. attempt \in Nat /\ attempt + 1 = Attempts
    BY DEF RpcInvariant, TypeOK, TransientAtLastAttempt
  <2>2. p \in Nat /\ p < N /\ (p < attempt \/ p = attempt)
    BY <2>1 DEF Endpoints
  <2>. QED BY <2>1, <2>2, ProviderInTurn DEF RpcInvariant, TriedInTurn
<1>. QED BY <1>1, ClientKeepsInvariant, PTL

(* A fetched block has its own logs only, from the first on and without a  *)
(* gap (decode::block), although they come from separate requests.         *)
THEOREM ClientBlockIsConsistent == Spec => []BlockIsConsistent
<1>1. RpcInvariant => BlockIsConsistent
  BY DEF RpcInvariant
<1>. QED BY <1>1, ClientKeepsInvariant, PTL
=============================================================================
