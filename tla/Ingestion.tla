----------------------------- MODULE Ingestion -----------------------------
(***************************************************************************)
(* The ingestion node: bins/superquery-node/src/ingest.rs driving a        *)
(* FetchScheduler (Scheduler.tla) against RPC endpoints that follow a      *)
(* forking chain, and committing to the shared journal                     *)
(* (IngestionStore.tla).  A client of the journal is one node process;     *)
(* several may run on the same schema.                                     *)
(*                                                                         *)
(* The chain (Chain.tla).  `fin` is what the network has finalized.  Every *)
(* endpoint has its own view: it agrees with `fin` as far as it knows it   *)
(* to be final, and is free to be behind, ahead or on an abandoned fork    *)
(* above that.  A request may be answered by any endpoint (rpc.rs retries  *)
(* over all of them).                                                      *)
(*                                                                         *)
(* Every request, every SQL statement and the acknowledgement is a step of *)
(* its own; processes crash, are signalled and are started again.          *)
(***************************************************************************)
EXTENDS Chain, IngestionStore, Scheduler

CONSTANTS
    Endpoints,      \* the configured RPC endpoints
    Config,         \* per client: [start, end, batch, bp, plan]
    FinalizedTag,   \* whether the endpoints support the "finalized" tag
    Confirmations,  \* --finality-confirmations
    MaxFaults       \* bound: crashes, signals, failed requests and commits

ASSUME TagAssumption == FinalizedTag \in BOOLEAN
ASSUME BoundAssumption == Confirmations \in Nat  /\ MaxFaults \in Nat

(* What main.rs and ingest.rs hand over: heights are u64, the batch size   *)
(* is positive (run() refuses zero), Backpressure::new raises its limits   *)
(* to one, and the node's plan bypasses nothing.  i64::MAX is below        *)
(* u64::MAX, and the hashes are those of the branches.                     *)
ASSUME NodeAssumption ==
    /\ Config \in [Clients -> [start : Height, end : Height \union {NoHeight},
                               batch : Nat \ {0},
                               bp    : [maxInFlight : Nat \ {0}, queueCapacity : Nat \ {0}],
                               plan  : {<<>>}]]
    /\ MaxSqlHeight < MaxU64 /\ MaxChain <= MaxU64
    /\ Branches \union {<<>>} \subseteq Hashes

VARIABLES
    fin, view, known,    \* the chain: finalized branch, view per endpoint,
                         \* and how many blocks of it the endpoint reports final
    pc,                  \* where each process stands
    s,                   \* its scheduler
    last,                \* the journal row it loaded at start
    latest,              \* the head height it read before asking for finality
    got,                 \* the headers fetched so far for the pending batch
    batch,               \* the headers fetched and not yet accepted
    cancelled,           \* its shutdown token
    faults               \* how many faults have happened

chainVars == <<fin, view, known>>
nodeVars  == <<pc, s, last, latest, got, batch, cancelled>>
vars      == <<storeVars, chainVars, nodeVars, faults>>

Ended   == {"down", "done", "stopped", "failed"}
InLoop  == {"loop", "finalized", "fetching", "next_block", "accepting"}
Running == {"load", "verify"} \union InLoop

-----------------------------------------------------------------------------
(* The chain as the adapter reports it.                                    *)

HasBlock(e, h) == h < Len(view[e])

(* eth_blockNumber *)
LatestHeight(e) == Len(view[e]) - 1

(* Mutant: the head passes for the finalized block.                        *)
FinalizedIsLatest(e) == LatestHeight(e)

(* EvmAdapter::finalized_height: zero while the endpoint reports no        *)
(* finalized block; an estimate from the head when it has no such tag.     *)
FinalizedHeight(e) ==
    IF FinalizedTag THEN SatSub(known[e], 1)
    ELSE SatSub(LatestHeight(e), Confirmations)

ChainInit ==
    /\ fin = <<Genesis>>
    /\ view = [e \in Endpoints |-> <<Genesis>>]
    /\ known = [e \in Endpoints |-> 0]

(* The network finalizes one more block.                                   *)
Finalize ==
    /\ Len(fin) <= MaxChain
    /\ \E f \in Forks : fin' = Append(fin, f)
    /\ UNCHANGED <<view, known, storeVars, nodeVars, faults>>

(* An endpoint follows the chain: new blocks, a reorg above what it knows  *)
(* to be final, news of finality.                                          *)
EndpointMoves(e) ==
    /\ \E b \in Branches, k \in known[e]..Len(fin) :
          /\ k <= Len(b)
          /\ SubSeq(b, 1, k) = SubSeq(fin, 1, k)
          /\ view' = [view EXCEPT ![e] = b]
          /\ known' = [known EXCEPT ![e] = k]
    /\ UNCHANGED <<fin, storeVars, nodeVars, faults>>

-----------------------------------------------------------------------------
(* One node process.                                                       *)

Init ==
    /\ StoreInit
    /\ ChainInit
    /\ pc = [n \in Clients |-> "load"]
    /\ s = [n \in Clients |-> NewScheduler(Config[n])]
    /\ last = [n \in Clients |-> NoHeader]
    /\ latest = [n \in Clients |-> 0]
    /\ got = [n \in Clients |-> {}]
    /\ batch = [n \in Clients |-> <<>>]
    /\ cancelled = [n \in Clients |-> FALSE]
    /\ faults = 0

(* run() returns or the process dies: everything but the database is lost. *)
Leave(n, how) ==
    /\ pc' = [pc EXCEPT ![n] = how]
    /\ s' = [s EXCEPT ![n] = NewScheduler(Config[n])]
    /\ last' = [last EXCEPT ![n] = NoHeader]
    /\ latest' = [latest EXCEPT ![n] = 0]
    /\ got' = [got EXCEPT ![n] = {}]
    /\ batch' = [batch EXCEPT ![n] = <<>>]
    /\ cancelled' = [cancelled EXCEPT ![n] = FALSE]

Goto(n, where) == pc' = [pc EXCEPT ![n] = where]

Fault == faults < MaxFaults /\ faults' = faults + 1

(* journal.load: without a row the scheduler starts at the start height.   *)
Load(n) ==
    /\ pc[n] = "load"
    /\ IF journal = {}
       THEN Goto(n, "loop") /\ UNCHANGED last
       ELSE Goto(n, "verify") /\ last' = [last EXCEPT ![n] = Latest(journal)]
    /\ UNCHANGED <<storeVars, chainVars, s, latest, got, batch, cancelled, faults>>

(* The loaded row must still be what the chain has at that height, and the *)
(* configured start must not lie beyond the next height.                   *)
MayResume(n, e) ==
    /\ HasBlock(e, last[n].height)
    /\ BlockAt(view[e], last[n].height).hash = last[n].hash
    /\ Config[n].start <= SatAdd(last[n].height, 1)

Verify(n, e) ==
    /\ pc[n] = "verify" /\ ~cancelled[n]
    /\ IF MayResume(n, e)
       THEN /\ Goto(n, "loop")
            /\ s' = [s EXCEPT ![n] = ResumeFrom(Config[n], s[n], last[n].height)]
            /\ UNCHANGED <<last, latest, got, batch, cancelled>>
       ELSE Leave(n, "failed")
    /\ UNCHANGED <<storeVars, chainVars, faults>>

Finish(n) ==
    /\ pc[n] = "loop" /\ IsComplete(Config[n], s[n])
    /\ Leave(n, "done")
    /\ UNCHANGED <<storeVars, chainVars, faults>>

(* FetchScheduler::safe_head asks for the latest height first ...          *)
AskLatest(n, e) ==
    /\ pc[n] = "loop" /\ ~cancelled[n]
    /\ NeedsHead(Config[n], s[n], 0, 0)
    /\ latest' = [latest EXCEPT ![n] = LatestHeight(e)]
    /\ Goto(n, "finalized")
    /\ UNCHANGED <<storeVars, chainVars, s, last, got, batch, cancelled, faults>>

(* ... and then for the finalized one; the two may come from different     *)
(* endpoints.  With nothing to fetch the loop sleeps and starts over.      *)
AskFinalized(n, e) ==
    /\ pc[n] = "finalized" /\ ~cancelled[n]
    /\ LET head == SafeHead(latest[n], FinalizedHeight(e), FALSE)
       IN  \E next \in {PlanFrom(Config[n], s[n], head, 0, 0)} :
              /\ s' = [s EXCEPT ![n] = next]
              /\ Goto(n, IF NextHeights(Config[n], next, 0, 0) = <<>> THEN "loop" ELSE "fetching")
    /\ latest' = [latest EXCEPT ![n] = 0]
    /\ UNCHANGED <<storeVars, chainVars, last, got, batch, cancelled, faults>>

Requested(n) ==
    LET hs == NextHeights(Config[n], s[n], 0, 0) IN {hs[i] : i \in DOMAIN hs}

(* The fetches of a batch complete in any order.  A block the endpoint     *)
(* does not have is not retried: the run fails.                            *)
FetchBlock(n, e, h) ==
    /\ pc[n] = "fetching" /\ ~cancelled[n]
    /\ h \in Requested(n) /\ \A b \in got[n] : b.height # h
    /\ IF HasBlock(e, h)
       THEN /\ got' = [got EXCEPT ![n] = @ \union {BlockAt(view[e], h)}]
            /\ UNCHANGED <<pc, s, last, latest, batch, cancelled>>
       ELSE Leave(n, "failed")
    /\ UNCHANGED <<storeVars, chainVars, faults>>

(* The fetched headers in height order.                                    *)
InOrder(n) ==
    [i \in 1..Len(NextHeights(Config[n], s[n], 0, 0)) |->
        CHOOSE b \in got[n] : b.height = NextHeights(Config[n], s[n], 0, 0)[i]]

(* The batch must be linked before any of it is handed to the sink.        *)
Linked(bs) == \A i \in 1..(Len(bs) - 1) : IsChildOf(bs[i+1], bs[i])

FetchDone(n) ==
    /\ pc[n] = "fetching" /\ ~cancelled[n]
    /\ {b.height : b \in got[n]} = Requested(n)
    /\ IF Linked(InOrder(n))
       THEN /\ Goto(n, "next_block")
            /\ batch' = [batch EXCEPT ![n] = InOrder(n)]
            /\ got' = [got EXCEPT ![n] = {}]
            /\ UNCHANGED <<s, last, latest, cancelled>>
       ELSE Leave(n, "failed")
    /\ UNCHANGED <<storeVars, chainVars, faults>>

BatchDone(n) ==
    /\ pc[n] = "next_block" /\ batch[n] = <<>>
    /\ Goto(n, "loop")
    /\ UNCHANGED <<storeVars, chainVars, s, last, latest, got, batch, cancelled, faults>>

(* Sink::accept calls commit(), unless the token was cancelled.            *)
BeginAccept(n) ==
    /\ pc[n] = "next_block" /\ batch[n] # <<>> /\ ~cancelled[n]
    /\ CallCommit(n, Head(batch[n]))
    /\ Goto(n, "accepting")
    /\ UNCHANGED <<chainVars, s, last, latest, got, batch, cancelled, faults>>

(* The transaction proceeds in the database.                               *)
RunTx(n) ==
    /\ LockTable(n) \/ ReadLatest(n) \/ Insert(n)
    /\ UNCHANGED <<chainVars, nodeVars, faults>>

EndTx(n) ==
    /\ CommitTx(n)
    /\ IF tx'[n].phase = "ok" THEN UNCHANGED faults ELSE Fault
    /\ UNCHANGED <<chainVars, nodeVars>>

BreakTx(n) ==
    /\ FailTx(n) /\ Fault
    /\ UNCHANGED <<chainVars, nodeVars>>

(* Mutant: the accepted block is not acknowledged.                         *)
AcceptedUnacknowledged(n) ==
    /\ pc[n] = "accepting" /\ tx[n].phase = "ok"
    /\ TakeResult(n)
    /\ batch' = [batch EXCEPT ![n] = Tail(@)]
    /\ Goto(n, "next_block")
    /\ UNCHANGED <<chainVars, s, last, latest, got, cancelled, faults>>

(* accept() returned Ok: the block is acknowledged.                        *)
Accepted(n) ==
    /\ pc[n] = "accepting" /\ tx[n].phase = "ok"
    /\ TakeResult(n)
    /\ IF CanAcknowledge(s[n], Head(batch[n]).height)
       THEN /\ s' = [s EXCEPT ![n] = Acknowledge(@, Head(batch[n]).height)]
            /\ batch' = [batch EXCEPT ![n] = Tail(@)]
            /\ Goto(n, "next_block")
            /\ UNCHANGED <<last, latest, got, cancelled>>
       ELSE Leave(n, "failed")
    /\ UNCHANGED <<chainVars, faults>>

(* Mutant: a refused block is acknowledged and the loop goes on.           *)
RefusedAcknowledged(n) ==
    /\ pc[n] = "accepting" /\ tx[n].phase = "err"
    /\ TakeResult(n)
    /\ s' = [s EXCEPT ![n] = Acknowledge(@, Head(batch[n]).height)]
    /\ batch' = [batch EXCEPT ![n] = Tail(@)]
    /\ Goto(n, "next_block")
    /\ UNCHANGED <<chainVars, last, latest, got, cancelled, faults>>

(* accept() returned an error: run() returns it and the process exits.     *)
Refused(n) ==
    /\ pc[n] = "accepting" /\ tx[n].phase = "err"
    /\ TakeResult(n)
    /\ Leave(n, "failed")
    /\ UNCHANGED <<chainVars, faults>>

(* Mutant: the canonical-hash request at start ignores the token.          *)
StopExceptVerifying(n) ==
    /\ cancelled[n]
    /\ \/ pc[n] = "loop" /\ ~IsComplete(Config[n], s[n])
       \/ pc[n] \in {"finalized", "fetching"}
       \/ pc[n] = "next_block" /\ batch[n] # <<>>
    /\ Leave(n, "stopped")
    /\ UNCHANGED <<storeVars, chainVars, faults>>

(* The cancelled token wins every biased select and is tested before each  *)
(* accept; a commit under way is finished first.                           *)
Stop(n) ==
    /\ cancelled[n]
    /\ \/ pc[n] = "loop" /\ ~IsComplete(Config[n], s[n])
       \/ pc[n] \in {"verify", "finalized", "fetching"}
       \/ pc[n] = "next_block" /\ batch[n] # <<>>
    /\ Leave(n, "stopped")
    /\ UNCHANGED <<storeVars, chainVars, faults>>

(* A request ran out of attempts or was answered with a permanent error.   *)
RequestFails(n) ==
    /\ ~cancelled[n]
    /\ \/ pc[n] \in {"verify", "finalized", "fetching"}
       \/ pc[n] = "loop" /\ NeedsHead(Config[n], s[n], 0, 0)
    /\ Fault
    /\ Leave(n, "failed")
    /\ UNCHANGED <<storeVars, chainVars>>

(* SIGINT or SIGTERM.                                                      *)
Signal(n) ==
    /\ pc[n] \in Running /\ ~cancelled[n]
    /\ Fault
    /\ cancelled' = [cancelled EXCEPT ![n] = TRUE]
    /\ UNCHANGED <<storeVars, chainVars, pc, s, last, latest, got, batch>>

(* The process dies, or a second signal exits it.                          *)
Crash(n) ==
    /\ pc[n] \in Running
    /\ Fault
    /\ Leave(n, "down")
    /\ IF tx[n].phase = "idle" THEN UNCHANGED storeVars ELSE ClientDies(n)
    /\ UNCHANGED chainVars

(* The operator runs the same command again.                               *)
Start(n) ==
    /\ pc[n] \in {"down", "stopped", "failed"}
    /\ Goto(n, "load")
    /\ UNCHANGED <<storeVars, chainVars, s, last, latest, got, batch, cancelled, faults>>

-----------------------------------------------------------------------------
(* The steps a process takes without an answer from an endpoint ...        *)
LocalStep(n) ==
    \/ Load(n) \/ Finish(n) \/ FetchDone(n) \/ BatchDone(n) \/ BeginAccept(n)
    \/ RunTx(n) \/ EndTx(n) \/ Accepted(n) \/ Refused(n) \/ Stop(n)

(* ... and with one.                                                       *)
AnsweredStep(n) ==
    \E e \in Endpoints :
        \/ Verify(n, e) \/ AskLatest(n, e) \/ AskFinalized(n, e)
        \/ \E h \in Heights : FetchBlock(n, e, h)

(* An endpoint learns of everything that is final.                         *)
EndpointSyncs(e) == EndpointMoves(e) /\ known'[e] = Len(fin)

Next ==
    \/ Finalize
    \/ \E e \in Endpoints : EndpointMoves(e)
    \/ \E n \in Clients :
          \/ Load(n)
          \/ Finish(n)
          \/ FetchDone(n)
          \/ BatchDone(n)
          \/ BeginAccept(n)
          \/ RunTx(n)
          \/ EndTx(n)
          \/ BreakTx(n)
          \/ Accepted(n)
          \/ Refused(n)
          \/ Stop(n)
          \/ RequestFails(n)
          \/ Signal(n)
          \/ Crash(n)
          \/ Start(n)
          \/ \E e \in Endpoints :
                \/ Verify(n, e)
                \/ AskLatest(n, e)
                \/ AskFinalized(n, e)
                \/ \E h \in Heights : FetchBlock(n, e, h)

Spec == Init /\ [][Next]_vars

(* Processes are scheduled and PostgreSQL answers, but requests to the     *)
(* endpoints may hang for ever.                                            *)
HangingSpec == Spec /\ \A n \in Clients : WF_vars(LocalStep(n))

(* What RangeEventuallyIngested needs beyond that: requests are answered   *)
(* (they time out and are retried), the network keeps finalizing,          *)
(* endpoints keep up, and a process that ended is run again.  Faults get   *)
(* no fairness and are bounded.                                            *)
EndpointsAnswer ==
    /\ \A n \in Clients : WF_vars(AnsweredStep(n)) /\ WF_vars(Start(n))
    /\ WF_vars(Finalize)
    /\ \A e \in Endpoints : WF_vars(EndpointSyncs(e))

-----------------------------------------------------------------------------
(* A running scheduler never gets ahead of the database: the block below   *)
(* its cursor is durable, and what it hands to the sink next is the block  *)
(* at the cursor.  Holds across crashes, lost answers and a second node.   *)
CursorBehindJournal ==
    \A n \in Clients : pc[n] \in InLoop =>
        /\ s[n].next > Config[n].start =>
              \E r \in journal : r.height = s[n].next - 1
        /\ batch[n] # <<>> => Head(batch[n]).height = s[n].next

(* The journal holds finalized blocks only: each row is on the branch the  *)
(* network finalized.                                                      *)
JournalIsFinalized ==
    \A r \in journal : r.height < Len(fin) /\ r = BlockAt(fin, r.height)

(* A node that reports its finite range consumed has every height of the   *)
(* range in the journal.                                                   *)
DoneMeansRangeIngested ==
    \A n \in Clients : pc[n] = "done" =>
        \A h \in Config[n].start..Config[n].end : \E r \in journal : r.height = h

(* With no more faults and endpoints that answer, the configured range is  *)
(* ingested, however the endpoints reorganize above the finalized block.   *)
RangeEventuallyIngested == EndpointsAnswer => \A n \in Clients : <>(pc[n] = "done")

(* A signalled process ends, even when every endpoint hangs.               *)
SignalEndsProcess == \A n \in Clients : cancelled[n] ~> pc[n] \in Ended

-----------------------------------------------------------------------------
(* What makes CursorBehindJournal inductive, for any endpoints and nodes:  *)
(* the parts are well formed ...                                           *)
NodeTypeOK ==
    /\ fin \in Branches
    /\ view \in [Endpoints -> Branches]
    /\ known \in [Endpoints -> Nat]
    /\ pc \in [Clients -> Ended \union Running]
    /\ s \in [Clients -> [next : Height, exhausted : BOOLEAN, pending : Seq(Height)]]
    /\ last \in [Clients -> Header \union {NoHeader}]
    /\ latest \in [Clients -> Height]
    /\ got \in [Clients -> SUBSET Header]
    /\ batch \in [Clients -> Seq(Header)]

(* ... the scheduler is new outside of run(), and in run() what is pending *)
(* starts at its cursor ...                                                *)
PendingFromCursor(n) ==
    /\ pc[n] \notin InLoop => s[n] = NewScheduler(Config[n])
    /\ ~s[n].exhausted
    /\ Config[n].start <= s[n].next
    /\ \A i \in DOMAIN s[n].pending : s[n].pending[i] = s[n].next + i - 1

(* ... the batch is what is pending, and its head is what is committed ... *)
BatchIsPending(n) ==
    /\ batch[n] # <<>> => pc[n] \in {"next_block", "accepting"}
    /\ Len(batch[n]) <= Len(s[n].pending)
    /\ \A i \in DOMAIN batch[n] : batch[n][i].height = s[n].pending[i]

CommitsHead(n) ==
    /\ pc[n] = "accepting" <=> tx[n].phase # "idle"
    /\ pc[n] = "accepting" => batch[n] # <<>> /\ tx[n].header = Head(batch[n])

(* ... the row it loaded and the row below its cursor are in the table ... *)
RowsStored(n) ==
    /\ pc[n] = "verify" => last[n] \in journal
    /\ pc[n] \in InLoop /\ s[n].next > Config[n].start =>
          \E r \in journal : r.height = s[n].next - 1

(* ... and no row exceeds i64::MAX.                                        *)
CommitFits(n) == tx[n].phase \notin {"idle", "err"} => tx[n].header.height <= MaxSqlHeight

NodeOK(n) ==
    PendingFromCursor(n) /\ BatchIsPending(n) /\ CommitsHead(n) /\ RowsStored(n) /\ CommitFits(n)

RowsFit == \A r \in journal : r.height <= MaxSqlHeight

NodeInvariant ==
    /\ StoreInvariant
    /\ NodeTypeOK
    /\ RowsFit
    /\ \A n \in Clients : NodeOK(n)

(* What JournalIsFinalized needs besides: an endpoint's view agrees with   *)
(* the finalized branch as far as it knows it to be final, and the nodes   *)
(* ask for, hold and commit nothing beyond that.                           *)
IsFinalized(b) == b.height < Len(fin) /\ b = BlockAt(fin, b.height)

ViewsAgree ==
    \A e \in Endpoints :
        /\ known[e] <= Len(fin) /\ known[e] <= Len(view[e])
        /\ \A i \in 1..known[e] : view[e][i] = fin[i]

HoldsFinalized(n) ==
    /\ \A e \in Endpoints, i \in DOMAIN s[n].pending :
          s[n].pending[i] <= SatSub(known[e], 1)
    /\ \A b \in got[n] : IsFinalized(b)
    /\ \A i \in DOMAIN batch[n] : IsFinalized(batch[n][i])

FinalityInvariant ==
    /\ NodeInvariant
    /\ ViewsAgree
    /\ \A n \in Clients : HoldsFinalized(n)
    /\ JournalIsFinalized

(* What DoneMeansRangeIngested needs besides: the journal begins at the    *)
(* start height.                                                           *)
BeginsAtStart ==
    \A n \in Clients :
        /\ \A r \in journal : Config[n].start <= r.height
        /\ journal # {} => \E r \in journal : r.height = Config[n].start

RangeInvariant ==
    /\ NodeInvariant
    /\ BeginsAtStart
    /\ DoneMeansRangeIngested
=============================================================================
