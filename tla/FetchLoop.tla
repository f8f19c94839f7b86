----------------------------- MODULE FetchLoop -----------------------------
(***************************************************************************)
(* FetchScheduler::run (crates/core/src/fetch/scheduler.rs) with one       *)
(* adapter and one sink, for any plan: bypassed spans, a bounded or an     *)
(* open range, and heights up to u64::MAX.                                 *)
(*                                                                         *)
(* The adapter is a safe head that only grows, and fetches that succeed or *)
(* fail.  The sink is a durable list of heights; like the ingestion        *)
(* journal it accepts its last height again without storing it twice, and  *)
(* an accept may store the block and still report an error (a commit whose *)
(* answer was lost).  After run() has returned, the same scheduler may be  *)
(* run again, or a new process builds one and resumes from the last        *)
(* durable height.                                                         *)
(***************************************************************************)
EXTENDS Scheduler

CONSTANTS Configs,    \* the configurations explored, one per behaviour
          MaxFaults   \* bound on failures and cancellations in a behaviour

ASSUME MaxFaultsAssumption == MaxFaults \in Nat

(* Heights are u64, the batch size is positive (run() refuses zero),       *)
(* Backpressure::new raises its limits to one, and a plan is what bypass() *)
(* builds.                                                                 *)
ASSUME ConfigsAssumption ==
    Configs \subseteq [start : Height, end : Height \union {NoHeight}, batch : Nat \ {0},
                       bp    : [maxInFlight : Nat \ {0}, queueCapacity : Nat \ {0}],
                       plan  : Plans]

VARIABLES
    cfg,        \* SchedulerConfig and RangePlan, fixed for a behaviour
    s,          \* the scheduler's own state
    pc,         \* where run() stands
    blocks,     \* the fetched heights not yet handed to the sink
    cancelled,  \* the cancellation token
    head,       \* the chain's safe head
    durable,    \* what the sink has stored, in order
    faults      \* failures and cancellations so far

vars == <<cfg, s, pc, blocks, cancelled, head, durable, faults>>

Running == {"loop", "fetching", "sleeping", "next_block", "accepting"}
Ended   == {"done", "stopped", "failed"}

Init ==
    /\ cfg \in Configs
    /\ s = NewScheduler(cfg)
    /\ pc = "loop"
    /\ blocks = <<>>
    /\ cancelled = FALSE
    /\ head \in Height
    /\ durable = <<>>
    /\ faults = 0

-----------------------------------------------------------------------------
(* while !self.is_complete()                                               *)
Finish ==
    /\ pc = "loop" /\ IsComplete(cfg, s)
    /\ pc' = "done"
    /\ UNCHANGED <<cfg, s, blocks, cancelled, head, durable, faults>>

(* fetch_next calls next_heights(0, 0): the batch becomes pending before   *)
(* the first block is requested.                                           *)
Plan ==
    /\ pc = "loop" /\ ~IsComplete(cfg, s) /\ ~cancelled
    /\ s' = PlanFrom(cfg, s, head, 0, 0)
    /\ pc' = IF NextHeights(cfg, s', 0, 0) = <<>> THEN "sleeping" ELSE "fetching"
    /\ UNCHANGED <<cfg, blocks, cancelled, head, durable, faults>>

(* Every block of the batch arrived; `buffered` keeps them in order.       *)
Fetched ==
    /\ pc = "fetching" /\ ~cancelled
    /\ blocks' = NextHeights(cfg, s, 0, 0)
    /\ pc' = "next_block"
    /\ UNCHANGED <<cfg, s, cancelled, head, durable, faults>>

(* The head request, a fetch or the parent check failed: run() returns.    *)
FetchFails ==
    /\ pc \in {"loop", "fetching"} /\ ~cancelled /\ faults < MaxFaults
    /\ pc = "loop" => NeedsHead(cfg, s, 0, 0)
    /\ pc' = "failed"
    /\ faults' = faults + 1
    /\ UNCHANGED <<cfg, s, blocks, cancelled, head, durable>>

(* Nothing to fetch: sleep for one block interval.                         *)
Wake ==
    /\ pc = "sleeping" /\ ~cancelled
    /\ pc' = "loop"
    /\ UNCHANGED <<cfg, s, blocks, cancelled, head, durable, faults>>

(* Mutant: `continue` for `return Ok(())` where the token is seen.          *)
StopContinues ==
    /\ cancelled
    /\ \/ pc = "loop" /\ ~IsComplete(cfg, s)
       \/ pc \in {"fetching", "sleeping"}
       \/ pc = "next_block" /\ blocks # <<>>
    /\ pc' = "loop"
    /\ UNCHANGED <<cfg, s, blocks, cancelled, head, durable, faults>>

(* Both selects are biased towards the token, and the token is tested      *)
(* before every accept.                                                    *)
Stop ==
    /\ cancelled
    /\ \/ pc = "loop" /\ ~IsComplete(cfg, s)
       \/ pc \in {"fetching", "sleeping"}
       \/ pc = "next_block" /\ blocks # <<>>
    /\ pc' = "stopped"
    /\ UNCHANGED <<cfg, s, blocks, cancelled, head, durable, faults>>

BatchDone ==
    /\ pc = "next_block" /\ blocks = <<>>
    /\ pc' = "loop"
    /\ UNCHANGED <<cfg, s, blocks, cancelled, head, durable, faults>>

BeginAccept ==
    /\ pc = "next_block" /\ blocks # <<>> /\ ~cancelled
    /\ pc' = "accepting"
    /\ UNCHANGED <<cfg, s, blocks, cancelled, head, durable, faults>>

(* The sink: its last block again is accepted without a second copy.       *)
Store(d, h) == IF d # <<>> /\ d[Len(d)] = h THEN d ELSE Append(d, h)

(* The accept is not interrupted by a cancellation; the acknowledgement    *)
(* follows it at once.                                                     *)
AcceptOk ==
    /\ pc = "accepting"
    /\ durable' = Store(durable, Head(blocks))
    /\ blocks' = Tail(blocks)
    /\ IF CanAcknowledge(s, Head(blocks))
       THEN s' = Acknowledge(s, Head(blocks)) /\ pc' = "next_block"
       ELSE s' = s /\ pc' = "failed"
    /\ UNCHANGED <<cfg, cancelled, head, faults>>

(* Mutant: the block is acknowledged although accept failed.               *)
AcceptFailsAcknowledged ==
    /\ pc = "accepting" /\ faults < MaxFaults
    /\ durable' \in {durable, Store(durable, Head(blocks))}
    /\ s' = Acknowledge(s, Head(blocks))
    /\ pc' = "failed"
    /\ faults' = faults + 1
    /\ UNCHANGED <<cfg, blocks, cancelled, head>>

(* sink.accept returned an error, with or without having stored the block. *)
AcceptFails ==
    /\ pc = "accepting" /\ faults < MaxFaults
    /\ durable' \in {durable, Store(durable, Head(blocks))}
    /\ pc' = "failed"
    /\ faults' = faults + 1
    /\ UNCHANGED <<cfg, s, blocks, cancelled, head>>

-----------------------------------------------------------------------------
(* The environment.                                                        *)
Cancel ==
    /\ pc \in Running /\ ~cancelled /\ faults < MaxFaults
    /\ cancelled' = TRUE
    /\ faults' = faults + 1
    /\ UNCHANGED <<cfg, s, pc, blocks, head, durable>>

HeadAdvances ==
    /\ head < MaxU64
    /\ head' = head + 1
    /\ UNCHANGED <<cfg, s, pc, blocks, cancelled, durable, faults>>

(* run() again on the same scheduler: its pending heights survive, the     *)
(* blocks fetched for them do not.                                         *)
Rerun ==
    /\ pc \in {"stopped", "failed"}
    /\ pc' = "loop" /\ blocks' = <<>> /\ cancelled' = FALSE
    /\ UNCHANGED <<cfg, s, head, durable, faults>>

(* A crash at any point, or a restart after run() returned: the scheduler  *)
(* is rebuilt from the last durable height.                                *)
Restart ==
    /\ \/ pc \in {"stopped", "failed"} /\ UNCHANGED faults
       \/ pc \in Running /\ faults < MaxFaults /\ faults' = faults + 1
    /\ s' = IF durable = <<>> THEN NewScheduler(cfg)
            ELSE ResumeFrom(cfg, NewScheduler(cfg), durable[Len(durable)])
    /\ pc' = "loop" /\ blocks' = <<>> /\ cancelled' = FALSE
    /\ UNCHANGED <<cfg, head, durable>>

Terminated == pc = "done" /\ UNCHANGED vars

Loop == \/ Finish \/ Plan \/ Fetched \/ Wake \/ Stop \/ BatchDone
        \/ BeginAccept \/ AcceptOk

Next == \/ Finish \/ Plan \/ Fetched \/ FetchFails \/ Wake \/ Stop
        \/ BatchDone \/ BeginAccept \/ AcceptOk \/ AcceptFails
        \/ Cancel \/ HeadAdvances \/ Rerun \/ Restart \/ Terminated

Spec == Init /\ [][Next]_vars

(* Tokio keeps polling the loop, the chain keeps finalizing, and an        *)
(* operator re-runs a node that stopped (docs/ingestion.md).  Failures and *)
(* cancellations get no fairness.                                          *)
FairSpec ==
    /\ Spec
    /\ WF_vars(Loop)
    /\ WF_vars(HeadAdvances)
    /\ WF_vars(Rerun \/ Restart)

-----------------------------------------------------------------------------
(* The heights the configuration asks for, ascending.                      *)
Wanted ==
    HeightsIn(cfg.plan, BlockRange(cfg.start, IF cfg.end = NoHeight THEN MaxU64 ELSE cfg.end))

(* What is durable is always a prefix of the wanted heights: whatever      *)
(* fails, is cancelled, is answered late or restarts, run() neither skips  *)
(* a wanted height nor stores one twice, out of order, or bypassed.        *)
DurableIsPrefixOfPlan ==
    /\ Len(durable) <= Len(Wanted)
    /\ durable = SubSeq(Wanted, 1, Len(durable))

(* run() reports completion of a finite range, or of u64::MAX, only when   *)
(* every wanted height is durable.                                         *)
DoneMeansEverythingDurable ==
    pc = "done" => durable = Wanted

(* Work is never acknowledged before it is durable: the heights below the  *)
(* cursor that are wanted have all been stored, and pending work resumes   *)
(* right behind them.                                                      *)
CursorCoversOnlyDurable ==
    LET stored == {durable[i] : i \in DOMAIN durable}
    IN  /\ \A i \in DOMAIN Wanted :
              (Wanted[i] < s.next \/ s.exhausted) => Wanted[i] \in stored
        /\ s.pending # <<>> => \A i \in DOMAIN Wanted :
              Wanted[i] < Head(s.pending) => Wanted[i] \in stored

(* A batch holds no more blocks than the admission budget allows, and none *)
(* above the safe head as it was planned.                                  *)
BatchWithinBudget ==
    /\ Len(blocks) <= Least(cfg.batch, Least(cfg.bp.maxInFlight, cfg.bp.queueCapacity))
    /\ \A i \in DOMAIN s.pending : s.pending[i] <= head

(* Once failures and cancellations cease, a finite range is finished, and  *)
(* a cursor sitting on a bypassed span never stalls the loop.              *)
FiniteRangeCompletes == cfg.end # NoHeight => <>(pc = "done")

(* A cancelled run returns: it never waits for the chain.                  *)
CancelStopsRun == cancelled ~> (~cancelled \/ pc \in Ended)

-----------------------------------------------------------------------------
(* What makes the four invariants above inductive: the parts are well      *)
(* formed ...                                                              *)
FetchTypeOK ==
    /\ cfg \in Configs
    /\ s \in [next : Height, exhausted : BOOLEAN, pending : Seq(Height)]
    /\ pc \in Running \union Ended
    /\ blocks \in Seq(Height)
    /\ head \in Height
    /\ durable \in Seq(Height)

(* ... what is stored is the beginning of what is wanted ...               *)
StoredInOrder ==
    /\ Len(durable) <= Len(Wanted)
    /\ \A i \in DOMAIN durable : durable[i] = Wanted[i]

(* ... the cursor stands behind the first k wanted heights, what is        *)
(* pending follows them, and the sink has stored those k, or one more when *)
(* an accept that reported an error had stored its block ...               *)
StandsBehind(k) ==
    /\ cfg.start <= s.next
    /\ \A i \in DOMAIN Wanted :
          IF i <= k THEN Wanted[i] < s.next \/ s.exhausted
                    ELSE s.next <= Wanted[i] /\ ~s.exhausted
    /\ k + Len(s.pending) <= Len(Wanted)
    /\ \A i \in DOMAIN s.pending : s.pending[i] = Wanted[k + i]
    /\ Len(durable) = k \/ (Len(durable) = k + 1 /\ s.pending # <<>>)
    /\ pc = "done" => k = Len(Wanted)

(* ... and what is handed to the sink is what is pending.                  *)
BlocksArePending ==
    /\ pc = "accepting" => blocks # <<>>
    /\ pc \in {"next_block", "accepting"} =>
          /\ Len(blocks) <= Len(s.pending)
          /\ \A i \in DOMAIN blocks : blocks[i] = s.pending[i]

FetchInvariant ==
    /\ FetchTypeOK
    /\ StoredInOrder
    /\ \E k \in 0..Len(Wanted) : StandsBehind(k)
    /\ BlocksArePending
    /\ BatchWithinBudget
=============================================================================
