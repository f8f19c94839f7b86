----------------------------- MODULE Scheduler -----------------------------
(***************************************************************************)
(* The methods of FetchScheduler that do not await                         *)
(* (crates/core/src/fetch/scheduler.rs), as operators on its state         *)
(*   s = [next, exhausted, pending]                                        *)
(* and its configuration                                                   *)
(*   c = [start, end, batch, bp, plan].                                    *)
(* FetchLoop.tla drives one scheduler through run(); Ingestion.tla drives  *)
(* one per node against a chain and a database.                            *)
(***************************************************************************)
EXTENDS RangePlan

(* FetchScheduler::new                                                     *)
NewScheduler(c) == [next |-> c.start, exhausted |-> FALSE, pending |-> <<>>]

(* FetchScheduler::resume_from                                             *)
ResumeFrom(c, s, last) ==
    [next      |-> Greatest(SatAdd(last, 1), c.start),
     exhausted |-> last = MaxU64,
     pending   |-> <<>>]

(* Mutant: complete as soon as the cursor reaches the last height.         *)
CompleteOneEarly(c, s) ==
    \/ s.exhausted
    \/ s.pending = <<>> /\ c.end # NoHeight /\ s.next >= c.end

(* FetchScheduler::is_complete                                             *)
IsComplete(c, s) ==
    \/ s.exhausted
    \/ /\ s.pending = <<>>
       /\ c.end # NoHeight
       /\ IsNone(NextBatch(c.plan, s.next, c.end, c.batch, c.end))

(* The admission budget next_heights computes for given occupancies.       *)
Budget(c, inFlight, queued) == ClampBatch(c.bp, c.batch, inFlight, queued)

(* Whether next_heights has to ask the chain for its head.                 *)
NeedsHead(c, s, inFlight, queued) ==
    /\ ~IsComplete(c, s)
    /\ Budget(c, inFlight, queued) > 0
    /\ s.pending = <<>>

(* The state next_heights leaves behind: a batch is planned only when      *)
(* nothing is pending, and stays pending until it is acknowledged.         *)
PlanFrom(c, s, head, inFlight, queued) ==
    IF NeedsHead(c, s, inFlight, queued)
    THEN [s EXCEPT !.pending = HeightsIn(c.plan,
              NextBatch(c.plan, s.next, head, Budget(c, inFlight, queued), c.end))]
    ELSE s

(* What next_heights returns, given the state PlanFrom left.               *)
NextHeights(c, s, inFlight, queued) ==
    IF IsComplete(c, s) THEN <<>>
    ELSE SubSeq(s.pending, 1, Least(Len(s.pending), Budget(c, inFlight, queued)))

(* FetchScheduler::acknowledge, whose precondition is the early return.    *)
CanAcknowledge(s, h) == s.pending # <<>> /\ Head(s.pending) = h

(* Mutant: exhausted is decided on the advanced cursor.                    *)
AcknowledgeExhaustsEarly(s, h) ==
    [next      |-> SatAdd(h, 1),
     exhausted |-> SatAdd(h, 1) = MaxU64,
     pending   |-> Tail(s.pending)]

Acknowledge(s, h) ==
    [next      |-> SatAdd(h, 1),
     exhausted |-> h = MaxU64,
     pending   |-> Tail(s.pending)]
=============================================================================
