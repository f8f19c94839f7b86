----------------------------- MODULE RangePlan -----------------------------
(***************************************************************************)
(* The planning arithmetic of the fetch loop: which heights the next batch *)
(* holds (crates/core/src/fetch/range.rs) and how many blocks may be asked *)
(* for (crates/core/src/fetch/backpressure.rs).  Everything here is a pure *)
(* operator; Scheduler.tla and the modules above it use them.              *)
(*                                                                         *)
(* Heights are u64 in the code.  MaxU64 stands for u64::MAX, so the        *)
(* saturating and checked additions can be exercised with small numbers.   *)
(***************************************************************************)
EXTENDS Integers, Sequences, FiniteSetsExt

CONSTANT MaxU64      \* the largest height, u64::MAX in the code

ASSUME MaxU64Assumption == MaxU64 \in Nat

Height == 0..MaxU64

(* Option<u64>::None.                                                      *)
NoHeight == -1

SatAdd(a, b) == IF a + b > MaxU64 THEN MaxU64 ELSE a + b
CheckedSucc(h) == IF h = MaxU64 THEN NoHeight ELSE h + 1
SatSub(a, b) == IF a < b THEN 0 ELSE a - b
Least(a, b) == IF a < b THEN a ELSE b
Greatest(a, b) == IF a < b THEN b ELSE a

-----------------------------------------------------------------------------
(* BlockRange: an inclusive span.  BlockRange::new yields None when        *)
(* end < start, so every span with end < start stands for None.            *)
BlockRange(start, end) == [start |-> start, end |-> end]
NoRange == BlockRange(1, 0)
IsNone(r) == r.end < r.start
Contains(r, h) == r.start <= h /\ h <= r.end

(* A plan is the list of bypassed spans, in the order they were added.     *)
Plans == Seq({r \in [start : Height, end : Height] : r.start <= r.end})

Bypass(plan, start, end) ==
    IF start <= end THEN Append(plan, BlockRange(start, end)) ELSE plan

IsBypassed(plan, h) == \E i \in DOMAIN plan : Contains(plan[i], h)

(* The first span of the list that holds h.                                *)
Covering(plan, h) == plan[Min({i \in DOMAIN plan : Contains(plan[i], h)})]

(* One turn of the loop that hops over the span covering the cursor; a hop *)
(* past u64::MAX ends the search with None.                                *)
Hop(plan, h) ==
    IF h = NoHeight \/ ~IsBypassed(plan, h) THEN h
    ELSE CheckedSucc(Covering(plan, h).end)

(* Where the cursor stands after i turns.                                  *)
Hops(plan, h) ==
    LET hop == [p \in Height \union {NoHeight} |-> Hop(plan, p)]
        pos[i \in 0..Len(plan)] == IF i = 0 THEN h ELSE hop[pos[i-1]]
    IN  pos

(* Mutant: the cursor does not hop over the span it stands on.             *)
AdvanceNowhere(plan, h, ceiling) == IF h <= ceiling THEN h ELSE NoHeight

AdvancePastBypass(plan, h, ceiling) ==
    LET last == Hops(plan, h)[Len(plan)]
    IN  IF last # NoHeight /\ ~IsBypassed(plan, last) /\ last <= ceiling
        THEN last ELSE NoHeight

(* RangePlan::next_batch.                                                  *)
NextBatch(plan, next, safeHead, batchSize, end) ==
    LET ceiling == IF end = NoHeight THEN safeHead ELSE Least(safeHead, end)
        start   == AdvancePastBypass(plan, next, ceiling)
        spanEnd == Least(SatAdd(start, batchSize - 1), ceiling)
        cuts    == {plan[i].start - 1 : i \in {j \in DOMAIN plan :
                        plan[j].start > start /\ plan[j].start <= spanEnd}}
    IN  IF batchSize = 0 \/ next > ceiling \/ start = NoHeight
        THEN NoRange
        ELSE BlockRange(start, IF cuts = {} THEN spanEnd ELSE Min(cuts))

(* What heights_in has collected after the first i heights of a span.      *)
Kept(plan, r) ==
    LET kept[i \in 0..Greatest(0, r.end - r.start + 1)] ==
            IF i = 0 THEN <<>>
            ELSE IF IsBypassed(plan, r.start + i - 1) THEN kept[i-1]
            ELSE Append(kept[i-1], r.start + i - 1)
    IN  kept

(* RangePlan::heights_in, in ascending order.                              *)
HeightsIn(plan, r) == Kept(plan, r)[Greatest(0, r.end - r.start + 1)]

(* range::safe_head; the confirmation depth is ignored there.              *)
SafeHead(latest, finalized, unfinalized) ==
    IF unfinalized THEN latest ELSE Least(finalized, latest)

-----------------------------------------------------------------------------
(* Backpressure: new() raises both limits to at least one.                 *)
Backpressure(maxInFlight, queueCapacity) ==
    [maxInFlight   |-> Greatest(maxInFlight, 1),
     queueCapacity |-> Greatest(queueCapacity, 1)]

(* Mutant: only the queued blocks are charged to the queue budget.         *)
AvailableByQueueOnly(bp, inFlight, queued) ==
    Least(SatSub(bp.maxInFlight, inFlight), SatSub(bp.queueCapacity, queued))

Available(bp, inFlight, queued) ==
    Least(SatSub(bp.maxInFlight, inFlight),
          SatSub(bp.queueCapacity, queued + inFlight))

(* Mutant: the batch size is used as configured.                           *)
ClampNothing(bp, desired, inFlight, queued) == desired

ClampBatch(bp, desired, inFlight, queued) ==
    Least(desired, Available(bp, inFlight, queued))
=============================================================================
