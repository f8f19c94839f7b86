-------------------------- MODULE FetchLoopProofs --------------------------
(***************************************************************************)
(* FetchScheduler::run, for every configuration: any start and end, batch  *)
(* size, limits and bypassed spans, whatever fails, is cancelled or        *)
(* restarts.  What is wanted is an ascending list of heights; the cursor   *)
(* stands behind the first k of them, what is pending follows, and the     *)
(* sink has stored those k, or one more when an accept that reported an    *)
(* error had stored its block.                                             *)
(***************************************************************************)
EXTENDS FetchLoop, RangePlanProofs

(* What a configuration hands over.                                        *)
LEMMA ConfigIsValid ==
    ASSUME FetchTypeOK
    PROVE  /\ cfg.start \in Height /\ cfg.end \in Height \union {NoHeight}
           /\ cfg.batch \in Nat /\ cfg.batch > 0
           /\ cfg.bp.maxInFlight \in Nat /\ cfg.bp.queueCapacity \in Nat
           /\ cfg.plan \in Plans
BY ConfigsAssumption DEF FetchTypeOK

-----------------------------------------------------------------------------
(* What is wanted: the heights of the range that are not bypassed, in      *)
(* ascending order.                                                        *)
LEMMA WantedIsExact ==
    ASSUME FetchTypeOK
    PROVE  /\ Wanted \in Seq(Height) /\ Len(Wanted) \in Nat /\ DOMAIN Wanted = 1..Len(Wanted)
           /\ \A i \in DOMAIN Wanted : /\ cfg.start <= Wanted[i]
                                       /\ cfg.end = NoHeight \/ Wanted[i] <= cfg.end
                                       /\ ~IsBypassed(cfg.plan, Wanted[i])
           /\ \A i, j \in DOMAIN Wanted : i < j => Wanted[i] < Wanted[j]
           /\ \A h \in Height : (/\ cfg.start <= h
                                 /\ cfg.end = NoHeight \/ h <= cfg.end
                                 /\ ~IsBypassed(cfg.plan, h))
                                    => \E i \in DOMAIN Wanted : Wanted[i] = h
<1>. DEFINE last == IF cfg.end = NoHeight THEN MaxU64 ELSE cfg.end
            r == BlockRange(cfg.start, last)
            hs == HeightsIn(cfg.plan, r)
<1>1. /\ cfg.start \in Nat /\ last \in Nat /\ last <= MaxU64
      /\ last = MaxU64 \/ last = cfg.end
      /\ cfg.end # NoHeight => last = cfg.end
      /\ cfg.end = NoHeight => last = MaxU64
  BY ConfigIsValid, MaxU64Assumption DEF Height
<1>. HIDE DEF last
<1>2. r.start = cfg.start /\ r.end = last
  BY DEF BlockRange
<1>. HIDE DEF r
<1>3. /\ hs \in Seq(Nat)
      /\ \A i \in DOMAIN hs : Contains(r, hs[i]) /\ ~IsBypassed(cfg.plan, hs[i])
      /\ \A i, j \in DOMAIN hs : i < j => hs[i] < hs[j]
      /\ \A h \in cfg.start..last :
            ~IsBypassed(cfg.plan, h) => \E i \in DOMAIN hs : hs[i] = h
  <2>1. r.start \in Nat /\ r.end \in Nat
    BY <1>1, <1>2
  <2>. QED BY <1>2, <2>1, HeightsInExact
<1>4. Wanted = hs
  BY DEF Wanted, r, last
<1>. HIDE DEF hs
<1>5. Len(hs) \in Nat /\ DOMAIN hs = 1..Len(hs)
  BY <1>3, LenProperties
<1>6. \A i \in DOMAIN hs : hs[i] \in Nat /\ cfg.start <= hs[i] /\ hs[i] <= last
  <2>1. \A i \in DOMAIN hs : hs[i] \in Nat
    BY <1>3
  <2>. QED BY <1>2, <1>3, <2>1 DEF Contains
<1>7. \A i \in 1..Len(hs) : hs[i] \in Height
  BY <1>1, <1>5, <1>6, MaxU64Assumption DEF Height
<1>8. hs \in Seq(Height)
  <2>1. hs = [i \in 1..Len(hs) |-> hs[i]]
    BY <1>3, <1>5
  <2>. QED BY <1>5, <1>7, <2>1
<1>9. \A h \in Height : (cfg.start <= h /\ (cfg.end = NoHeight \/ h <= cfg.end))
                            => h \in cfg.start..last
  BY <1>1, MaxU64Assumption DEF Height
<1>. QED BY <1>1, <1>3, <1>4, <1>5, <1>6, <1>8, <1>9

(* An ascending list, one that a value splits, one that has a whole set.   *)
Ascending(W) == \A i, j \in DOMAIN W : i < j => W[i] < W[j]
SplitAt(W, k, a) == \A i \in DOMAIN W : IF i <= k THEN W[i] < a ELSE a <= W[i]
HasAll(W, S) == \A h \in S : \E j \in DOMAIN W : W[j] = h

(* Heights in a row of an ascending list that has all of them stand in a   *)
(* row in it.                                                              *)
LEMMA RunInList ==
    ASSUME NEW W \in Seq(Nat), Ascending(W), NEW k \in 0..Len(W), NEW a \in Nat, NEW n \in Nat,
           SplitAt(W, k, a), HasAll(W, a..(a + n - 1))
    PROVE  k + n <= Len(W) /\ \A i \in 1..n : W[k + i] = a + i - 1
<1>. DEFINE l == Len(W)
            At(i) == k + i <= l /\ W[k + i] = a + i - 1
            Bad == {i \in 1..n : ~At(i)}
<1>1. l \in Nat /\ DOMAIN W = 1..l /\ k \in Nat /\ k <= l
  BY LenProperties
<1>. HIDE DEF l
<1>2. \A i \in 1..l : W[i] \in Nat
  BY <1>1
<1>3. \A i \in 1..n : \E j \in 1..l : W[j] = a + i - 1
  <2>1. \A i \in 1..n : a + i - 1 \in a..(a + n - 1)
    OBVIOUS
  <2>. QED BY <1>1, <2>1 DEF HasAll
(* The next one is right where its predecessor is.                         *)
<1>4. ASSUME NEW i \in 1..n, i = 1 \/ At(i - 1)
      PROVE  At(i)
  <2>. DEFINE q == k + (i - 1)
              h == a + i - 1
  <2>1. PICK j \in 1..l : W[j] = h
    BY <1>3
  <2>2. q \in 0..l /\ h \in Nat /\ k + i = q + 1 /\ q >= k
    BY <1>1, <1>4
  <2>3. q = k \/ (q \in 1..l /\ W[q] = h - 1)
    BY <1>1, <1>4
  <2>. HIDE DEF At, q, h
  <2>4. j > q
    <3>1. CASE q = k
      <4>1. ~(j <= k)
        <5>1. j <= k => W[j] < a
          BY <1>1 DEF SplitAt
        <5>2. h >= a
          BY DEF h
        <5>. QED BY <1>2, <2>1, <5>1, <5>2
      <4>. QED BY <1>1, <2>2, <3>1, <4>1
    <3>2. CASE q \in 1..l /\ W[q] = h - 1
      <4>1. j < q => W[j] < W[q]
        BY <1>1, <3>2 DEF Ascending
      <4>2. j # q
        BY <2>1, <2>2, <3>2
      <4>3. ~(j < q)
        BY <2>1, <2>2, <3>2, <4>1
      <4>. QED BY <1>1, <2>2, <4>2, <4>3
    <3>. QED BY <2>3, <3>1, <3>2
  <2>5. q + 1 \in 1..l /\ W[q + 1] \in Nat
    BY <1>1, <1>2, <2>2, <2>4
  <2>6. W[q + 1] <= h
    <3>1. CASE j = q + 1
      BY <2>1, <2>2, <3>1
    <3>2. CASE j # q + 1
      <4>1. q + 1 < j
        BY <1>1, <2>2, <2>4, <3>2
      <4>2. W[q + 1] < W[j]
        BY <1>1, <2>5, <4>1 DEF Ascending
      <4>. QED BY <2>1, <2>2, <2>5, <4>2
    <3>. QED BY <3>1, <3>2
  <2>7. W[q + 1] >= h
    <3>1. CASE q = k
      <4>1. a <= W[q + 1]
        BY <1>1, <2>2, <2>5, <3>1 DEF SplitAt
      <4>2. i = 1
        BY <1>1, <3>1 DEF q
      <4>. QED BY <4>1, <4>2 DEF h
    <3>2. CASE q \in 1..l /\ W[q] = h - 1
      <4>1. W[q] < W[q + 1]
        <5>1. q \in DOMAIN W /\ q + 1 \in DOMAIN W /\ q < q + 1
          BY <1>1, <2>5, <3>2
        <5>. QED BY <5>1 DEF Ascending
      <4>. QED BY <2>2, <2>5, <3>2, <4>1
    <3>. QED BY <2>3, <3>1, <3>2
  <2>8. W[q + 1] = h
    BY <2>2, <2>5, <2>6, <2>7
  <2>. QED BY <2>2, <2>5, <2>8 DEF At, h
<1>. HIDE DEF At
<1>5. Bad = {}
  <2>. SUFFICES ASSUME Bad # {} PROVE FALSE
    OBVIOUS
  <2>1. PICK i \in Bad : \A m \in Bad : i <= m
    <3>1. Bad \in SUBSET Nat
      OBVIOUS
    <3>. QED BY <3>1, LeastNatural
  <2>2. i # 1 => i - 1 \in 1..n /\ i - 1 \notin Bad
    BY <2>1
  <2>. QED BY <1>4, <2>1, <2>2
<1>6. \A i \in 1..n : k + i <= l /\ W[k + i] = a + i - 1
  BY <1>5 DEF At
<1>7. k + n <= l
  <2>1. CASE n = 0
    BY <1>1, <2>1
  <2>2. CASE n # 0
    <3>1. n \in 1..n
      BY <2>2
    <3>. QED BY <1>6, <3>1
  <2>. QED BY <2>1, <2>2
<1>. QED BY <1>6, <1>7 DEF l
(* The admission budget of the loop, which holds nothing in flight.        *)
LEMMA BudgetIsLeast ==
    ASSUME FetchTypeOK
    PROVE  /\ Budget(cfg, 0, 0) \in Nat
           /\ Budget(cfg, 0, 0) = Least(cfg.batch, Least(cfg.bp.maxInFlight, cfg.bp.queueCapacity))
BY ConfigIsValid DEF Budget, ClampBatch, Available, SatSub, Least

(* What next_heights returns is the beginning of what is pending, and no   *)
(* more than the budget.                                                   *)
LEMMA RequestsArePending ==
    ASSUME FetchTypeOK
    PROVE  LET hs == NextHeights(cfg, s, 0, 0)
           IN  /\ hs \in Seq(Height) /\ Len(hs) \in Nat /\ Len(hs) <= Len(s.pending)
               /\ Len(hs) <= Budget(cfg, 0, 0)
               /\ \A i \in DOMAIN hs : hs[i] = s.pending[i]
<1>. DEFINE p  == s.pending
            k  == Least(Len(p), Budget(cfg, 0, 0))
            hs == NextHeights(cfg, s, 0, 0)
<1>1. p \in Seq(Height) /\ Len(p) \in Nat /\ Budget(cfg, 0, 0) \in Nat
  BY BudgetIsLeast DEF FetchTypeOK
<1>2. k \in 0..Len(p) /\ k <= Budget(cfg, 0, 0)
  BY <1>1 DEF Least
<1>. HIDE DEF k, p
<1>3. hs = <<>> \/ hs = SubSeq(p, 1, k)
  BY DEF NextHeights, k, p
<1>. HIDE DEF hs
<1>4. CASE hs = <<>>
  <2>1. Len(hs) = 0 /\ hs \in Seq(Height) /\ DOMAIN hs = {}
    BY <1>4, EmptySeq
  <2>. QED BY <1>1, <2>1 DEF hs, p
<1>5. CASE hs = SubSeq(p, 1, k)
  <2>1. \A i \in 1..k : p[i] \in Height
    BY <1>1, <1>2
  <2>2. /\ hs \in Seq(Height)
        /\ Len(hs) = IF 1 <= k THEN k ELSE 0
        /\ \A i \in 1..k : hs[i] = p[i]
    BY <1>2, <1>5, <2>1, SubSeqProperties
  <2>3. Len(hs) = k /\ DOMAIN hs = 1..k
    BY <1>2, <2>2
  <2>. QED BY <1>1, <1>2, <2>2, <2>3 DEF hs, p
<1>. QED BY <1>3, <1>4, <1>5

-----------------------------------------------------------------------------
(* The invariant of the loop.  Most steps leave the scheduler and the sink *)
(* alone.                                                                  *)
LEMMA QuietKeepsInvariant ==
    ASSUME FetchInvariant,
           \/ Wake \/ Stop \/ FetchFails \/ BatchDone \/ BeginAccept
           \/ Cancel \/ HeadAdvances \/ Rerun \/ Terminated
    PROVE  FetchInvariant'
<1>1. /\ UNCHANGED <<cfg, s, durable>>
      /\ head' = head \/ (head < MaxU64 /\ head' = head + 1)
      /\ blocks' = blocks \/ blocks' = <<>>
      /\ pc' \in Running \union Ended
      /\ pc' = "done" => pc = "done"
      /\ pc' \in {"next_block", "accepting"} =>
            pc \in {"next_block", "accepting"} /\ blocks' = blocks
      /\ pc' = "accepting" => pc = "accepting" \/ blocks # <<>>
  BY DEF FetchInvariant, FetchTypeOK, Wake, Stop, FetchFails, BatchDone, BeginAccept, Cancel,
         HeadAdvances, Rerun, Terminated, Running, Ended, vars
<1>2. head \in Nat /\ head' \in Height /\ head <= head'
  BY <1>1, MaxU64Assumption DEF FetchInvariant, FetchTypeOK, Height
<1>3. <<>> \in Seq(Height) /\ Len(<<>>) = 0
  BY EmptySeq
<1>4. FetchTypeOK'
  BY <1>1, <1>2, <1>3 DEF FetchInvariant, FetchTypeOK
<1>5. Wanted' = Wanted
  BY <1>1 DEF Wanted
<1>6. StoredInOrder' /\ \E k \in 0..Len(Wanted') : StandsBehind(k)'
  BY <1>1, <1>5 DEF FetchInvariant, StoredInOrder, StandsBehind
<1>7. BlocksArePending'
  BY <1>1 DEF FetchInvariant, BlocksArePending
<1>8. BatchWithinBudget'
  <2>1. Len(blocks') <= Least(cfg.batch, Least(cfg.bp.maxInFlight, cfg.bp.queueCapacity))
    <3>1. 0 <= Least(cfg.batch, Least(cfg.bp.maxInFlight, cfg.bp.queueCapacity))
      BY BudgetIsLeast DEF FetchInvariant
    <3>. QED BY <1>1, <1>3, <3>1 DEF FetchInvariant, BatchWithinBudget
  <2>2. \A i \in DOMAIN s.pending : s.pending[i] <= head'
    <3>. DEFINE p == s.pending
    <3>1. p \in Seq(Height) /\ \A i \in DOMAIN p : p[i] <= head
      BY DEF FetchInvariant, FetchTypeOK, BatchWithinBudget
    <3>. HIDE DEF p
    <3>2. \A i \in DOMAIN p : p[i] \in Height
      BY <3>1
    <3>3. \A i \in DOMAIN p : p[i] <= head'
      BY <1>2, <3>1, <3>2, MaxU64Assumption DEF Height
    <3>. QED BY <3>3 DEF p
  <2>. QED BY <1>1, <2>1, <2>2 DEF BatchWithinBudget
<1>. QED BY <1>4, <1>5, <1>6, <1>7, <1>8 DEF FetchInvariant

(* The blocks that arrive are the beginning of what is pending.            *)
LEMMA FetchedKeepsInvariant ==
    ASSUME FetchInvariant, Fetched
    PROVE  FetchInvariant'
<1>1. /\ UNCHANGED <<cfg, s, head, durable>>
      /\ blocks' = NextHeights(cfg, s, 0, 0) /\ pc' = "next_block" /\ pc = "fetching"
  BY DEF Fetched
<1>2. /\ blocks' \in Seq(Height) /\ Len(blocks') <= Len(s.pending)
      /\ Len(blocks') <= Least(cfg.batch, Least(cfg.bp.maxInFlight, cfg.bp.queueCapacity))
      /\ \A i \in DOMAIN blocks' : blocks'[i] = s.pending[i]
  BY <1>1, RequestsArePending, BudgetIsLeast DEF FetchInvariant
<1>3. FetchTypeOK'
  BY <1>1, <1>2 DEF FetchInvariant, FetchTypeOK, Running
<1>4. Wanted' = Wanted
  BY <1>1 DEF Wanted
<1>5. StoredInOrder' /\ \E k \in 0..Len(Wanted') : StandsBehind(k)'
  BY <1>1, <1>4 DEF FetchInvariant, StoredInOrder, StandsBehind
<1>6. BlocksArePending' /\ BatchWithinBudget'
  BY <1>1, <1>2 DEF FetchInvariant, BlocksArePending, BatchWithinBudget
<1>. QED BY <1>3, <1>5, <1>6 DEF FetchInvariant

(* Between a cursor and a limit that the plan does not stop at, the        *)
(* wanted heights are those that are not bypassed: if all are, the cursor  *)
(* stands behind the last of them.                                         *)
LEMMA FinishKeepsInvariant ==
    ASSUME FetchInvariant, Finish
    PROVE  FetchInvariant'
<1>0. FetchTypeOK
  BY DEF FetchInvariant
<1>1. /\ UNCHANGED <<cfg, s, blocks, head, durable>>
      /\ pc = "loop" /\ pc' = "done" /\ IsComplete(cfg, s)
  BY DEF Finish
<1>2. PICK k \in 0..Len(Wanted) : StandsBehind(k)
  BY DEF FetchInvariant
<1>. DEFINE W == Wanted
<1>3. W \in Seq(Height) /\ Len(W) \in Nat /\ DOMAIN W = 1..Len(W) /\ \A i \in DOMAIN W : W[i] \in Height
  BY <1>0, WantedIsExact
<1>4. k = Len(W)
  <2>. SUFFICES ASSUME k # Len(W) PROVE FALSE
    OBVIOUS
  <2>1. k + 1 \in DOMAIN W /\ ~(k + 1 <= k)
    <3>. DEFINE l == Len(W)
    <3>1. l \in Nat /\ k \in 0..l /\ k # l /\ DOMAIN W = 1..l
      BY <1>2, <1>3
    <3>. HIDE DEF l, W
    <3>. QED BY <3>1
  <2>2. s.next <= W[k + 1] /\ ~s.exhausted
    BY <1>2, <2>1 DEF StandsBehind
  <2>3. /\ cfg.end # NoHeight
        /\ IsNone(NextBatch(cfg.plan, s.next, cfg.end, cfg.batch, cfg.end))
    BY <1>1, <2>2 DEF IsComplete
  <2>4. \A h \in s.next..cfg.end : IsBypassed(cfg.plan, h)
    <3>. DEFINE next == s.next
                end  == cfg.end
                plan == cfg.plan
                size == cfg.batch
    <3>1. next \in Height /\ end \in Height /\ plan \in Plans /\ size \in Nat /\ size # 0
          /\ IsNone(NextBatch(plan, next, end, size, end)) /\ end # NoHeight
      BY <1>0, <2>3, ConfigIsValid DEF FetchTypeOK
    <3>. HIDE DEF next, end, plan, size
    <3>2. \A h \in next..end : end = NoHeight \/ h <= end => IsBypassed(plan, h)
      BY <3>1, NextBatchIsExact
    <3>3. \A h \in next..end : IsBypassed(plan, h)
      BY <3>1, <3>2, MaxU64Assumption DEF Height
    <3>. QED BY <3>3 DEF next, end, plan
  <2>5. W[k + 1] <= cfg.end /\ ~IsBypassed(cfg.plan, W[k + 1])
    BY <1>0, <2>1, <2>3, WantedIsExact
  <2>6. W[k + 1] \in s.next..cfg.end
    <3>1. /\ W[k + 1] \in Height /\ s.next \in Height /\ cfg.end \in Height \union {NoHeight}
          /\ cfg.end # NoHeight
      BY <1>0, <1>3, <2>1, <2>3, ConfigIsValid DEF FetchTypeOK
    <3>. HIDE DEF W
    <3>. QED BY <2>2, <2>5, <3>1, MaxU64Assumption DEF Height
  <2>. QED BY <2>4, <2>5, <2>6
<1>5. FetchTypeOK' /\ Wanted' = Wanted
  BY <1>0, <1>1 DEF FetchTypeOK, Wanted, Ended
<1>6. StoredInOrder' /\ \E l \in 0..Len(Wanted') : StandsBehind(l)'
  BY <1>1, <1>2, <1>4, <1>5 DEF FetchInvariant, StoredInOrder, StandsBehind
<1>7. BlocksArePending' /\ BatchWithinBudget'
  BY <1>1 DEF FetchInvariant, BlocksArePending, BatchWithinBudget
<1>. QED BY <1>5, <1>6, <1>7 DEF FetchInvariant
(* A planned batch is the next wanted heights: next_batch hops over what   *)
(* is bypassed and stops where the next bypassed span begins.              *)
LEMMA PlannedIsNextWanted ==
    ASSUME FetchTypeOK, NEW k \in 0..Len(Wanted), StandsBehind(k), ~s.exhausted,
           NEW size \in Nat
    PROVE  LET p == HeightsIn(cfg.plan, NextBatch(cfg.plan, s.next, head, size, cfg.end))
           IN  /\ p \in Seq(Height) /\ Len(p) \in Nat
               /\ k + Len(p) <= Len(Wanted)
               /\ \A i \in DOMAIN p : p[i] = Wanted[k + i] /\ p[i] <= head
<1>. DEFINE W    == Wanted
            plan == cfg.plan
            next == s.next
            end  == cfg.end
            b    == NextBatch(plan, next, head, size, end)
            p    == HeightsIn(plan, b)
<1>1. /\ plan \in Plans /\ next \in Height /\ head \in Height
      /\ end \in Height \union {NoHeight} /\ cfg.start \in Height /\ cfg.start <= next
  BY ConfigIsValid DEF FetchTypeOK, StandsBehind
<1>2. /\ W \in Seq(Height) /\ Len(W) \in Nat /\ DOMAIN W = 1..Len(W)
      /\ \A i \in DOMAIN W : ~IsBypassed(plan, W[i])
      /\ \A i, j \in DOMAIN W : i < j => W[i] < W[j]
      /\ \A h \in Height : (cfg.start <= h /\ (end = NoHeight \/ h <= end) /\ ~IsBypassed(plan, h))
                               => \E i \in DOMAIN W : W[i] = h
  BY WantedIsExact
<1>3. \A i \in DOMAIN W : IF i <= k THEN W[i] < next ELSE next <= W[i]
  BY DEF StandsBehind
<1>4. k \in 0..Len(W)
  OBVIOUS
<1>. HIDE DEF W, plan, next, end
<1>5. /\ b.start \in Nat /\ b.end \in Nat
      /\ ~IsNone(b) =>
            /\ next <= b.start /\ b.start <= b.end /\ b.end <= head
            /\ end # NoHeight => b.end <= end
            /\ \A h \in next..(b.start - 1) : IsBypassed(plan, h)
            /\ \A h \in b.start..b.end : ~IsBypassed(plan, h)
  <2>1. size \in Nat
    OBVIOUS
  <2>2. LET c == NextBatch(plan, next, head, size, end)
        IN  /\ c.start \in Nat /\ c.end \in Nat
            /\ ~IsNone(c) =>
                  /\ next <= c.start /\ c.start <= c.end /\ c.end <= head
                  /\ end # NoHeight => c.end <= end
                  /\ c.end - c.start + 1 <= size
                  /\ \A h \in next..(c.start - 1) : IsBypassed(plan, h)
                  /\ \A h \in c.start..c.end : ~IsBypassed(plan, h)
                  /\ c.end - c.start + 1 = size \/ c.end = head \/ c.end = end
                         \/ IsBypassed(plan, c.end + 1)
            /\ IsNone(c) =>
                  \/ size = 0
                  \/ \A h \in next..head : end = NoHeight \/ h <= end => IsBypassed(plan, h)
    BY ONLY <1>1, <2>1, NextBatchIsExact
  <2>. QED BY ONLY <2>2 DEF b
<1>. HIDE DEF b
<1>6. CASE IsNone(b)
  <2>1. p = <<>>
    BY <1>5, <1>6, HeightsInNone
  <2>. HIDE DEF p
  <2>2. p \in Seq(Height) /\ Len(p) = 0 /\ DOMAIN p = {}
    BY <2>1, EmptySeq
  <2>3. k + Len(p) <= Len(W)
    BY <1>2, <1>4, <2>2
  <2>. QED BY <2>2, <2>3 DEF p, b, W, plan, next, end
<1>7. CASE ~IsNone(b)
  <2>. DEFINE n == b.end - b.start + 1
              a == b.start
  <2>1. p = [i \in 1..n |-> a + i - 1]
    BY <1>5, <1>7, HeightsInWhole
  <2>2. /\ n \in Nat /\ a \in Nat /\ next <= a /\ a + n - 1 = b.end /\ b.end <= head
        /\ next \in Nat /\ head \in Height /\ cfg.start \in Nat /\ cfg.start <= a
    <3>1. next \in Nat /\ cfg.start \in Nat
      BY <1>1, MaxU64Assumption DEF Height
    <3>2. b.start \in Nat /\ b.end \in Nat /\ next <= b.start /\ b.start <= b.end /\ b.end <= head
      BY <1>5, <1>7
    <3>3. n \in Nat /\ a + n - 1 = b.end
      BY <3>2
    <3>4. cfg.start <= a
      BY <1>1, <3>1, <3>2
    <3>. QED BY <1>1, <3>1, <3>2, <3>3, <3>4
  <2>. HIDE DEF p
  <2>3. \A h \in next..(a - 1) : IsBypassed(plan, h)
    BY <1>5, <1>7
  <2>4. \A h \in a..(a + n - 1) : ~IsBypassed(plan, h) /\ (end = NoHeight \/ h <= end)
    <3>1. ASSUME NEW h \in a..b.end
          PROVE  ~IsBypassed(plan, h) /\ (end = NoHeight \/ h <= end)
      <4>1. end # NoHeight => b.end <= end /\ end \in Nat
        BY <1>1, <1>5, <1>7, MaxU64Assumption DEF Height
      <4>. QED BY <1>5, <1>7, <4>1
    <3>. QED BY <2>2, <3>1
  <2>. HIDE DEF n, a
  <2>5. a..(a + n - 1) \subseteq Height
    BY <2>2, MaxU64Assumption DEF Height
  <2>6. SplitAt(W, k, a)
    <3>. SUFFICES ASSUME NEW i \in DOMAIN W PROVE IF i <= k THEN W[i] < a ELSE a <= W[i]
      BY DEF SplitAt
    <3>1. W[i] \in Nat
      <4>1. W[i] \in Height
        BY <1>2
      <4>. QED BY <4>1, MaxU64Assumption DEF Height
    <3>2. CASE i <= k
      BY <1>3, <2>2, <3>1, <3>2
    <3>3. CASE ~(i <= k)
      <4>1. next <= W[i] /\ ~IsBypassed(plan, W[i])
        BY <1>2, <1>3, <3>3
      <4>2. W[i] \notin next..(a - 1)
        BY <2>3, <4>1
      <4>3. a <= W[i]
        BY <2>2, <3>1, <4>1, <4>2
      <4>. QED BY <3>3, <4>3
    <3>. QED BY <3>2, <3>3
  <2>7. HasAll(W, a..(a + n - 1))
    <3>. SUFFICES ASSUME NEW h \in a..(a + n - 1) PROVE \E j \in DOMAIN W : W[j] = h
      BY DEF HasAll
    <3>1. h \in Height /\ cfg.start <= h /\ (end = NoHeight \/ h <= end) /\ ~IsBypassed(plan, h)
      BY <2>2, <2>4, <2>5
    <3>. QED BY <1>2, <3>1
  <2>8. W \in Seq(Nat) /\ Ascending(W)
    <3>1. Height \subseteq Nat
      BY MaxU64Assumption DEF Height
    <3>2. Ascending(W)
      BY <1>2 DEF Ascending
    <3>3. \A i \in 1..Len(W) : W[i] \in Nat
      <4>1. \A i \in 1..Len(W) : W[i] \in Height
        BY <1>2
      <4>. QED BY <3>1, <4>1
    <3>4. W = [i \in 1..Len(W) |-> W[i]]
      BY <1>2
    <3>. QED BY <1>2, <3>2, <3>3, <3>4
  <2>9. k + n <= Len(W) /\ \A i \in 1..n : W[k + i] = a + i - 1
    BY <1>4, <2>2, <2>6, <2>7, <2>8, RunInList
  <2>10. \A i \in 1..n : a + i - 1 \in Height /\ a + i - 1 <= head
    BY <2>2, MaxU64Assumption DEF Height
  <2>11. p \in Seq(Height) /\ Len(p) = n /\ DOMAIN p = 1..n
    <3>1. n \in Nat /\ \A i \in 1..n : a + i - 1 \in Height
      BY <2>2, <2>10
    <3>. QED BY ONLY <2>1, <3>1
  <2>12. \A i \in DOMAIN p : p[i] = W[k + i] /\ p[i] <= head
    BY <2>1, <2>9, <2>10, <2>11
  <2>. QED BY <2>2, <2>9, <2>11, <2>12 DEF p, b, W, plan, next, end
<1>. QED BY <1>6, <1>7

(* A batch is planned, or the pending one is tried again.                  *)
LEMMA PlanKeepsInvariant ==
    ASSUME FetchInvariant, Plan
    PROVE  FetchInvariant'
<1>0. FetchTypeOK
  BY DEF FetchInvariant
<1>1. /\ UNCHANGED <<cfg, blocks, head, durable>>
      /\ s' = PlanFrom(cfg, s, head, 0, 0) /\ pc = "loop" /\ pc' \in {"sleeping", "fetching"}
      /\ ~s.exhausted
  BY DEF Plan, IsComplete
<1>2. PICK k \in 0..Len(Wanted) : StandsBehind(k)
  BY DEF FetchInvariant
<1>3. /\ s' = [s EXCEPT !.pending = s'.pending]
      /\ s'.pending \in Seq(Height) /\ k + Len(s'.pending) <= Len(Wanted)
      /\ \A i \in DOMAIN s'.pending : s'.pending[i] = Wanted[k + i] /\ s'.pending[i] <= head
      /\ s.pending = <<>> \/ s'.pending = s.pending
  <2>1. CASE NeedsHead(cfg, s, 0, 0)
    <3>. DEFINE p == HeightsIn(cfg.plan, NextBatch(cfg.plan, s.next, head, Budget(cfg, 0, 0), cfg.end))
    <3>1. s' = [s EXCEPT !.pending = p] /\ s.pending = <<>>
      BY <1>1, <2>1 DEF PlanFrom, NeedsHead
    <3>2. /\ p \in Seq(Height) /\ k + Len(p) <= Len(Wanted)
          /\ \A i \in DOMAIN p : p[i] = Wanted[k + i] /\ p[i] <= head
      BY <1>0, <1>1, <1>2, BudgetIsLeast, PlannedIsNextWanted
    <3>. HIDE DEF p
    <3>3. s'.pending = p
      BY <1>0, <3>1 DEF FetchTypeOK
    <3>. QED BY <3>1, <3>2, <3>3
  <2>2. CASE ~NeedsHead(cfg, s, 0, 0)
    <3>1. s' = s
      BY <1>1, <2>2 DEF PlanFrom
    <3>2. \A i \in DOMAIN s.pending : s.pending[i] <= head
      BY DEF FetchInvariant, BatchWithinBudget
    <3>. QED BY <1>0, <1>2, <3>1, <3>2 DEF FetchTypeOK, StandsBehind
  <2>. QED BY <2>1, <2>2
<1>4. /\ s' \in [next : Height, exhausted : BOOLEAN, pending : Seq(Height)]
      /\ s'.next = s.next /\ s'.exhausted = s.exhausted
  BY <1>0, <1>3 DEF FetchTypeOK
<1>5. FetchTypeOK' /\ Wanted' = Wanted
  BY <1>0, <1>1, <1>4 DEF FetchTypeOK, Running, Wanted
<1>6. StoredInOrder' /\ BlocksArePending'
  BY <1>1, <1>5 DEF FetchInvariant, StoredInOrder, BlocksArePending
<1>7. StandsBehind(k)'
  BY <1>1, <1>2, <1>3, <1>4, <1>5 DEF StandsBehind
<1>8. BatchWithinBudget'
  BY <1>1, <1>3 DEF FetchInvariant, BatchWithinBudget
<1>. QED BY <1>2, <1>5, <1>6, <1>7, <1>8 DEF FetchInvariant
(* Storing the wanted height behind those that are stored, or that one     *)
(* again, leaves them all stored, in order and once.                       *)
LEMMA StoreIsNextWanted ==
    ASSUME FetchTypeOK, StoredInOrder, NEW k \in Nat, k + 1 <= Len(Wanted),
           Len(durable) = k \/ Len(durable) = k + 1, NEW h \in Height, h = Wanted[k + 1]
    PROVE  LET d == Store(durable, h)
           IN  /\ d \in Seq(Height) /\ Len(d) = k + 1 /\ DOMAIN d = 1..(k + 1)
               /\ \A i \in DOMAIN d : d[i] = Wanted[i]
<1>. DEFINE W == Wanted
            l == Len(durable)
            d == Store(durable, h)
<1>1. /\ Len(W) \in Nat /\ DOMAIN W = 1..Len(W)
      /\ \A i, j \in DOMAIN W : i < j => W[i] < W[j]
      /\ \A i \in DOMAIN W : W[i] \in Height
  BY WantedIsExact
<1>2. /\ durable \in Seq(Height) /\ l \in Nat /\ DOMAIN durable = 1..l
      /\ \A i \in 1..l : durable[i] = W[i]
      /\ durable # <<>> => l # 0
  BY LenProperties, EmptySeq DEF FetchTypeOK, StoredInOrder
<1>. HIDE DEF W, l
<1>3. k + 1 <= Len(W) /\ (l = k \/ l = k + 1) /\ h = W[k + 1]
  BY DEF W, l
<1>4. CASE l = k
  <2>1. ~(durable # <<>> /\ durable[l] = h)
    <3>. SUFFICES ASSUME durable # <<>>, durable[l] = h PROVE FALSE
      OBVIOUS
    <3>1. k \in DOMAIN W /\ k + 1 \in DOMAIN W /\ l \in 1..l /\ k < k + 1
      BY <1>1, <1>2, <1>3, <1>4
    <3>2. W[k] = W[k + 1] /\ W[k] < W[k + 1]
      BY <1>1, <1>2, <1>3, <1>4, <3>1
    <3>3. W[k] \in Nat /\ W[k + 1] \in Nat
      BY <1>1, <3>1, MaxU64Assumption DEF Height
    <3>. QED BY <3>2, <3>3
  <2>2. d = Append(durable, h)
    BY <2>1 DEF Store, l
  <2>3. /\ d \in Seq(Height) /\ Len(d) = l + 1
        /\ \A i \in 1..l : d[i] = durable[i]
        /\ d[l + 1] = h
    <3>. HIDE DEF d
    <3>1. durable \in Seq(Height) /\ h \in Height /\ Len(durable) = l /\ DOMAIN durable = 1..l
      <4>1. Len(durable) = l
        BY DEF l
      <4>. QED BY <1>1, <1>2, <1>3, <4>1
    <3>2. /\ Append(durable, h) \in Seq(Height)
          /\ Len(Append(durable, h)) = Len(durable) + 1
          /\ \A i \in 1..Len(durable) : Append(durable, h)[i] = durable[i]
          /\ Append(durable, h)[Len(durable) + 1] = h
      BY <3>1, AppendProperties
    <3>. QED BY <2>2, <3>1, <3>2
  <2>. HIDE DEF d
  <2>4. DOMAIN d = 1..(k + 1) /\ Len(d) = k + 1
    BY <1>2, <1>4, <2>3, LenProperties
  <2>5. \A i \in 1..(k + 1) : i \in 1..l \/ i = l + 1
    BY <1>2, <1>4
  <2>6. \A i \in 1..(k + 1) : d[i] = W[i]
    BY <1>2, <1>3, <1>4, <2>3, <2>5
  <2>. QED BY <2>3, <2>4, <2>6 DEF d, W
<1>5. CASE l = k + 1
  <2>1. durable # <<>>
    <3>1. CASE durable = <<>>
      BY <1>5, <3>1 DEF l
    <3>. QED BY <3>1
  <2>2. durable[l] = h
    BY <1>2, <1>3, <1>5
  <2>3. d = durable
    BY <2>1, <2>2 DEF Store, l
  <2>. QED BY <1>2, <1>5, <2>3 DEF W, l
<1>. QED BY <1>3, <1>4, <1>5

(* The block handed to the sink is the next wanted height.                 *)
LEMMA AcceptingIsNextWanted ==
    ASSUME FetchInvariant, pc = "accepting", NEW k \in 0..Len(Wanted), StandsBehind(k)
    PROVE  /\ s.pending # <<>> /\ blocks # <<>> /\ Head(blocks) = Head(s.pending)
           /\ Head(s.pending) \in Height
           /\ Head(s.pending) = Wanted[k + 1] /\ k + 1 <= Len(Wanted)
           /\ Len(s.pending) \in Nat /\ Len(s.pending) > 0
           /\ k \in Nat /\ k + 1 \in DOMAIN Wanted
           /\ Head(s.pending) = s.pending[1] /\ 1 \in DOMAIN s.pending
<1>. DEFINE p == s.pending
<1>1. /\ blocks # <<>> /\ blocks \in Seq(Height) /\ p \in Seq(Height)
      /\ Len(blocks) <= Len(p)
      /\ \A i \in DOMAIN blocks : blocks[i] = p[i]
      /\ k + Len(p) <= Len(Wanted)
      /\ \A i \in DOMAIN p : p[i] = Wanted[k + i]
  BY DEF FetchInvariant, FetchTypeOK, BlocksArePending, StandsBehind
<1>2. Len(Wanted) \in Nat /\ DOMAIN Wanted = 1..Len(Wanted)
  BY WantedIsExact DEF FetchInvariant
<1>. HIDE DEF p
<1>3. Len(blocks) \in Nat /\ Len(blocks) # 0 /\ Len(p) \in Nat /\ DOMAIN blocks = 1..Len(blocks)
      /\ DOMAIN p = 1..Len(p)
  BY <1>1, EmptySeq, LenProperties
<1>4. Len(p) > 0 /\ 1 \in DOMAIN p /\ 1 \in DOMAIN blocks
  BY <1>1, <1>3
<1>5. p # <<>>
  <2>1. CASE p = <<>>
    BY <1>4, <2>1
  <2>. QED BY <2>1
<1>6. Head(p) = p[1] /\ Head(blocks) = blocks[1] /\ Head(p) \in Height
  BY <1>1, <1>5, HeadTailProperties
<1>7. k \in Nat /\ k + 1 <= Len(Wanted) /\ k + 1 \in DOMAIN Wanted
  BY <1>1, <1>2, <1>3, <1>4
<1>. QED BY <1>1, <1>3, <1>4, <1>5, <1>6, <1>7 DEF p

(* accept() succeeded: the block is stored and the cursor moves past it.   *)
LEMMA AcceptOkKeepsInvariant ==
    ASSUME FetchInvariant, AcceptOk
    PROVE  FetchInvariant'
<1>0. FetchTypeOK /\ pc = "accepting"
  BY DEF FetchInvariant, AcceptOk
<1>1. PICK k \in 0..Len(Wanted) : StandsBehind(k)
  BY DEF FetchInvariant
<1>. DEFINE p == s.pending
            h == Head(p)
<1>2. /\ p # <<>> /\ blocks # <<>> /\ Head(blocks) = h /\ h \in Height
      /\ h = Wanted[k + 1] /\ k + 1 <= Len(Wanted) /\ k \in Nat /\ k + 1 \in DOMAIN Wanted
      /\ Len(p) \in Nat /\ Len(p) > 0
  BY <1>0, <1>1, AcceptingIsNextWanted
<1>3. /\ UNCHANGED <<cfg, head>>
      /\ durable' = Store(durable, h) /\ blocks' = Tail(blocks)
      /\ s' = Acknowledge(s, h) /\ pc' = "next_block"
  BY <1>0, <1>2 DEF AcceptOk, CanAcknowledge
<1>4. /\ p \in Seq(Height) /\ blocks \in Seq(Height)
      /\ Len(blocks) <= Len(p)
      /\ \A i \in DOMAIN blocks : blocks[i] = p[i]
      /\ \A i \in DOMAIN p : p[i] = Wanted[k + i] /\ p[i] <= head
      /\ k + Len(p) <= Len(Wanted)
  BY <1>0, <1>1 DEF FetchInvariant, FetchTypeOK, BlocksArePending, BatchWithinBudget, StandsBehind
<1>. HIDE DEF p, h
<1>5. Wanted' = Wanted
  BY <1>3 DEF Wanted
<1>6. /\ durable' \in Seq(Height) /\ Len(durable') = k + 1 /\ DOMAIN durable' = 1..(k + 1)
      /\ \A i \in DOMAIN durable' : durable'[i] = Wanted[i]
  <2>1. Len(durable) = k \/ Len(durable) = k + 1
    BY <1>1 DEF StandsBehind
  <2>. QED BY <1>0, <1>2, <1>3, <2>1, StoreIsNextWanted DEF FetchInvariant
<1>7. /\ Tail(p) \in Seq(Height) /\ Len(Tail(p)) = Len(p) - 1 /\ DOMAIN Tail(p) = 1..Len(Tail(p))
      /\ \A i \in DOMAIN Tail(p) : i + 1 \in DOMAIN p /\ Tail(p)[i] = p[i + 1]
  <2>1. /\ Tail(p) \in Seq(Height) /\ Len(Tail(p)) = Len(p) - 1
        /\ \A i \in 1..Len(Tail(p)) : Tail(p)[i] = p[i + 1]
    BY <1>2, <1>4, HeadTailProperties
  <2>. QED BY <1>2, <1>4, <2>1, LenProperties
<1>8. /\ Tail(blocks) \in Seq(Height) /\ Len(Tail(blocks)) = Len(blocks) - 1 /\ Len(blocks) \in Nat
      /\ \A i \in DOMAIN Tail(blocks) : i + 1 \in DOMAIN blocks /\ Tail(blocks)[i] = blocks[i + 1]
  <2>1. /\ Tail(blocks) \in Seq(Height) /\ Len(Tail(blocks)) = Len(blocks) - 1
        /\ \A i \in 1..Len(Tail(blocks)) : Tail(blocks)[i] = blocks[i + 1]
    BY <1>2, <1>4, HeadTailProperties
  <2>. QED BY <1>4, <2>1, LenProperties
<1>9. /\ s'.next = SatAdd(h, 1) /\ s'.exhausted = (h = MaxU64) /\ s'.pending = Tail(p)
      /\ s' = [next |-> s'.next, exhausted |-> s'.exhausted, pending |-> s'.pending]
  BY <1>3 DEF Acknowledge, p
<1>10. /\ h \in Nat /\ h <= MaxU64 /\ s'.next \in Height /\ h <= s'.next
       /\ h = MaxU64 \/ s'.next = h + 1
  BY <1>2, <1>9, MaxU64Assumption DEF SatAdd, Height
<1>11. FetchTypeOK'
  <2>1. s' \in [next : Height, exhausted : BOOLEAN, pending : Seq(Height)]
    BY <1>7, <1>9, <1>10
  <2>. QED BY <1>0, <1>3, <1>6, <1>8, <2>1 DEF FetchTypeOK, Running
<1>12. StandsBehind(k + 1)'
  <2>. DEFINE W == Wanted
  <2>1. /\ DOMAIN W = 1..Len(W) /\ Len(W) \in Nat
        /\ \A i, j \in DOMAIN W : i < j => W[i] < W[j]
        /\ \A i \in DOMAIN W : W[i] \in Height /\ cfg.start <= W[i]
    BY <1>0, WantedIsExact
  <2>. HIDE DEF W
  <2>2. k + 1 \in DOMAIN W /\ h = W[k + 1]
    BY <1>2 DEF W
  <2>3. ASSUME NEW i \in DOMAIN W
        PROVE  IF i <= k + 1 THEN W[i] < s'.next \/ s'.exhausted ELSE s'.next <= W[i] /\ ~s'.exhausted
    <3>1. W[i] \in Nat /\ W[i] <= MaxU64 /\ i \in Nat
      BY <2>1, MaxU64Assumption DEF Height
    <3>2. CASE i <= k + 1
      <4>1. i = k + 1 \/ i < k + 1
        BY <1>2, <3>1, <3>2
      <4>2. W[i] <= h
        BY <1>10, <2>1, <2>2, <3>1, <4>1
      <4>3. s'.exhausted \/ s'.next = h + 1
        BY <1>9, <1>10
      <4>. QED BY <1>10, <3>1, <3>2, <4>2, <4>3
    <3>3. CASE ~(i <= k + 1)
      <4>1. k + 1 < i
        BY <1>2, <3>1, <3>3
      <4>2. h < W[i]
        BY <2>1, <2>2, <4>1
      <4>3. h # MaxU64 /\ h + 1 <= W[i]
        BY <1>10, <3>1, <4>2, MaxU64Assumption
      <4>. QED BY <1>9, <1>10, <3>3, <4>3
    <3>. QED BY <3>2, <3>3
  <2>4. cfg.start <= s'.next
    <3>1. cfg.start \in Nat /\ cfg.start <= h
      <4>1. cfg.start \in Nat
        BY <1>0, ConfigIsValid, MaxU64Assumption DEF Height
      <4>2. cfg.start <= W[k + 1]
        BY <2>1, <2>2
      <4>. QED BY <2>2, <4>1, <4>2
    <3>2. s'.next \in Nat
      BY <1>10, MaxU64Assumption DEF Height
    <3>. QED BY <1>10, <3>1, <3>2
  <2>5. (k + 1) + Len(Tail(p)) <= Len(W)
    BY <1>2, <1>4, <1>7, <2>1 DEF W
  <2>6. \A i \in DOMAIN Tail(p) : Tail(p)[i] = W[(k + 1) + i]
    <3>. SUFFICES ASSUME NEW i \in DOMAIN Tail(p) PROVE Tail(p)[i] = W[(k + 1) + i]
      OBVIOUS
    <3>1. i + 1 \in DOMAIN p /\ Tail(p)[i] = p[i + 1] /\ i \in Nat
      BY <1>7
    <3>2. p[i + 1] = W[k + (i + 1)]
      BY <1>4, <3>1 DEF W
    <3>3. k + (i + 1) = (k + 1) + i
      BY <1>2, <3>1
    <3>. QED BY <3>1, <3>2, <3>3
  <2>. QED BY <1>3, <1>5, <1>6, <1>9, <2>3, <2>4, <2>5, <2>6 DEF StandsBehind, W
<1>13. StoredInOrder'
  BY <1>2, <1>5, <1>6 DEF StoredInOrder
<1>14. BlocksArePending'
  <2>1. Len(Tail(blocks)) <= Len(Tail(p))
    BY <1>2, <1>4, <1>7, <1>8
  <2>2. \A i \in DOMAIN Tail(blocks) : Tail(blocks)[i] = Tail(p)[i]
    <3>. SUFFICES ASSUME NEW i \in DOMAIN Tail(blocks) PROVE Tail(blocks)[i] = Tail(p)[i]
      OBVIOUS
    <3>1. i + 1 \in DOMAIN blocks /\ Tail(blocks)[i] = blocks[i + 1]
      BY <1>8
    <3>2. i \in DOMAIN Tail(p)
      BY <1>7, <1>8, <2>1, LenProperties
    <3>. QED BY <1>4, <1>7, <3>1, <3>2
  <2>. QED BY <1>3, <1>9, <2>1, <2>2 DEF BlocksArePending
<1>15. BatchWithinBudget'
  <2>. DEFINE limit == Least(cfg.batch, Least(cfg.bp.maxInFlight, cfg.bp.queueCapacity))
  <2>1. limit \in Nat /\ Len(blocks) <= limit
    BY <1>0, BudgetIsLeast DEF FetchInvariant, BatchWithinBudget
  <2>. HIDE DEF limit
  <2>2. Len(Tail(blocks)) <= limit
    BY <1>8, <2>1
  <2>3. \A i \in DOMAIN Tail(p) : Tail(p)[i] <= head
    BY <1>4, <1>7
  <2>. QED BY <1>3, <1>9, <2>2, <2>3 DEF BatchWithinBudget, limit
<1>16. k + 1 \in 0..Len(Wanted')
  BY <1>0, <1>2, <1>5, WantedIsExact
<1>. QED BY <1>11, <1>12, <1>13, <1>14, <1>15, <1>16 DEF FetchInvariant
(* accept() reported an error, after storing its block or without.         *)
LEMMA AcceptFailsKeepsInvariant ==
    ASSUME FetchInvariant, AcceptFails
    PROVE  FetchInvariant'
<1>0. FetchTypeOK /\ pc = "accepting"
  BY DEF FetchInvariant, AcceptFails
<1>1. PICK k \in 0..Len(Wanted) : StandsBehind(k)
  BY DEF FetchInvariant
<1>. DEFINE h == Head(s.pending)
<1>2. /\ s.pending # <<>> /\ Head(blocks) = h /\ h \in Height
      /\ h = Wanted[k + 1] /\ k + 1 <= Len(Wanted) /\ k \in Nat
  BY <1>0, <1>1, AcceptingIsNextWanted
<1>3. /\ UNCHANGED <<cfg, s, blocks, head>> /\ pc' = "failed"
      /\ durable' = durable \/ durable' = Store(durable, h)
  BY <1>2 DEF AcceptFails
<1>. HIDE DEF h
<1>4. Wanted' = Wanted
  BY <1>3 DEF Wanted
<1>5. Len(durable) = k \/ Len(durable) = k + 1
  BY <1>1 DEF StandsBehind
<1>6. durable' \in Seq(Height) /\ StoredInOrder' /\ (Len(durable') = k \/ Len(durable') = k + 1)
  <2>1. CASE durable' = durable
    BY <1>0, <1>4, <1>5, <2>1 DEF FetchTypeOK, FetchInvariant, StoredInOrder
  <2>2. CASE durable' = Store(durable, h)
    <3>1. /\ durable' \in Seq(Height) /\ Len(durable') = k + 1
          /\ \A i \in DOMAIN durable' : durable'[i] = Wanted[i]
      BY <1>0, <1>2, <1>5, <2>2, StoreIsNextWanted DEF FetchInvariant
    <3>. QED BY <1>2, <1>4, <3>1 DEF StoredInOrder
  <2>. QED BY <1>3, <2>1, <2>2
<1>7. FetchTypeOK'
  BY <1>0, <1>3, <1>6 DEF FetchTypeOK, Ended
<1>8. StandsBehind(k)'
  BY <1>1, <1>2, <1>3, <1>4, <1>6 DEF StandsBehind
<1>9. BlocksArePending' /\ BatchWithinBudget'
  BY <1>3 DEF FetchInvariant, BlocksArePending, BatchWithinBudget
<1>. QED BY <1>1, <1>4, <1>6, <1>7, <1>8, <1>9 DEF FetchInvariant

(* A scheduler that resumes from the last stored height stands behind it.  *)
LEMMA RestartKeepsInvariant ==
    ASSUME FetchInvariant, Restart
    PROVE  FetchInvariant'
<1>0. FetchTypeOK
  BY DEF FetchInvariant
<1>. DEFINE W == Wanted
            l == Len(durable)
            fresh == [next |-> cfg.start, exhausted |-> FALSE, pending |-> <<>>]
<1>1. /\ UNCHANGED <<cfg, head, durable>> /\ pc' = "loop" /\ blocks' = <<>>
      /\ s' = IF durable = <<>> THEN fresh
              ELSE [next |-> Greatest(SatAdd(durable[l], 1), cfg.start),
                    exhausted |-> durable[l] = MaxU64, pending |-> <<>>]
  BY DEF Restart, NewScheduler, ResumeFrom
<1>2. Wanted' = Wanted
  BY <1>1 DEF Wanted
<1>3. /\ DOMAIN W = 1..Len(W) /\ Len(W) \in Nat
      /\ \A i, j \in DOMAIN W : i < j => W[i] < W[j]
      /\ \A i \in DOMAIN W : W[i] \in Height /\ cfg.start <= W[i]
  BY <1>0, WantedIsExact
<1>4. /\ durable \in Seq(Height) /\ l \in Nat /\ DOMAIN durable = 1..l /\ l <= Len(W)
      /\ \A i \in DOMAIN durable : durable[i] = W[i]
      /\ (durable = <<>> => l = 0) /\ (durable # <<>> => l # 0)
  BY <1>0, LenProperties, EmptySeq DEF FetchTypeOK, FetchInvariant, StoredInOrder
<1>5. cfg.start \in Nat /\ cfg.start <= MaxU64
  BY <1>0, ConfigIsValid, MaxU64Assumption DEF Height
<1>. HIDE DEF W, l
<1>6. <<>> \in Seq(Height) /\ Len(<<>>) = 0 /\ DOMAIN <<>> = {}
  BY EmptySeq
<1>7. /\ s' \in [next : Height, exhausted : BOOLEAN, pending : Seq(Height)]
      /\ s'.pending = <<>> /\ cfg.start <= s'.next
      /\ \A i \in DOMAIN W : IF i <= l THEN W[i] < s'.next \/ s'.exhausted
                                       ELSE s'.next <= W[i] /\ ~s'.exhausted
  <2>1. CASE durable = <<>>
    <3>1. s' = fresh /\ l = 0
      BY <1>1, <1>4, <2>1
    <3>2. fresh \in [next : Height, exhausted : BOOLEAN, pending : Seq(Height)]
      BY <1>5, <1>6, MaxU64Assumption DEF Height
    <3>3. \A i \in DOMAIN W : ~(i <= 0)
      BY <1>3
    <3>. QED BY <1>3, <1>5, <3>1, <3>2, <3>3
  <2>2. CASE durable # <<>>
    <3>. DEFINE h == W[l]
                next == Greatest(SatAdd(h, 1), cfg.start)
    <3>1. l \in DOMAIN durable /\ l \in DOMAIN W /\ durable[l] = h
      BY <1>3, <1>4, <2>2
    <3>2. s' = [next |-> next, exhausted |-> h = MaxU64, pending |-> <<>>]
      BY <1>1, <2>2, <3>1
    <3>3. h \in Nat /\ h <= MaxU64 /\ cfg.start <= h
      BY <1>3, <3>1, MaxU64Assumption DEF Height
    <3>. HIDE DEF h
    <3>4. next \in Height /\ next >= h /\ cfg.start <= next /\ (h = MaxU64 \/ next = h + 1)
      BY <1>5, <3>3, MaxU64Assumption DEF Greatest, SatAdd, Height
    <3>. HIDE DEF next
    <3>5. ASSUME NEW i \in DOMAIN W
          PROVE  IF i <= l THEN W[i] < next \/ h = MaxU64 ELSE next <= W[i] /\ h # MaxU64
      <4>1. W[i] \in Nat /\ W[i] <= MaxU64 /\ i \in Nat /\ next \in Nat
        BY <1>3, <3>4, MaxU64Assumption DEF Height
      <4>2. CASE i <= l
        <5>1. i = l \/ i < l
          BY <1>4, <4>1, <4>2
        <5>2. W[i] <= h
          BY <1>3, <3>1, <3>3, <4>1, <5>1 DEF h
        <5>. QED BY <3>3, <3>4, <4>1, <4>2, <5>2
      <4>3. CASE ~(i <= l)
        <5>1. l < i
          BY <1>4, <4>1, <4>3
        <5>2. h < W[i]
          BY <1>3, <3>1, <5>1 DEF h
        <5>. QED BY <3>3, <3>4, <4>1, <4>3, <5>2, MaxU64Assumption
      <4>. QED BY <4>2, <4>3
    <3>6. (h = MaxU64) \in BOOLEAN
      OBVIOUS
    <3>7. s' \in [next : Height, exhausted : BOOLEAN, pending : Seq(Height)]
      BY <1>6, <3>2, <3>4, <3>6
    <3>8. s'.next = next /\ s'.exhausted = (h = MaxU64) /\ s'.pending = <<>>
      BY <3>2
    <3>. QED BY <3>4, <3>5, <3>7, <3>8
  <2>. QED BY <2>1, <2>2
<1>8. FetchTypeOK'
  BY <1>0, <1>1, <1>6, <1>7 DEF FetchTypeOK, Running
<1>9. l \in 0..Len(Wanted') /\ StandsBehind(l)'
  <2>1. l \in 0..Len(W)
    BY <1>3, <1>4
  <2>2. l + Len(s'.pending) <= Len(W)
    BY <1>4, <1>6, <1>7
  <2>. QED BY <1>1, <1>2, <1>6, <1>7, <2>1, <2>2 DEF StandsBehind, W, l
<1>10. StoredInOrder' /\ BlocksArePending'
  BY <1>1, <1>2 DEF FetchInvariant, StoredInOrder, BlocksArePending
<1>11. BatchWithinBudget'
  <2>1. 0 <= Least(cfg.batch, Least(cfg.bp.maxInFlight, cfg.bp.queueCapacity))
    BY <1>0, BudgetIsLeast
  <2>. QED BY <1>1, <1>6, <1>7, <2>1 DEF BatchWithinBudget
<1>12. (\E k \in 0..Len(Wanted) : StandsBehind(k))'
  <2>1. PICK k \in Nat : k = l
    BY <1>4
  <2>2. l' = l
    BY <1>1 DEF l
  <2>3. k \in 0..Len(Wanted') /\ StandsBehind(k)'
    <3>1. k \in 0..Len(Wanted')
      BY <1>9, <2>1
    <3>2. StandsBehind(k)'
      BY ONLY <1>9, <2>1, <2>2 DEF StandsBehind
    <3>. QED BY <3>1, <3>2
  <2>. QED BY <2>3
<1>. QED BY <1>8, <1>10, <1>11, <1>12 DEF FetchInvariant

(* A new scheduler stands before the first wanted height.                  *)
LEMMA FetchStartsWell == Init => FetchInvariant
<1>. SUFFICES ASSUME Init PROVE FetchInvariant
  OBVIOUS
<1>1. /\ cfg \in Configs /\ s = [next |-> cfg.start, exhausted |-> FALSE, pending |-> <<>>]
      /\ pc = "loop" /\ blocks = <<>> /\ head \in Height /\ durable = <<>>
  BY DEF Init, NewScheduler
<1>2. <<>> \in Seq(Height) /\ Len(<<>>) = 0 /\ DOMAIN <<>> = {}
  BY EmptySeq
<1>3. FetchTypeOK
  <2>1. cfg.start \in Height
    BY <1>1, ConfigsAssumption
  <2>2. s \in [next : Height, exhausted : BOOLEAN, pending : Seq(Height)]
    BY <1>1, <1>2, <2>1
  <2>. QED BY <1>1, <1>2, <2>2 DEF FetchTypeOK, Running
<1>4. /\ Len(Wanted) \in Nat /\ DOMAIN Wanted = 1..Len(Wanted)
      /\ \A i \in DOMAIN Wanted : cfg.start <= Wanted[i]
  BY <1>3, WantedIsExact
<1>5. StandsBehind(0)
  <2>1. cfg.start <= cfg.start
    BY <1>3, ConfigIsValid, MaxU64Assumption DEF Height
  <2>2. \A i \in DOMAIN Wanted : ~(i <= 0)
    BY <1>4
  <2>. QED BY <1>1, <1>2, <1>4, <2>1, <2>2 DEF StandsBehind
<1>6. 0 \in 0..Len(Wanted) /\ StoredInOrder /\ BlocksArePending
  BY <1>1, <1>2, <1>4 DEF StoredInOrder, BlocksArePending
<1>7. BatchWithinBudget
  <2>1. 0 <= Least(cfg.batch, Least(cfg.bp.maxInFlight, cfg.bp.queueCapacity))
    BY <1>3, BudgetIsLeast
  <2>. QED BY <1>1, <1>2, <2>1 DEF BatchWithinBudget
<1>. QED BY <1>3, <1>5, <1>6, <1>7 DEF FetchInvariant

(* The invariant holds of every reachable state.                           *)
LEMMA FetchKeepsInvariant == Spec => []FetchInvariant
<1>1. FetchInvariant /\ [Next]_vars => FetchInvariant'
  <2>. SUFFICES ASSUME FetchInvariant, [Next]_vars PROVE FetchInvariant'
    OBVIOUS
  <2>1. CASE UNCHANGED vars
    <3>1. UNCHANGED <<cfg, s, pc, blocks, head, durable>>
      BY <2>1 DEF vars
    <3>2. Wanted' = Wanted
      BY <3>1 DEF Wanted
    <3>3. FetchTypeOK' /\ StoredInOrder' /\ BlocksArePending' /\ BatchWithinBudget'
      BY <3>1, <3>2 DEF FetchInvariant, FetchTypeOK, StoredInOrder, BlocksArePending, BatchWithinBudget
    <3>4. PICK k \in 0..Len(Wanted) : StandsBehind(k)
      BY DEF FetchInvariant
    <3>5. StandsBehind(k)'
      BY <3>1, <3>2, <3>4 DEF StandsBehind
    <3>6. (\E i \in 0..Len(Wanted) : StandsBehind(i))'
      BY <3>2, <3>5
    <3>. QED BY <3>3, <3>6 DEF FetchInvariant
  <2>. QED BY <2>1, QuietKeepsInvariant, FetchedKeepsInvariant, FinishKeepsInvariant,
              PlanKeepsInvariant, AcceptOkKeepsInvariant, AcceptFailsKeepsInvariant,
              RestartKeepsInvariant DEF Next
<1>. QED BY <1>1, FetchStartsWell, PTL DEF Spec

-----------------------------------------------------------------------------
(* run() stores the wanted heights in order, each once, and never one that *)
(* is bypassed or beyond the range, through failures, lost answers,        *)
(* cancellations and restarts.                                             *)
THEOREM FetchStoresPrefixOfPlan == Spec => []DurableIsPrefixOfPlan
<1>1. FetchInvariant => DurableIsPrefixOfPlan
  <2>. SUFFICES ASSUME FetchInvariant PROVE DurableIsPrefixOfPlan
    OBVIOUS
  <2>. DEFINE W == Wanted
              l == Len(durable)
  <2>1. /\ W \in Seq(Height) /\ durable \in Seq(Height) /\ l \in Nat /\ Len(W) \in Nat /\ l <= Len(W)
        /\ DOMAIN durable = 1..l /\ DOMAIN W = 1..Len(W)
        /\ \A i \in DOMAIN durable : durable[i] = W[i]
    BY WantedIsExact, LenProperties DEF FetchInvariant, FetchTypeOK, StoredInOrder
  <2>. HIDE DEF W
  <2>2. /\ SubSeq(W, 1, l) \in Seq(Height) /\ Len(SubSeq(W, 1, l)) = l
        /\ \A i \in 1..l : SubSeq(W, 1, l)[i] = W[i]
    <3>1. \A i \in 1..l : W[i] \in Height
      BY <2>1
    <3>2. /\ SubSeq(W, 1, l) \in Seq(Height)
          /\ Len(SubSeq(W, 1, l)) = IF 1 <= l THEN l - 1 + 1 ELSE 0
          /\ \A i \in 1..(l - 1 + 1) : SubSeq(W, 1, l)[i] = W[1 + i - 1]
      BY <2>1, <3>1, SubSeqProperties
    <3>. QED BY <2>1, <3>2
  <2>3. durable = SubSeq(W, 1, l)
    BY <2>1, <2>2, SeqEqual
  <2>. QED BY <2>1, <2>3 DEF DurableIsPrefixOfPlan, W
<1>. QED BY <1>1, FetchKeepsInvariant, PTL

(* run() reports completion only when every wanted height is stored.       *)
THEOREM FetchDoneIsComplete == Spec => []DoneMeansEverythingDurable
<1>1. FetchInvariant => DoneMeansEverythingDurable
  <2>. SUFFICES ASSUME FetchInvariant, pc = "done" PROVE durable = Wanted
    BY DEF DoneMeansEverythingDurable
  <2>. DEFINE W == Wanted
              l == Len(durable)
              p == s.pending
  <2>1. PICK k \in 0..Len(W) : StandsBehind(k)
    BY DEF FetchInvariant
  <2>2. /\ W \in Seq(Height) /\ durable \in Seq(Height) /\ l \in Nat /\ Len(W) \in Nat /\ l <= Len(W)
        /\ DOMAIN durable = 1..l /\ p \in Seq(Height) /\ Len(p) \in Nat
        /\ \A i \in DOMAIN durable : durable[i] = W[i]
    BY WantedIsExact, LenProperties DEF FetchInvariant, FetchTypeOK, StoredInOrder
  <2>3. k = Len(W) /\ (l = k \/ l = k + 1)
    BY <2>1 DEF StandsBehind
  <2>. HIDE DEF W, l
  <2>4. l = Len(W)
    BY <2>2, <2>3
  <2>. QED BY <2>2, <2>4, SeqEqual DEF W, l
<1>. QED BY <1>1, FetchKeepsInvariant, PTL

(* The cursor never passes a wanted height that is not stored.             *)
THEOREM FetchCursorCoversOnlyDurable == Spec => []CursorCoversOnlyDurable
<1>1. FetchInvariant => CursorCoversOnlyDurable
  <2>. SUFFICES ASSUME FetchInvariant PROVE CursorCoversOnlyDurable
    OBVIOUS
  <2>. DEFINE W == Wanted
              l == Len(durable)
              p == s.pending
              stored == {durable[i] : i \in DOMAIN durable}
  <2>1. PICK k \in 0..Len(W) : StandsBehind(k)
    BY DEF FetchInvariant
  <2>2. /\ durable \in Seq(Height) /\ l \in Nat /\ DOMAIN durable = 1..l
        /\ Len(W) \in Nat /\ DOMAIN W = 1..Len(W)
        /\ \A i, j \in DOMAIN W : i < j => W[i] < W[j]
        /\ \A i \in DOMAIN W : W[i] \in Height
        /\ \A i \in DOMAIN durable : durable[i] = W[i]
        /\ p \in Seq(Height) /\ s.next \in Height
    BY WantedIsExact, LenProperties DEF FetchInvariant, FetchTypeOK, StoredInOrder
  <2>3. /\ l = k \/ l = k + 1
        /\ k + Len(p) <= Len(W)
        /\ \A i \in DOMAIN p : p[i] = W[k + i]
        /\ \A i \in DOMAIN W : IF i <= k THEN W[i] < s.next \/ s.exhausted
                                         ELSE s.next <= W[i] /\ ~s.exhausted
    BY <2>1 DEF StandsBehind
  <2>4. k \in Nat /\ k <= Len(W)
    BY <2>1, <2>2
  <2>. HIDE DEF W, l, p
  <2>5. \A i \in DOMAIN W : i <= k => W[i] \in stored
    <3>. SUFFICES ASSUME NEW i \in DOMAIN W, i <= k PROVE W[i] \in stored
      OBVIOUS
    <3>1. i \in DOMAIN durable
      BY <2>2, <2>3, <2>4
    <3>. QED BY <2>2, <3>1
  <2>6. \A i \in DOMAIN W : (W[i] < s.next \/ s.exhausted) => i <= k
    <3>. SUFFICES ASSUME NEW i \in DOMAIN W, ~(i <= k) PROVE ~(W[i] < s.next) /\ ~s.exhausted
      OBVIOUS
    <3>1. s.next <= W[i] /\ ~s.exhausted
      BY <2>3
    <3>2. s.next \in Nat /\ W[i] \in Nat
      BY <2>2, MaxU64Assumption DEF Height
    <3>. QED BY <3>1, <3>2
  <2>7. p # <<>> => \A i \in DOMAIN W : W[i] < Head(p) => i <= k
    <3>. SUFFICES ASSUME p # <<>>, NEW i \in DOMAIN W, ~(i <= k) PROVE ~(W[i] < Head(p))
      OBVIOUS
    <3>1. Head(p) = p[1] /\ 1 \in DOMAIN p
      BY <2>2, HeadTailProperties, LenProperties
    <3>2. Head(p) = W[k + 1] /\ k + 1 \in DOMAIN W
      <4>1. Len(p) \in Nat /\ 1 <= Len(p)
        BY <2>2, <3>1, LenProperties
      <4>2. p[1] = W[k + 1]
        BY <2>3, <3>1
      <4>3. k + 1 \in 1..Len(W)
        BY <2>2, <2>3, <2>4, <4>1
      <4>. QED BY <2>2, <3>1, <4>2, <4>3
    <3>3. k + 1 = i \/ k + 1 < i
      BY <2>2, <2>4
    <3>4. W[i] \in Nat /\ W[k + 1] \in Nat /\ W[k + 1] <= W[i]
      <4>1. W[i] \in Height /\ W[k + 1] \in Height
        BY <2>2, <3>2
      <4>2. W[i] \in Nat /\ W[k + 1] \in Nat
        BY <4>1, MaxU64Assumption DEF Height
      <4>3. CASE k + 1 = i
        BY <4>2, <4>3
      <4>4. CASE k + 1 < i
        <5>1. W[k + 1] < W[i]
          BY <2>2, <3>2, <4>4
        <5>. QED BY <4>2, <5>1
      <4>. QED BY <3>3, <4>2, <4>3, <4>4
    <3>. QED BY <3>2, <3>4
  <2>. QED BY <2>5, <2>6, <2>7 DEF CursorCoversOnlyDurable, W, p
<1>. QED BY <1>1, FetchKeepsInvariant, PTL

(* A batch keeps to the admission budget and below the safe head.          *)
THEOREM FetchBatchWithinBudget == Spec => []BatchWithinBudget
<1>1. FetchInvariant => BatchWithinBudget
  BY DEF FetchInvariant
<1>. QED BY <1>1, FetchKeepsInvariant, PTL
=============================================================================
