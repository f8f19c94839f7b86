--------------------------- MODULE PipelineProofs ---------------------------
(***************************************************************************)
(* The reorder buffer is correct for any number of workers, payloads,      *)
(* heights and resets.  BufferInvariant is inductive: what has been        *)
(* released is exactly start..next_expected-1, and everything held lies    *)
(* strictly above next_expected, so an insertion either leaves a gap at    *)
(* next_expected or releases precisely the run up to the next gap.         *)
(*                                                                         *)
(* The pipeline keeps what the buffer promises, loses no planned block and *)
(* stays within its memory, for any bypassed spans, any queue and any      *)
(* limits.  Every step of the pipeline is a step of the buffer's           *)
(* specification or leaves the buffer alone; besides, each worker holds at *)
(* most one block, so that handing a block on frees as much of the budget  *)
(* as it takes.                                                            *)
(***************************************************************************)
EXTENDS Pipeline, RangePlanProofs, TLAPS

-----------------------------------------------------------------------------
(* The buffer.                                                             *)

(* One insertion of a completion that is not stale, followed by the        *)
(* removal loop (ordered_commit.rs, complete_from), keeps the run exact.   *)
LEMMA ReleaseKeepsRun ==
    ASSUME BufferInvariant,
           NEW e \in Entry, ~IsStale(e),
           NEW m \in next_expected..(MaxHeight + 1),
           IsRunEnd(Inserted(e), m), Release(Inserted(e), m),
           completed' = completed \union {e.height},
           UNCHANGED <<generation, start>>
    PROVE  /\ RunReleased' /\ OnlyCurrentGeneration'
           /\ next_expected' \in Cursor /\ pending' \subseteq Entry
           /\ out' \subseteq Entry /\ completed' \subseteq Heights
  <1> DEFINE held == Inserted(e)
  <1>a. /\ next_expected \in Int /\ start \in Int /\ MaxHeight \in Nat /\ m \in Int
        /\ next_expected <= m /\ m <= MaxHeight + 1
        /\ 0 <= next_expected /\ 0 <= start
    BY HeightAssumption DEF BufferInvariant, TypeOK, Cursor, Heights
  <1>b. /\ e.gen = generation /\ e.height >= next_expected
        /\ e.height \in Int /\ e.height \in Heights
    BY <1>a DEF IsStale, Entry, Heights
  <1>c. /\ held \subseteq Entry
        /\ \A p \in held : p.height \in Int /\ p.height >= next_expected /\ p.gen = generation
        /\ \A p, q \in held : p.height = q.height => p = q
    BY <1>a, <1>b DEF Inserted, Entry, Heights, BufferInvariant, TypeOK,
                      RunReleased, OnlyCurrentGeneration
  <1>d. HeightsOf(held) = HeightsOf(pending) \union {e.height}
    BY DEF HeightsOf, Inserted
  <1>e. /\ m \notin HeightsOf(held)
        /\ \A k \in next_expected..(m - 1) : k \in HeightsOf(held)
    BY DEF IsRunEnd
  <1>f. /\ next_expected' = m
        /\ pending' = {p \in held : p.height >= m}
        /\ out' = out \union {p \in held : p.height < m}
    BY DEF Release
  <1>g. /\ HeightsOf(out) = start..(next_expected - 1)
        /\ start <= next_expected
        /\ out \subseteq Entry
        /\ completed = HeightsOf(out) \union HeightsOf(pending)
        /\ \A p, q \in out : p.height = q.height => p = q
        /\ \A p \in out : p.gen = generation
    BY DEF BufferInvariant, TypeOK, RunReleased, OnlyCurrentGeneration
  <1>h. \A p \in out : p.height \in Int /\ p.height < next_expected
    <2>1. \A p \in out : p.height \in start..(next_expected - 1)
      BY <1>g DEF HeightsOf
    <2>. QED BY <1>a, <2>1
  <1>i. HeightsOf({p \in held : p.height < m}) = next_expected..(m - 1)
    BY <1>a, <1>c, <1>e DEF HeightsOf
  <1>j. HeightsOf(out') = start..(m - 1)
    <2>1. HeightsOf(out') = HeightsOf(out) \union HeightsOf({p \in held : p.height < m})
      BY <1>f DEF HeightsOf
    <2>2. \A k : k \in start..(m - 1) <=> \/ k \in start..(next_expected - 1)
                                         \/ k \in next_expected..(m - 1)
      BY <1>a, <1>g
    <2>. QED  BY <2>1, <2>2, <1>g, <1>i
  <1>k. \A p \in pending' : p.height > m
    BY <1>a, <1>c, <1>e, <1>f DEF HeightsOf
  <1>l. HeightsOf(out') \union HeightsOf(pending') = HeightsOf(out) \union HeightsOf(held)
    BY <1>a, <1>c, <1>f DEF HeightsOf
  <1>m. completed' = HeightsOf(out') \union HeightsOf(pending')
    BY <1>l, <1>d, <1>g
  <1>n. \A p, q \in out' \union pending' : p.height = q.height => p = q
    <2>1. \A p \in out' \union pending' : p \in out \/ p \in held
      BY <1>f
    <2>2. \A p \in out, q \in held : p.height # q.height
      BY <1>a, <1>c, <1>h
    <2>. QED  BY <2>1, <2>2, <1>c, <1>g
  <1>o. OnlyCurrentGeneration'
    BY <1>f, <1>c, <1>g DEF OnlyCurrentGeneration
  <1>p. RunReleased'
    <2>1. start' = start /\ start <= m
      BY <1>a, <1>g
    <2>. QED  BY <2>1, <1>f, <1>j, <1>k, <1>m, <1>n DEF RunReleased
  <1>q. completed' \subseteq Heights
    BY <1>b DEF BufferInvariant, TypeOK
  <1>r. next_expected' \in Cursor /\ pending' \subseteq Entry /\ out' \subseteq Entry
    BY <1>a, <1>c, <1>f, <1>g DEF Cursor
  <1>. QED  BY <1>o, <1>p, <1>q, <1>r

(* Every step of the workers and of a reset preserves the invariant.       *)
LEMMA BufferInvariantStep ==
    BufferInvariant /\ [Next]_vars => BufferInvariant'
  <1> SUFFICES ASSUME BufferInvariant, [Next]_vars PROVE BufferInvariant'
    OBVIOUS
  <1> USE HeightAssumption, GenerationAssumption
  <1>1. ASSUME NEW w \in Workers, NEW h \in Heights, NEW p \in Payloads, PickUp(w, h, p)
        PROVE  BufferInvariant'
    <2>1. [height |-> h, gen |-> generation, payload |-> p] \in Entry
      BY DEF Entry, BufferInvariant, TypeOK
    <2>2. work' \in [Workers -> SUBSET Entry]
      BY <1>1, <2>1 DEF PickUp, BufferInvariant, TypeOK
    <2>. QED  BY <1>1, <2>2 DEF PickUp, bufferVars, BufferInvariant, TypeOK,
                               RunReleased, OnlyCurrentGeneration
  <1>2. ASSUME NEW w \in Workers, Complete(w)
        PROVE  BufferInvariant'
    <2>1. PICK e \in work[w] : CompleteFrom(e)
      BY <1>2 DEF Complete
    <2>2. e \in Entry
      BY <2>1 DEF BufferInvariant, TypeOK
    <2>3. work' \in [Workers -> SUBSET Entry]
      BY <1>2 DEF Complete, BufferInvariant, TypeOK
    <2>4. CASE IsStale(e)
      <3>1. UNCHANGED <<next_expected, pending, out, generation, start>>
        BY <2>1, <2>4 DEF CompleteFrom
      <3>2. completed' = completed
        <4>1. CASE e.gen = generation /\ e.height >= start
          <5>1. e.height \in start..(next_expected - 1)
            BY <2>4, <4>1, <2>2 DEF IsStale, Entry, Heights, Cursor, BufferInvariant, TypeOK
          <5>2. e.height \in completed
            BY <5>1 DEF BufferInvariant, RunReleased
          <5>. QED  BY <5>2, <4>1, <2>1 DEF CompleteFrom
        <4>2. CASE ~(e.gen = generation /\ e.height >= start)
          BY <4>2, <2>1 DEF CompleteFrom
        <4>. QED  BY <4>1, <4>2
      <3>. QED  BY <3>1, <3>2, <2>3 DEF BufferInvariant, TypeOK, RunReleased,
                                       OnlyCurrentGeneration
    <2>5. CASE ~IsStale(e)
      <3>1. PICK m \in next_expected..(MaxHeight + 1) :
                IsRunEnd(Inserted(e), m) /\ Release(Inserted(e), m)
        BY <2>1, <2>5 DEF CompleteFrom
      <3>2. e.gen = generation /\ e.height >= start
        BY <2>5, <2>2 DEF IsStale, Entry, Heights, Cursor, BufferInvariant, TypeOK, RunReleased
      <3>3. completed' = completed \union {e.height} /\ UNCHANGED <<generation, start>>
        BY <2>1, <3>2 DEF CompleteFrom
      <3>4. /\ RunReleased' /\ OnlyCurrentGeneration'
            /\ next_expected' \in Cursor /\ pending' \subseteq Entry
            /\ out' \subseteq Entry /\ completed' \subseteq Heights
        BY <2>2, <2>5, <3>1, <3>3, ReleaseKeepsRun
      <3>. QED  BY <3>3, <3>4, <2>3 DEF BufferInvariant, TypeOK
    <2>. QED  BY <2>4, <2>5
  <1>3. ASSUME NEW h \in Heights, ResetTo(h)
        PROVE  BufferInvariant'
    <2>1. TypeOK'
      BY <1>3 DEF ResetTo, BufferInvariant, TypeOK, Cursor, Heights
    <2>2. HeightsOf(out') = {} /\ HeightsOf(pending') = {} /\ h..(h - 1) = {}
      BY <1>3 DEF ResetTo, HeightsOf, Heights
    <2>3. RunReleased'
      <3>1. h <= h
        BY DEF Heights
      <3>2. HeightsOf(out') = h..(h - 1) /\ completed' = HeightsOf(out') \union HeightsOf(pending')
        BY <1>3, <2>2 DEF ResetTo
      <3>. QED  BY <1>3, <3>1, <3>2 DEF ResetTo, RunReleased
    <2>4. OnlyCurrentGeneration'
      BY <1>3 DEF ResetTo, OnlyCurrentGeneration
    <2>. QED  BY <2>1, <2>3, <2>4 DEF BufferInvariant
  <1>4. CASE UNCHANGED vars
    BY <1>4 DEF vars, BufferInvariant, TypeOK, RunReleased, OnlyCurrentGeneration
  <1>. QED  BY <1>1, <1>2, <1>3, <1>4 DEF Next

(* The invariant holds of every reachable state of the buffer.             *)
LEMMA BufferInvariantHolds == Spec => []BufferInvariant
  <1>1. Init => BufferInvariant
    <2> SUFFICES ASSUME NEW h \in Heights, BufferInit(h), WorkersInit PROVE BufferInvariant
      BY DEF Init
    <2>1. HeightsOf(out) = {} /\ HeightsOf(pending) = {} /\ h..(h - 1) = {}
      BY HeightAssumption DEF BufferInit, HeightsOf, Heights
    <2>2. TypeOK
      BY HeightAssumption DEF BufferInit, WorkersInit, TypeOK, Cursor, Heights
    <2>3. RunReleased
      <3>1. h <= h
        BY HeightAssumption DEF Heights
      <3>2. HeightsOf(out) = h..(h - 1) /\ completed = HeightsOf(out) \union HeightsOf(pending)
        BY <2>1 DEF BufferInit
      <3>. QED  BY <3>1, <3>2 DEF BufferInit, RunReleased
    <2>4. OnlyCurrentGeneration
      BY DEF BufferInit, OnlyCurrentGeneration
    <2>. QED  BY <2>2, <2>3, <2>4 DEF BufferInvariant
  <1>. QED  BY <1>1, BufferInvariantStep, PTL DEF Spec

(* For any workers, heights and resets, complete_from releases exactly the *)
(* longest run of completed heights, each once, whatever order the         *)
(* completions arrive in.                                                  *)
THEOREM BufferReleasesLongestRun == Spec => []ReleasedIsLongestRun
  <1>1. BufferInvariant => ReleasedIsLongestRun
    <2> SUFFICES ASSUME BufferInvariant PROVE ReleasedIsLongestRun
      OBVIOUS
    <2>a. /\ next_expected \in Int /\ start \in Int /\ start <= next_expected
          /\ completed \subseteq Int
      BY HeightAssumption DEF BufferInvariant, TypeOK, RunReleased, Cursor, Heights
    <2>b. /\ HeightsOf(out) = start..(next_expected - 1)
          /\ completed = HeightsOf(out) \union HeightsOf(pending)
          /\ \A k \in HeightsOf(pending) : k > next_expected
      BY DEF BufferInvariant, RunReleased, HeightsOf
    <2>c. next_expected \notin completed
      BY <2>a, <2>b
    <2>d. \A k \in HeightsOf(out) : k \in completed /\ \A j \in start..k : j \in completed
      BY <2>a, <2>b
    <2>e. \A k \in completed : (\A j \in start..k : j \in completed) => k \in HeightsOf(out)
      <3> SUFFICES ASSUME NEW k \in completed, k \notin HeightsOf(out)
                   PROVE  \E j \in start..k : j \notin completed
        OBVIOUS
      <3>1. k > next_expected
        BY <2>b
      <3>2. next_expected \in start..k
        BY <2>a, <3>1
      <3>. QED  BY <3>2, <2>c
    <2>f. HeightsOf(pending) = completed \ HeightsOf(out)
      BY <2>a, <2>b
    <2>. QED  BY <2>d, <2>e, <2>f DEF ReleasedIsLongestRun, BufferInvariant, RunReleased
  <1>. QED  BY <1>1, BufferInvariantHolds, PTL

(* For any number of resets, nothing captured under an earlier generation  *)
(* is held or released after reset_to.                                     *)
THEOREM BufferDropsOldGenerations == Spec => []OnlyCurrentGeneration
  <1>1. BufferInvariant => OnlyCurrentGeneration
    BY DEF BufferInvariant
  <1>. QED  BY <1>1, BufferInvariantHolds, PTL

-----------------------------------------------------------------------------
(* The pipeline.                                                           *)

(* The budget is counted in natural numbers.                               *)
LEMMA CountsAreNatural ==
    ASSUME PipelineTypeOK
    PROVE  /\ Cardinality(sending) \in Nat /\ Len(queue) \in Nat
           /\ IsFiniteSet(Busy) /\ Cardinality(Busy) \in Nat
           /\ Cardinality(pending) \in Nat
           /\ InFlight \in Nat
<1>1. IsFiniteSet(Busy)
  BY PipelineAssumption, FS_Subset DEF Busy
<1>2. Cardinality(sending) \in Nat /\ Cardinality(pending) \in Nat /\ Cardinality(Busy) \in Nat
  BY <1>1, FS_CardinalityType DEF PipelineTypeOK
<1>3. Len(queue) \in Nat
  BY LenProperties DEF PipelineTypeOK
<1>. QED BY <1>1, <1>2, <1>3 DEF InFlight

(* Every step of the pipeline is one of the buffer and its workers.        *)
LEMMA PipelineStepOfBuffer ==
    ASSUME PipelineTypeOK, [PipelineNext]_pipelineVars
    PROVE  [Next]_vars
<1>1. CASE Plan
  BY <1>1 DEF Plan
<1>2. ASSUME NEW b \in sending, Send(b)
      PROVE  [Next]_vars
  BY <1>2 DEF Send
<1>3. ASSUME NEW w \in Workers, Recv(w)
      PROVE  [Next]_vars
  BY <1>3 DEF Recv
<1>4. ASSUME NEW w \in Workers, Capture(w)
      PROVE  [Next]_vars
  <2>1. PICK b \in received[w] : PickUp(w, b.height, b.payload)
    BY <1>4 DEF Capture
  <2>2. b.height \in Heights /\ b.payload \in Payloads
    BY <2>1 DEF PipelineTypeOK, Block
  <2>. QED BY <2>1, <2>2 DEF Next
<1>5. ASSUME NEW w \in Workers, TakeCommittable(w)
      PROVE  [Next]_vars
  BY <1>5 DEF TakeCommittable, Next
<1>6. ASSUME NEW h \in Heights, Reorganise(h)
      PROVE  [Next]_vars
  BY <1>6 DEF Reorganise, Next
<1>7. CASE UNCHANGED pipelineVars
  BY <1>7 DEF pipelineVars
<1>. QED BY <1>1, <1>2, <1>3, <1>4, <1>5, <1>6, <1>7 DEF PipelineNext

(* Planning asks for no more than the budget leaves, and what it plans is  *)
(* on its way at once.                                                     *)
LEMMA PlanKeepsInvariant ==
    ASSUME PipelineInvariant, Plan, BufferInvariant'
    PROVE  PipelineInvariant'
<1>. DEFINE budget  == ClampBatch(Limits, BatchSize, InFlight, Cardinality(pending))
            batch   == NextBatch(Skipped, next_height, MaxHeight, budget, NoHeight)
            heights == HeightsIn(Skipped, batch)
            n       == batch.end - batch.start + 1
            new     == {[height |-> heights[i], payload |-> canon[heights[i]]] : i \in DOMAIN heights}
<1>. USE HeightAssumption, GenerationAssumption, MaxU64Assumption, PipelineAssumption
<1>1. /\ Cardinality(sending) \in Nat /\ Len(queue) \in Nat
      /\ IsFiniteSet(Busy) /\ Cardinality(Busy) \in Nat
      /\ Cardinality(pending) \in Nat /\ InFlight \in Nat
  BY CountsAreNatural DEF PipelineInvariant
<1>2. /\ budget \in Nat
      /\ budget <= Limits.queueCapacity - (Cardinality(pending) + InFlight)
  <2>1. Limits.queueCapacity \in Nat /\ Limits.maxInFlight \in Nat
    OBVIOUS
  <2>2. Cardinality(pending) + InFlight <= Limits.queueCapacity
    BY DEF PipelineInvariant, BufferWithinCapacity
  <2>. QED BY <1>1, <2>1, <2>2 DEF ClampBatch, Available, Least, SatSub
<1>3. next_height \in Height /\ MaxHeight \in Height /\ NoHeight \in Height \union {NoHeight}
  BY DEF PipelineInvariant, PipelineTypeOK, Cursor, Height
<1>. HIDE DEF budget
<1>4. /\ ~IsNone(batch) /\ batch.start \in Nat /\ batch.end \in Nat
      /\ next_height <= batch.start /\ batch.start <= batch.end /\ batch.end <= MaxHeight
      /\ n <= budget
      /\ \A k \in next_height..(batch.start - 1) : IsBypassed(Skipped, k)
      /\ \A k \in batch.start..batch.end : ~IsBypassed(Skipped, k)
  <2>1. ~IsNone(batch)
    BY DEF Plan, budget
  <2>. QED BY <1>2, <1>3, <2>1, NextBatchIsExact
<1>5. /\ sending' = sending \union new
      /\ next_height' = batch.end + 1
      /\ UNCHANGED <<vars, queue, received, branch, canon>>
  BY DEF Plan, budget
<1>. HIDE DEF batch
<1>6. heights = [i \in 1..n |-> batch.start + i - 1]
  BY <1>4, HeightsInWhole
<1>. HIDE DEF heights
<1>7. n \in Nat /\ DOMAIN heights = 1..n /\ \A i \in 1..n : heights[i] = batch.start + i - 1
  BY <1>4, <1>6
<1>. HIDE DEF n
<1>8. \A i \in 1..n : heights[i] \in Heights /\ heights[i] >= batch.start /\ heights[i] <= batch.end
  BY <1>4, <1>7 DEF n, Heights
<1>9. new \subseteq Block
  <2>1. \A k \in Heights : canon[k] \in Payloads
    BY DEF PipelineInvariant, PipelineTypeOK
  <2>. QED BY <1>7, <1>8, <2>1 DEF Block
<1>10. IsFiniteSet(new) /\ Cardinality(new) \in Nat /\ Cardinality(new) <= n
  <2>. DEFINE f == [i \in 1..n |-> [height |-> heights[i], payload |-> canon[heights[i]]]]
  <2>1. f \in Surjection(1..n, new)
    BY <1>7 DEF Surjection
  <2>2. ExistsSurjection(1..n, new)
    BY <2>1 DEF ExistsSurjection
  <2>3. IsFiniteSet(new)
    BY <1>7, <2>1, FS_Interval, FS_Surjection
  <2>. QED BY <1>7, <2>2, <2>3, FS_SurjCardinalityBound, FS_CardinalityType
<1>11. /\ IsFiniteSet(sending')
       /\ Cardinality(sending') \in Nat
       /\ Cardinality(sending') <= Cardinality(sending) + n
  <2>1. IsFiniteSet(sending)
    BY DEF PipelineInvariant, PipelineTypeOK
  <2>2. /\ IsFiniteSet(sending \union new)
        /\ Cardinality(sending \union new) =
             Cardinality(sending) + Cardinality(new) - Cardinality(sending \intersect new)
    BY <1>10, <2>1, FS_Union
  <2>3. IsFiniteSet(sending \intersect new) /\ Cardinality(sending \intersect new) \in Nat
    BY <2>1, FS_Intersection, FS_CardinalityType
  <2>4. Cardinality(sending \union new) \in Nat
    BY <2>2, FS_CardinalityType
  <2>. HIDE DEF new
  <2>. QED BY <1>1, <1>5, <1>7, <1>10, <2>2, <2>3, <2>4
<1>. HIDE DEF new
<1>12. PipelineTypeOK'
  <2>1. next_height' \in Cursor
    BY <1>4, <1>5 DEF Cursor
  <2>. QED BY <1>5, <1>9, <1>11, <2>1 DEF PipelineInvariant, PipelineTypeOK, vars
<1>13. OneBlockPerWorker'
  BY <1>5 DEF PipelineInvariant, OneBlockPerWorker, vars
<1>14. BufferWithinCapacity'
  <2>1. /\ pending' = pending /\ queue' = queue /\ Busy' = Busy
    BY <1>5 DEF vars, Busy
  <2>2. /\ InFlight = Cardinality(sending) + Len(queue) + Cardinality(Busy)
        /\ InFlight' = Cardinality(sending') + Len(queue) + Cardinality(Busy)
        /\ Cardinality(pending') = Cardinality(pending)
    BY <2>1 DEF InFlight
  <2>3. n <= Limits.queueCapacity - (Cardinality(pending) + InFlight)
    <3>1. Limits.queueCapacity \in Nat
      OBVIOUS
    <3>. QED BY <1>1, <1>2, <1>4, <1>7, <3>1
  <2>4. Cardinality(pending') + InFlight' <= Limits.queueCapacity
    <3>1. Limits.queueCapacity \in Nat
      OBVIOUS
    <3>. DEFINE sent == Cardinality(sending)
                sent1 == Cardinality(sending')
                rest == Len(queue) + Cardinality(Busy)
                held == Cardinality(pending)
                held1 == Cardinality(pending')
    <3>2. /\ sent \in Nat /\ sent1 \in Nat /\ rest \in Nat /\ held \in Nat /\ n \in Nat
          /\ sent1 <= sent + n /\ held1 = held
      <4>1. /\ Cardinality(sending) \in Nat /\ Len(queue) \in Nat /\ Cardinality(Busy) \in Nat
            /\ Cardinality(pending) \in Nat
        BY <1>1
      <4>. QED BY ONLY <1>7, <1>11, <2>2, <4>1
    <3>3. InFlight = sent + rest /\ InFlight' = sent1 + rest
      BY <1>1, <1>11, <2>2
    <3>. HIDE DEF sent, sent1, rest, held, held1
    <3>4. held1 + (sent1 + rest) <= Limits.queueCapacity
      BY <2>3, <3>1, <3>2, <3>3 DEF held
    <3>. QED BY <3>3, <3>4 DEF held1
  <2>. QED BY <2>4 DEF BufferWithinCapacity
<1>15. NoPlannedBlockLost'
  <2>. SUFFICES ASSUME NEW h \in start..(next_height' - 1), ~IsBypassed(Skipped, h)
                PROVE  \/ h \in HeightsOf(out) \union HeightsOf(pending)
                       \/ \E b \in sending' \union InQueue \union UNION {received[w] : w \in Workers} :
                             b.height = h /\ b.payload = canon[h]
                       \/ \E w \in Workers : \E e \in work[w] :
                             e.height = h /\ e.payload = canon[h] /\ e.gen = generation
    BY <1>5 DEF NoPlannedBlockLost, InQueue, vars
  <2>0. start \in Int /\ next_height \in Int /\ next_height' = batch.end + 1
    BY <1>5 DEF PipelineInvariant, PipelineTypeOK, BufferInvariant, TypeOK, Heights, Cursor
  <2>1. CASE h < next_height
    <3>1. h \in start..(next_height - 1)
      BY <2>0, <2>1
    <3>. QED BY <1>5, <3>1 DEF PipelineInvariant, NoPlannedBlockLost
  <2>2. CASE h >= next_height
    <3>1. h \in batch.start..batch.end
      BY <1>4, <2>0, <2>2
    <3>2. PICK i \in 1..n : h = batch.start + i - 1
      <4>1. h - batch.start + 1 \in 1..n /\ h = batch.start + (h - batch.start + 1) - 1
        BY <1>4, <3>1 DEF n
      <4>. QED BY <4>1
    <3>3. [height |-> h, payload |-> canon[h]] \in new
      BY <1>7, <3>2 DEF new
    <3>. QED BY <1>5, <3>3
  <2>. QED BY <2>0, <2>1, <2>2
<1>. QED BY <1>12, <1>13, <1>14, <1>15 DEF PipelineInvariant

(* A sender that gets its slot only moves its block on.                    *)
LEMMA SendKeepsInvariant ==
    ASSUME PipelineInvariant, NEW b \in sending, Send(b), BufferInvariant'
    PROVE  PipelineInvariant'
<1>1. /\ Cardinality(sending) \in Nat /\ Len(queue) \in Nat
      /\ IsFiniteSet(Busy) /\ Cardinality(Busy) \in Nat
      /\ Cardinality(pending) \in Nat /\ InFlight \in Nat
  BY CountsAreNatural DEF PipelineInvariant
<1>2. /\ queue' = Append(queue, b) /\ sending' = sending \ {b}
      /\ UNCHANGED <<vars, next_height, received, branch, canon>>
  BY DEF Send
<1>3. b \in Block /\ queue \in Seq(Block) /\ sending \subseteq Block /\ IsFiniteSet(sending)
  BY DEF PipelineInvariant, PipelineTypeOK
<1>4. /\ queue' \in Seq(Block) /\ Len(queue') = Len(queue) + 1
      /\ \A i \in 1..Len(queue) : queue'[i] = queue[i]
      /\ queue'[Len(queue) + 1] = b
  BY <1>2, <1>3, AppendProperties
<1>5. IsFiniteSet(sending') /\ Cardinality(sending') = Cardinality(sending) - 1
  BY <1>2, <1>3, FS_RemoveElement
<1>6. PipelineTypeOK'
  BY <1>2, <1>3, <1>4, <1>5 DEF PipelineInvariant, PipelineTypeOK, vars
<1>7. OneBlockPerWorker'
  BY <1>2 DEF PipelineInvariant, OneBlockPerWorker, vars
<1>8. BufferWithinCapacity'
  <2>1. Busy' = Busy /\ pending' = pending
    BY <1>2 DEF Busy, vars
  <2>. QED BY <1>1, <1>4, <1>5, <2>1 DEF PipelineInvariant, BufferWithinCapacity, InFlight
<1>9. sending' \union InQueue' = sending \union InQueue
  <2>1. DOMAIN queue = 1..Len(queue) /\ DOMAIN queue' = 1..(Len(queue) + 1)
    BY <1>3, <1>4, LenProperties
  <2>2. InQueue' = InQueue \union {b}
    <3>1. \A i \in DOMAIN queue' : i \in DOMAIN queue \/ i = Len(queue) + 1
      BY <1>1, <2>1
    <3>2. \A i \in DOMAIN queue : i \in DOMAIN queue'
      BY <1>1, <2>1
    <3>3. Len(queue) + 1 \in DOMAIN queue'
      BY <1>1, <2>1
    <3>. QED BY <1>4, <2>1, <3>1, <3>2, <3>3 DEF InQueue
  <2>. QED BY <1>2, <2>2
<1>10. NoPlannedBlockLost'
  BY <1>2, <1>9 DEF PipelineInvariant, NoPlannedBlockLost, vars
<1>. QED BY <1>6, <1>7, <1>8, <1>10 DEF PipelineInvariant

(* A worker that takes a block occupies the slot the block leaves.         *)
LEMMA RecvKeepsInvariant ==
    ASSUME PipelineInvariant, NEW w \in Workers, Recv(w), BufferInvariant'
    PROVE  PipelineInvariant'
<1>1. /\ Cardinality(sending) \in Nat /\ Len(queue) \in Nat
      /\ IsFiniteSet(Busy) /\ Cardinality(Busy) \in Nat
      /\ Cardinality(pending) \in Nat /\ InFlight \in Nat
  BY CountsAreNatural DEF PipelineInvariant
<1>2. /\ received[w] = {} /\ work[w] = {} /\ queue # <<>>
      /\ received' = [received EXCEPT ![w] = {Head(queue)}]
      /\ queue' = Tail(queue)
      /\ UNCHANGED <<vars, next_height, sending, branch, canon>>
  BY DEF Recv
<1>3. queue \in Seq(Block) /\ received \in [Workers -> SUBSET Block]
  BY DEF PipelineInvariant, PipelineTypeOK
<1>4. /\ Head(queue) \in Block /\ queue' \in Seq(Block) /\ Len(queue') = Len(queue) - 1
      /\ \A i \in 1..Len(queue') : queue'[i] = queue[i+1]
      /\ Head(queue) = queue[1]
  BY <1>2, <1>3, HeadTailProperties
<1>5. /\ received' \in [Workers -> SUBSET Block]
      /\ received'[w] = {Head(queue)}
      /\ \A v \in Workers \ {w} : received'[v] = received[v]
  BY <1>2, <1>3, <1>4
<1>6. PipelineTypeOK'
  BY <1>2, <1>4, <1>5 DEF PipelineInvariant, PipelineTypeOK, vars
<1>7. OneBlockPerWorker'
  BY <1>2, <1>5 DEF PipelineInvariant, OneBlockPerWorker, vars
<1>8. BufferWithinCapacity'
  <2>1. Busy' = Busy \union {w} /\ w \notin Busy
    BY <1>2, <1>5 DEF Busy, vars
  <2>2. Cardinality(Busy') = Cardinality(Busy) + 1
    BY <1>1, <2>1, FS_AddElement
  <2>3. pending' = pending /\ sending' = sending
    BY <1>2 DEF vars
  <2>. QED BY <1>1, <1>4, <2>2, <2>3 DEF PipelineInvariant, BufferWithinCapacity, InFlight
<1>9. \A b \in InQueue \union UNION {received[v] : v \in Workers} :
         b \in InQueue' \union UNION {received'[v] : v \in Workers}
  <2>1. DOMAIN queue = 1..Len(queue) /\ DOMAIN queue' = 1..(Len(queue) - 1)
    BY <1>3, <1>4, LenProperties
  <2>2. ASSUME NEW i \in DOMAIN queue, i # 1
        PROVE  queue[i] \in InQueue'
    <3>1. i - 1 \in DOMAIN queue' /\ queue'[i-1] = queue[i]
      BY <1>1, <1>4, <2>1, <2>2
    <3>. QED BY <3>1 DEF InQueue
  <2>3. \A b \in InQueue : b \in InQueue' \/ b = Head(queue)
    BY <1>4, <2>2 DEF InQueue
  <2>. QED BY <1>2, <1>5, <2>3
<1>10. NoPlannedBlockLost'
  BY <1>2, <1>9 DEF PipelineInvariant, NoPlannedBlockLost, vars
<1>. QED BY <1>6, <1>7, <1>8, <1>10 DEF PipelineInvariant

(* The worker captures the current generation and keeps the block.         *)
LEMMA CaptureKeepsInvariant ==
    ASSUME PipelineInvariant, NEW w \in Workers, Capture(w), BufferInvariant'
    PROVE  PipelineInvariant'
<1>1. PICK b \in received[w] : PickUp(w, b.height, b.payload)
  BY DEF Capture
<1>. DEFINE e == [height |-> b.height, gen |-> generation, payload |-> b.payload]
<1>2. /\ received' = [received EXCEPT ![w] = {}]
      /\ UNCHANGED <<next_height, sending, queue, branch, canon>>
  BY DEF Capture
<1>3. /\ work[w] = {} /\ work' = [work EXCEPT ![w] = {e}]
      /\ UNCHANGED bufferVars
  BY <1>1 DEF PickUp
<1>4. received \in [Workers -> SUBSET Block] /\ work \in [Workers -> SUBSET Entry]
  BY DEF PipelineInvariant, PipelineTypeOK, BufferInvariant, TypeOK
<1>5. /\ received' \in [Workers -> SUBSET Block]
      /\ received'[w] = {} /\ work'[w] = {e}
      /\ \A v \in Workers \ {w} : received'[v] = received[v] /\ work'[v] = work[v]
  BY <1>2, <1>3, <1>4
<1>6. received[w] = {b}
  BY <1>1, <1>3 DEF PipelineInvariant, OneBlockPerWorker
<1>. HIDE DEF e
<1>7. PipelineTypeOK'
  BY <1>2, <1>3, <1>5 DEF PipelineInvariant, PipelineTypeOK, bufferVars
<1>8. OneBlockPerWorker'
  <2>1. ASSUME NEW v \in Workers, v # w
        PROVE  received'[v] = received[v] /\ work'[v] = work[v]
    BY <1>5, <2>1
  <2>. QED BY <1>5, <2>1 DEF PipelineInvariant, OneBlockPerWorker
<1>9. BufferWithinCapacity'
  <2>1. Busy' = Busy
    BY <1>1, <1>5 DEF Busy
  <2>. QED BY <1>2, <1>3, <2>1 DEF PipelineInvariant, BufferWithinCapacity, InFlight, bufferVars
<1>10. NoPlannedBlockLost'
  <2>. SUFFICES ASSUME NEW h \in start..(next_height - 1), ~IsBypassed(Skipped, h),
                       h \notin HeightsOf(out) \union HeightsOf(pending)
                PROVE  \/ \E c \in sending \union InQueue \union UNION {received'[v] : v \in Workers} :
                             c.height = h /\ c.payload = canon[h]
                       \/ \E v \in Workers : \E f \in work'[v] :
                             f.height = h /\ f.payload = canon[h] /\ f.gen = generation
    BY <1>2, <1>3 DEF NoPlannedBlockLost, InQueue, bufferVars
  <2>1. CASE b.height = h /\ b.payload = canon[h]
    <3>1. e.height = h /\ e.payload = canon[h] /\ e.gen = generation
      BY <2>1 DEF e
    <3>2. e \in work'[w]
      BY <1>5
    <3>. QED BY <3>1, <3>2
  <2>2. CASE \E c \in sending \union InQueue \union UNION {received[v] : v \in Workers} :
                c # b /\ c.height = h /\ c.payload = canon[h]
    <3>1. PICK c \in sending \union InQueue \union UNION {received[v] : v \in Workers} :
                c # b /\ c.height = h /\ c.payload = canon[h]
      BY <2>2
    <3>2. CASE c \in UNION {received[v] : v \in Workers}
      <4>1. PICK v \in Workers : c \in received[v]
        BY <3>2
      <4>. QED BY <1>5, <1>6, <3>1, <4>1
    <3>. QED BY <3>1, <3>2
  <2>3. CASE \E v \in Workers : \E f \in work[v] :
                f.height = h /\ f.payload = canon[h] /\ f.gen = generation
    <3>1. PICK v \in Workers : \E f \in work[v] :
                f.height = h /\ f.payload = canon[h] /\ f.gen = generation
      BY <2>3
    <3>2. v # w /\ work'[v] = work[v]
      BY <1>3, <1>5, <3>1
    <3>. QED BY <3>1, <3>2
  <2>. QED BY <2>1, <2>2, <2>3 DEF PipelineInvariant, NoPlannedBlockLost
<1>. QED BY <1>7, <1>8, <1>9, <1>10 DEF PipelineInvariant

(* A worker that hands its output back is free again: at most one block    *)
(* more is held, one block less is in flight.                              *)
LEMMA TakeCommittableKeepsInvariant ==
    ASSUME PipelineInvariant, NEW w \in Workers, TakeCommittable(w), BufferInvariant'
    PROVE  PipelineInvariant'
<1>1. /\ Cardinality(sending) \in Nat /\ Len(queue) \in Nat
      /\ IsFiniteSet(Busy) /\ Cardinality(Busy) \in Nat
      /\ Cardinality(pending) \in Nat /\ InFlight \in Nat
  BY CountsAreNatural DEF PipelineInvariant
<1>2. PICK e \in work[w] : CompleteFrom(e)
  BY DEF TakeCommittable, Complete
<1>3. work' = [work EXCEPT ![w] = {}] /\ UNCHANGED planVars
  BY DEF TakeCommittable, Complete
<1>4. work \in [Workers -> SUBSET Entry]
  BY DEF PipelineInvariant, BufferInvariant, TypeOK
<1>5. work'[w] = {} /\ \A v \in Workers \ {w} : work'[v] = work[v]
  BY <1>3, <1>4
<1>6. received[w] = {} /\ work[w] = {e}
  BY <1>2 DEF PipelineInvariant, OneBlockPerWorker
<1>7. /\ IsFiniteSet(pending')
      /\ Cardinality(pending') \in Nat
      /\ Cardinality(pending') <= Cardinality(pending) + 1
  <2>1. IsFiniteSet(pending)
    BY DEF PipelineInvariant, PipelineTypeOK
  <2>2. /\ IsFiniteSet(pending \union {e})
        /\ Cardinality(pending \union {e}) \in Nat
        /\ Cardinality(pending \union {e}) <= Cardinality(pending) + 1
    <3>1. /\ IsFiniteSet(pending \union {e})
          /\ Cardinality(pending \union {e}) =
               IF e \in pending THEN Cardinality(pending) ELSE Cardinality(pending) + 1
      BY <2>1, FS_AddElement
    <3>. QED BY <1>1, <3>1
  <2>3. pending' \subseteq pending \union {e}
    BY <1>2 DEF CompleteFrom, Release, Inserted
  <2>4. IsFiniteSet(pending') /\ Cardinality(pending') <= Cardinality(pending \union {e})
    BY <2>2, <2>3, FS_Subset
  <2>. QED BY <1>1, <2>2, <2>4, FS_CardinalityType
<1>8. PipelineTypeOK'
  <2>1. generation' = generation
    BY <1>2 DEF CompleteFrom
  <2>. QED BY <1>3, <1>7, <2>1 DEF PipelineInvariant, PipelineTypeOK, planVars
<1>9. OneBlockPerWorker'
  <2>1. ASSUME NEW v \in Workers, v # w
        PROVE  received'[v] = received[v] /\ work'[v] = work[v]
    BY <1>3, <1>5, <2>1 DEF planVars
  <2>2. received'[w] = {} /\ work'[w] = {}
    BY <1>3, <1>5, <1>6 DEF planVars
  <2>. QED BY <2>1, <2>2 DEF PipelineInvariant, OneBlockPerWorker
<1>10. BufferWithinCapacity'
  <2>1. Busy' = Busy \ {w} /\ w \in Busy
    BY <1>3, <1>5, <1>6 DEF Busy, planVars
  <2>2. Cardinality(Busy') = Cardinality(Busy) - 1
    BY <1>1, <2>1, FS_RemoveElement
  <2>3. sending' = sending /\ queue' = queue
    BY <1>3 DEF planVars
  <2>4. Limits.queueCapacity \in Nat
    BY PipelineAssumption
  <2>5. /\ InFlight = Cardinality(sending) + Len(queue) + Cardinality(Busy)
        /\ InFlight' = Cardinality(sending) + Len(queue) + Cardinality(Busy')
    BY <2>3 DEF InFlight
  <2>6. /\ Cardinality(sending) \in Nat /\ Len(queue) \in Nat /\ Cardinality(Busy) \in Nat
        /\ Cardinality(pending) \in Nat
        /\ Cardinality(pending) + InFlight <= Limits.queueCapacity
    BY <1>1 DEF PipelineInvariant, BufferWithinCapacity
  <2>7. Cardinality(pending') \in Nat /\ Cardinality(pending') <= Cardinality(pending) + 1
    BY <1>7
  <2>8. Cardinality(pending') + InFlight' <= Limits.queueCapacity
    <3>. DEFINE sent == Cardinality(sending)
                queued == Len(queue)
                busy == Cardinality(Busy)
                held == Cardinality(pending)
                held1 == Cardinality(pending')
                capacity == Limits.queueCapacity
    <3>1. /\ sent \in Nat /\ queued \in Nat /\ busy \in Nat /\ held \in Nat /\ held1 \in Nat
          /\ capacity \in Nat /\ held1 <= held + 1
          /\ held + (sent + queued + busy) <= capacity
      BY <2>4, <2>5, <2>6, <2>7
    <3>2. InFlight' = sent + queued + (busy - 1)
      BY <2>2, <2>5
    <3>. HIDE DEF sent, queued, busy, held, held1, capacity
    <3>3. held1 + (sent + queued + (busy - 1)) <= capacity
      BY ONLY <3>1
    <3>. QED BY <3>2, <3>3 DEF held1, capacity
  <2>. QED BY <2>8 DEF BufferWithinCapacity
<1>11. NoPlannedBlockLost'
  <2>1. /\ completed = HeightsOf(out) \union HeightsOf(pending)
        /\ completed' = HeightsOf(out') \union HeightsOf(pending')
    BY DEF PipelineInvariant, BufferInvariant, RunReleased
  <2>2. /\ start' = start /\ generation' = generation
        /\ completed \subseteq completed'
        /\ e.gen = generation /\ e.height >= start => e.height \in completed'
    BY <1>2 DEF CompleteFrom
  <2>. SUFFICES ASSUME NEW h \in start..(next_height - 1), ~IsBypassed(Skipped, h),
                       h \notin completed'
                PROVE  \/ \E b \in sending \union InQueue \union UNION {received[v] : v \in Workers} :
                             b.height = h /\ b.payload = canon[h]
                       \/ \E v \in Workers : \E f \in work'[v] :
                             f.height = h /\ f.payload = canon[h] /\ f.gen = generation
    BY <1>3, <2>1, <2>2 DEF NoPlannedBlockLost, InQueue, planVars
  <2>3. CASE \E b \in sending \union InQueue \union UNION {received[v] : v \in Workers} :
                b.height = h /\ b.payload = canon[h]
    BY <2>3
  <2>4. CASE \E v \in Workers : \E f \in work[v] :
                f.height = h /\ f.payload = canon[h] /\ f.gen = generation
    <3>1. PICK v \in Workers : \E f \in work[v] :
                f.height = h /\ f.payload = canon[h] /\ f.gen = generation
      BY <2>4
    <3>2. v # w
      <4>. SUFFICES ASSUME v = w PROVE FALSE
        OBVIOUS
      <4>1. e.height = h /\ e.gen = generation
        BY <1>6, <3>1
      <4>2. e.height >= start
        BY <4>1 DEF PipelineInvariant, PipelineTypeOK, BufferInvariant, TypeOK
      <4>. QED BY <2>2, <4>1, <4>2
    <3>3. work'[v] = work[v]
      BY <1>5, <3>2
    <3>. QED BY <3>1, <3>3
  <2>5. h \notin completed
    BY <2>2
  <2>. QED BY <2>1, <2>3, <2>4, <2>5 DEF PipelineInvariant, NoPlannedBlockLost
<1>. QED BY <1>8, <1>9, <1>10, <1>11 DEF PipelineInvariant

(* A reorganisation forgets the queue, the buffer and the plan together.   *)
LEMMA ReorganiseKeepsInvariant ==
    ASSUME PipelineInvariant, NEW h \in Heights, Reorganise(h), BufferInvariant'
    PROVE  PipelineInvariant'
<1>. USE HeightAssumption, GenerationAssumption
<1>1. /\ Cardinality(sending) \in Nat /\ Len(queue) \in Nat
      /\ IsFiniteSet(Busy) /\ Cardinality(Busy) \in Nat
      /\ Cardinality(pending) \in Nat /\ InFlight \in Nat
  BY CountsAreNatural DEF PipelineInvariant
<1>2. /\ queue' = <<>> /\ next_height' = h /\ branch' = branch + 1
      /\ canon' = [k \in Heights |-> IF k >= h THEN branch + 1 ELSE canon[k]]
      /\ UNCHANGED <<sending, received>>
  BY DEF Reorganise
<1>3. /\ generation < MaxGeneration /\ generation' = generation + 1
      /\ pending' = {} /\ start' = h
      /\ UNCHANGED work
  BY DEF Reorganise, ResetTo
<1>4. PipelineTypeOK'
  <2>1. branch' \in 0..MaxGeneration /\ branch' = generation'
    BY <1>2, <1>3 DEF PipelineInvariant, PipelineTypeOK
  <2>2. canon' \in [Heights -> 0..MaxGeneration]
    BY <1>2, <2>1 DEF PipelineInvariant, PipelineTypeOK
  <2>3. next_height' \in Cursor
    BY <1>2 DEF Heights, Cursor
  <2>4. queue' \in Seq(Block)
    BY <1>2, EmptySeq
  <2>5. IsFiniteSet(pending')
    BY <1>3, FS_EmptySet
  <2>. QED BY <1>2, <2>1, <2>2, <2>3, <2>4, <2>5 DEF PipelineInvariant, PipelineTypeOK
<1>5. OneBlockPerWorker'
  BY <1>2, <1>3 DEF PipelineInvariant, OneBlockPerWorker
<1>6. BufferWithinCapacity'
  <2>1. Busy' = Busy /\ sending' = sending
    BY <1>2, <1>3 DEF Busy
  <2>2. Len(queue') = 0 /\ Cardinality(pending') = 0
    BY <1>2, <1>3, EmptySeq, FS_EmptySet
  <2>3. Limits.queueCapacity \in Nat
    BY PipelineAssumption
  <2>. QED BY <1>1, <2>1, <2>2, <2>3 DEF PipelineInvariant, BufferWithinCapacity, InFlight
<1>7. NoPlannedBlockLost'
  <2>1. start'..(next_height' - 1) = {}
    BY <1>2, <1>3 DEF Heights
  <2>. QED BY <2>1 DEF NoPlannedBlockLost
<1>. QED BY <1>4, <1>5, <1>6, <1>7 DEF PipelineInvariant

(* Every step of the pipeline preserves the invariant.                     *)
LEMMA PipelineInvariantStep ==
    PipelineInvariant /\ [PipelineNext]_pipelineVars => PipelineInvariant'
<1>. SUFFICES ASSUME PipelineInvariant, [PipelineNext]_pipelineVars PROVE PipelineInvariant'
  OBVIOUS
<1>0. BufferInvariant'
  <2>1. [Next]_vars
    BY PipelineStepOfBuffer DEF PipelineInvariant
  <2>. QED BY <2>1, BufferInvariantStep DEF PipelineInvariant
<1>1. CASE Plan
  BY <1>0, <1>1, PlanKeepsInvariant
<1>2. ASSUME NEW b \in sending, Send(b)
      PROVE  PipelineInvariant'
  BY <1>0, <1>2, SendKeepsInvariant
<1>3. ASSUME NEW w \in Workers, Recv(w)
      PROVE  PipelineInvariant'
  BY <1>0, <1>3, RecvKeepsInvariant
<1>4. ASSUME NEW w \in Workers, Capture(w)
      PROVE  PipelineInvariant'
  BY <1>0, <1>4, CaptureKeepsInvariant
<1>5. ASSUME NEW w \in Workers, TakeCommittable(w)
      PROVE  PipelineInvariant'
  BY <1>0, <1>5, TakeCommittableKeepsInvariant
<1>6. ASSUME NEW h \in Heights, Reorganise(h)
      PROVE  PipelineInvariant'
  BY <1>0, <1>6, ReorganiseKeepsInvariant
<1>7. CASE UNCHANGED pipelineVars
  BY <1>0, <1>7 DEF pipelineVars, planVars, vars, PipelineInvariant, PipelineTypeOK,
                    OneBlockPerWorker, NoPlannedBlockLost, BufferWithinCapacity,
                    InFlight, Busy, InQueue
<1>. QED BY <1>1, <1>2, <1>3, <1>4, <1>5, <1>6, <1>7 DEF PipelineNext

(* The invariant holds when nothing is planned yet.                        *)
LEMMA PipelineStartsWell ==
    ASSUME PipelineInit
    PROVE  Init /\ PipelineInvariant
<1>. USE HeightAssumption, GenerationAssumption, PipelineAssumption
<1>1. Init
  BY DEF PipelineInit, Init, Heights
<1>2. BufferInvariant
  <2>1. HeightsOf(out) = {} /\ HeightsOf(pending) = {} /\ 0..(0 - 1) = {}
    BY DEF PipelineInit, BufferInit, HeightsOf
  <2>2. TypeOK
    BY DEF PipelineInit, BufferInit, WorkersInit, TypeOK, Cursor, Heights
  <2>3. RunReleased
    BY <2>1 DEF PipelineInit, BufferInit, RunReleased
  <2>4. OnlyCurrentGeneration
    BY DEF PipelineInit, BufferInit, OnlyCurrentGeneration
  <2>. QED BY <2>2, <2>3, <2>4 DEF BufferInvariant
<1>3. IsFiniteSet({}) /\ Cardinality({}) = 0 /\ <<>> \in Seq(Block) /\ Len(<<>>) = 0
  BY FS_EmptySet, EmptySeq
<1>4. PipelineTypeOK
  BY <1>3 DEF PipelineInit, BufferInit, PipelineTypeOK, Cursor, Heights
<1>5. OneBlockPerWorker
  BY DEF PipelineInit, WorkersInit, OneBlockPerWorker
<1>6. NoPlannedBlockLost
  <2>1. start..(next_height - 1) = {}
    BY DEF PipelineInit, BufferInit
  <2>. QED BY <2>1 DEF NoPlannedBlockLost
<1>7. BufferWithinCapacity
  <2>1. Busy = {}
    BY DEF PipelineInit, WorkersInit, Busy
  <2>2. sending = {} /\ queue = <<>> /\ pending = {}
    BY DEF PipelineInit, BufferInit
  <2>. QED BY <1>3, <2>1, <2>2 DEF BufferWithinCapacity, InFlight
<1>. QED BY <1>1, <1>2, <1>4, <1>5, <1>6, <1>7 DEF PipelineInvariant

(* The invariant holds of every reachable state of the pipeline.           *)
LEMMA PipelineInvariantHolds == PipelineSpec => []PipelineInvariant
  BY PipelineStartsWell, PipelineInvariantStep, PTL DEF PipelineSpec

(* The pipeline uses the reorder buffer as its specification allows: the   *)
(* queue, the planner and the reorganisations in front of it never make a  *)
(* step that the workers and reset_to could not make.                      *)
THEOREM PipelineImplementsBuffer == PipelineSpec => Spec
<1>1. PipelineInvariant /\ [PipelineNext]_pipelineVars => [Next]_vars
  BY PipelineStepOfBuffer DEF PipelineInvariant
<1>. QED BY <1>1, PipelineStartsWell, PipelineInvariantHolds, PTL DEF PipelineSpec, Spec

(* So it releases exactly the longest run of what completed.               *)
THEOREM PipelineReleasesLongestRun == PipelineSpec => []ReleasedIsLongestRun
  BY PipelineImplementsBuffer, BufferReleasesLongestRun, PTL

(* And nothing captured before a reorganisation is released after it.      *)
THEOREM PipelineDropsOldGenerations == PipelineSpec => []OnlyCurrentGeneration
  BY PipelineImplementsBuffer, BufferDropsOldGenerations, PTL

(* No block planned since the last reset is lost, whichever task holds it  *)
(* and however the workers, the senders and the resets interleave.         *)
THEOREM PipelineLosesNoBlock == PipelineSpec => []NoPlannedBlockLost
<1>1. PipelineInvariant => NoPlannedBlockLost
  BY DEF PipelineInvariant
<1>. QED BY <1>1, PipelineInvariantHolds, PTL

(* Backpressure bounds memory: what is in flight and what the buffer holds *)
(* never exceed the queue capacity of the limits.                          *)
THEOREM PipelineStaysWithinCapacity == PipelineSpec => []BufferWithinCapacity
<1>1. PipelineInvariant => BufferWithinCapacity
  BY DEF PipelineInvariant
<1>. QED BY <1>1, PipelineInvariantHolds, PTL
=============================================================================
