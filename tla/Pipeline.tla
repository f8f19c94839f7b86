------------------------------ MODULE Pipeline ------------------------------
(***************************************************************************)
(* The dispatch pipeline: planned blocks go through the bounded queue      *)
(* (crates/dispatcher/src/queue.rs) to the workers, and back through       *)
(* TokioDispatcher to the reorder buffer (OrderedCommitBuffer.tla).        *)
(*                                                                         *)
(* The task that will drive the parts is not written yet (dispatcher.rs,   *)
(* "Milestone").  The composition here is the one the repository has,      *)
(* tests/integration/pipeline_ordering.rs: the planner spends what         *)
(* Backpressure leaves of the blocks in flight and the blocks held, and a  *)
(* worker calls recv(), then generation(), then take_committable().        *)
(* A reorganisation drains the queue and resets the buffer and the plan;   *)
(* a fetcher waiting in send(), and a worker holding a block, go on.       *)
(***************************************************************************)
EXTENDS OrderedCommitBuffer, RangePlan

CONSTANTS QueueCapacity, \* of the channel
          Limits,        \* the planner's Backpressure
          BatchSize,
          Skipped        \* the plan: the bypassed spans

ASSUME QueueAssumption == QueueCapacity \in Nat \ {0}

(* The heights and sizes are of the types the code gives them, the bound   *)
(* lies below u64::MAX, and a payload is the branch of a block.            *)
ASSUME PipelineAssumption ==
    /\ IsFiniteSet(Workers)
    /\ 0..MaxGeneration \subseteq Payloads
    /\ MaxHeight < MaxU64
    /\ Limits \in [maxInFlight : Nat, queueCapacity : Nat]
    /\ BatchSize \in Nat
    /\ Skipped \in Plans

Block == [height : Heights, payload : Payloads]

VARIABLES
    next_height,  \* where the planner stands
    sending,      \* fetched blocks whose fetcher waits in send()
    queue,        \* the channel
    received,     \* per worker: a block taken before generation() was read
    branch,       \* the number of reorganisations so far
    canon         \* per height: the branch its canonical block came with

planVars  == <<next_height, sending, queue, received, branch, canon>>
pipelineVars == <<vars, planVars>>

InQueue == {queue[i] : i \in DOMAIN queue}
WithWorkers == UNION {received[w] \union work[w] : w \in Workers}
Busy == {w \in Workers : received[w] \union work[w] # {}}
InFlight == Cardinality(sending) + Len(queue) + Cardinality(Busy)

PipelineInit ==
    /\ BufferInit(0) /\ WorkersInit
    /\ next_height = 0
    /\ sending = {}
    /\ queue = <<>>
    /\ received = [w \in Workers |-> {}]
    /\ branch = 0
    /\ canon = [h \in Heights |-> 0]

(* Plan a batch within the budget and fetch its blocks.                    *)
Plan ==
    LET budget  == ClampBatch(Limits, BatchSize, InFlight, Cardinality(pending))
        batch   == NextBatch(Skipped, next_height, MaxHeight, budget, NoHeight)
        heights == HeightsIn(Skipped, batch)
    IN  /\ ~IsNone(batch)
        /\ sending' = sending \union
              {[height |-> heights[i], payload |-> canon[heights[i]]] : i \in DOMAIN heights}
        /\ next_height' = batch.end + 1
        /\ UNCHANGED <<vars, queue, received, branch, canon>>

(* QueueSender::send waits for a free slot; fetchers race for it.          *)
Send(b) ==
    /\ Len(queue) < QueueCapacity
    /\ queue' = Append(queue, b)
    /\ sending' = sending \ {b}
    /\ UNCHANGED <<vars, next_height, received, branch, canon>>

(* QueueReceiver::recv: the block carries no generation.                   *)
Recv(w) ==
    /\ received[w] = {} /\ work[w] = {} /\ queue # <<>>
    /\ received' = [received EXCEPT ![w] = {Head(queue)}]
    /\ queue' = Tail(queue)
    /\ UNCHANGED <<vars, next_height, sending, branch, canon>>

(* TokioDispatcher::generation, a call of its own.                         *)
Capture(w) ==
    /\ \E b \in received[w] : PickUp(w, b.height, b.payload)
    /\ received' = [received EXCEPT ![w] = {}]
    /\ UNCHANGED <<next_height, sending, queue, branch, canon>>

(* TokioDispatcher::take_committable.                                      *)
TakeCommittable(w) == Complete(w) /\ UNCHANGED planVars

(* Mutant: the plan is not rewound with the buffer.                        *)
ReorganiseKeepsPlan(h) ==
    /\ h <= next_expected
    /\ ResetTo(h)
    /\ queue' = <<>>
    /\ branch' = branch + 1
    /\ canon' = [k \in Heights |-> IF k >= h THEN branch + 1 ELSE canon[k]]
    /\ UNCHANGED <<next_height, sending, received>>

(* The blocks from h on are replaced: QueueReceiver::drain, reset_to, and  *)
(* the plan resumes at h.                                                  *)
Reorganise(h) ==
    /\ h <= next_expected
    /\ ResetTo(h)
    /\ queue' = <<>>
    /\ next_height' = h
    /\ branch' = branch + 1
    /\ canon' = [k \in Heights |-> IF k >= h THEN branch + 1 ELSE canon[k]]
    /\ UNCHANGED <<sending, received>>

Worker(w) == Recv(w) \/ Capture(w) \/ TakeCommittable(w)

PipelineNext ==
    \/ Plan
    \/ \E b \in sending : Send(b)
    \/ \E w \in Workers : Recv(w) \/ Capture(w) \/ TakeCommittable(w)
    \/ \E h \in Heights : Reorganise(h)

PipelineSpec == PipelineInit /\ [][PipelineNext]_pipelineVars

(* The planner and each worker are Tokio tasks that are polled again, and  *)
(* the channel serves waiting senders first come first served.             *)
FairPipelineSpec ==
    /\ PipelineSpec
    /\ WF_pipelineVars(Plan)
    /\ \A b \in Block : WF_pipelineVars(b \in sending /\ Send(b))
    /\ \A w \in Workers : WF_pipelineVars(Worker(w))

-----------------------------------------------------------------------------
(* No planned block is lost: each height planned since the last reset has  *)
(* been released, or is held, or is still on its way under the current     *)
(* generation, whichever task holds it and whatever the reset threw away.  *)
NoPlannedBlockLost ==
    \A h \in start..(next_height - 1) :
        \/ IsBypassed(Skipped, h)
        \/ h \in HeightsOf(out) \union HeightsOf(pending)
        \/ \E b \in sending \union InQueue \union UNION {received[w] : w \in Workers} :
              b.height = h /\ b.payload = canon[h]
        \/ \E w \in Workers : \E e \in work[w] :
              e.height = h /\ e.payload = canon[h] /\ e.gen = generation

(* Backpressure bounds memory: the blocks in flight and the blocks the     *)
(* reorder buffer holds never exceed the capacity, resets included, even   *)
(* while the block everything waits for is the slowest.                    *)
BufferWithinCapacity ==
    Cardinality(pending) + InFlight <= Limits.queueCapacity

(* What the two need besides: the parts are well formed ...                *)
PipelineTypeOK ==
    /\ next_height \in Cursor
    /\ sending \subseteq Block /\ IsFiniteSet(sending)
    /\ queue \in Seq(Block)
    /\ received \in [Workers -> SUBSET Block]
    /\ branch \in 0..MaxGeneration /\ branch = generation
    /\ canon \in [Heights -> 0..MaxGeneration]
    /\ IsFiniteSet(pending)

(* ... and a worker holds one block at a time, before or after it captured *)
(* the generation.                                                         *)
OneBlockPerWorker ==
    \A w \in Workers :
        \/ received[w] = {} /\ work[w] = {}
        \/ work[w] = {} /\ \E b \in received[w] : received[w] = {b}
        \/ received[w] = {} /\ \E e \in work[w] : work[w] = {e}

PipelineInvariant ==
    /\ BufferInvariant
    /\ PipelineTypeOK
    /\ OneBlockPerWorker
    /\ NoPlannedBlockLost
    /\ BufferWithinCapacity

(* The buffer never waits for a block that nobody will bring: the expected *)
(* height is still to be planned, or is on its way.                        *)
NeverStalls ==
    pending # {} =>
        \/ next_expected >= next_height
        \/ \E b \in sending \union InQueue \union WithWorkers : b.height = next_expected

(* Whatever is released was fetched from the canonical branch: height      *)
(* alone cannot tell two branches apart, the generation must.              *)
ReleasedIsCanonical == \A e \in out : e.payload = canon[e.height]

(* Every block is released in the end: a full queue, a full budget and a   *)
(* reset in the middle of the work never leave the pipeline stuck.         *)
EverythingReleased == <>[](next_expected = MaxHeight + 1)
=============================================================================
