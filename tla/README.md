# A TLA+ model of superquery-node

This directory holds TLA+ specifications of the parts of superquery-node that
carry its correctness: planning and fetching blocks, journaling them in
PostgreSQL, putting concurrently processed blocks back into order, and turning
them into entities that survive failures and reorganisations. Small
instances are checked with TLC; the main safety results are proved with TLAPS
for every value of the constants. Source paths below are relative to the
repository root.

## The system

| Part | Source | State | Operations |
|---|---|---|---|
| Fetch planning | `crates/core/src/fetch/range.rs`, `backpressure.rs` | bypassed spans, limits | `next_batch`, `heights_in`, `safe_head`, `available`, `clamp_batch` |
| Fetch scheduler | `crates/core/src/fetch/scheduler.rs` | `next_height`, `exhausted`, `pending` | `resume_from`, `next_heights`, `acknowledge`, `is_complete`, `fetch_next`, `run` |
| Ingestion journal | `crates/store/src/ingestion.rs` | table of headers, table lock, open transactions | `ensure_table`, `load`, `commit` |
| Ingestion node | `bins/superquery-node/src/{ingest,main,shutdown}.rs` | scheduler, loaded row, shutdown token | restart check, `run`, `Sink::accept`, signals |
| EVM adapter, RPC client | `crates/chains/evm/src/{adapter,rpc,decode}.rs` | none between requests | `latest_height`, `finalized_height`, `header_at`, `fetch_block`, retries |
| Reorder buffer | `crates/dispatcher/src/ordered_commit.rs` | `next_expected`, `pending`, `generation` | `complete_from`, `reset_to` |
| Dispatcher | `crates/dispatcher/src/{dispatcher,queue,worker,limits}.rs` | bounded queue, the buffer behind a mutex | `send`, `recv`, `drain`, `generation`, `take_committable`, `reset_to` |
| Finality tracker | `crates/core/src/finality/*.rs` | finalized height | `refresh`, `check`, `find_common_ancestor` |
| Checkpoint store | `crates/store/src/checkpoint.rs` | header table, checkpoint | `commit_tx`, `load`, `headers_descending`, `truncate_above_tx`, `prune_below` |
| Metadata, startup | `crates/store/src/{metadata,migration}.rs`, `bins/superquery-node/src/{startup,main}.rs` | key-value facts, table lock | `bootstrap`, `resume_position`, `verify_facts`, `set`, `initialize_schema` |
| Entity store, rewind | `crates/store/src/{entity,rewind,schema,ddl,naming}.rs` | entity tables, rows with block ranges | `parse_entities`, `create_tables`, `upsert`, `remove`, `get`, `get_by_fields`, `dump_canonical`, rewind SQL |
| Filters, handlers | `crates/chains/evm/src/{filter,project,block}.rs`, `adapter.rs` | prepared handlers, fixed at start | `prepare_handlers`, `matching_inputs`, `decode_events`, `event_matches` |
| Data sources, height map | `crates/core/src/project/*.rs` | ranges, a map from heights | `is_active_at`, `get`, `get_details`, `get_within_range` |
| Runtime host | `crates/runtime/src/{host,runtime,abi}.rs` | a block's context: buffered operations | module checks, `store_set`, `store_remove`, `take_operations` |
| Configuration | `crates/config/src/*.rs`, `startup.rs` | flags, project directory, database settings | `validate`, `load`, `resolve`, `validate_endpoint` |

How they interact today (`--ingest-only`): `main` checks the configuration and the
chain of the endpoints, binds the schema to the project, loads the journal's last row,
checks it against the chain, positions a `FetchScheduler` after it, and runs the loop.
The loop asks the adapter for a safe head, plans a batch, fetches it concurrently, and
hands the blocks one by one to `Sink::accept`, which commits each header in a
transaction; only then is the height acknowledged. The dispatcher, the tracker, the
host context and the entity store exist as libraries: the task that will drive them is
not written (`dispatcher.rs`, "Milestone"), and `main` refuses to run without
`--ingest-only`.

What is hard about it: a crash or a lost answer between COMMIT and the
acknowledgement; two nodes on one schema; the chain reorganizing between any two
requests, and endpoints disagreeing about it; a shutdown signal while an endpoint
hangs; arithmetic at `u64::MAX`; completions of a reorder buffer in any order and
across resets; memory budgets and gaps that leave everyone waiting; a block stored one
statement at a time and tried again; a rewind of two statements that is cut short;
filters over values with several spellings. The hazards,
line by line with the properties that cover them, are in `PROJECT.json`.

What makes the parts correct:

- the scheduler neither skips a wanted height nor reports completion early,
  whatever fails or is cancelled;
- the journal is one contiguous hash chain, and success means durable;
- the node journals finalized blocks only and its cursor never passes the journal;
- the reorder buffer releases the longest completed run of the current
  generation, exactly once, independently of the arrival order;
- the pipeline loses no block, stays within its budget and never stalls;
- the header table and the checkpoint stay one branch, and the comparison walk finds
  the fork it is there to find, never a block above it;
- a request is answered by an endpoint of the right chain or fails after every
  endpoint in reach was asked;
- a schema has one identity, stamped whole and never changed, and no node reaches it
  without a range to ingest;
- the entities are what the indexed blocks mean, one whole block after the other, and
  every height that stands reads as it did when it was indexed;
- a handler gets exactly the inputs its manifest asks for; lookups by height, by id, by
  value and by page miss nothing.

## Modules

`RangePlan` and `Scheduler` are pure operators. A height is a number up to
`MaxU64`, which stands for `u64::MAX`, so `saturating_add` and `checked_add` are
exercised with small numbers. `None` is `NoHeight`, and an empty `BlockRange` is
any span with `end < start`. `next_batch`'s loop over bypassed spans is the
recursive function `Hops`.

`FetchLoop` drives one scheduler through `run()`. `pc` says where the loop stands;
each `await`, each `accept` and the acknowledgement after it is a step. The sink is
a list of heights that accepts its last height again without storing it twice, as
the journal does. `AcceptFails` covers an error with or without the block stored.
`Rerun` calls `run()` again on the same scheduler, `Restart` builds a new one from
the last durable height (a crash at any point included). `Configs` is the set of
configurations explored.

`Headers` has the header record and `is_child_of`. `Journal` is the abstract
journal: a set of headers that grows by one child of its top at a time.
`IngestionStore` is `commit()` statement by statement (`CallCommit`, `LockTable`,
`ReadLatest`, `Insert`, `CommitTx`) for any set of clients; `FailTx` is an error
before COMMIT takes effect, `CommitTx` may lose its answer, and `ClientDies` is
PostgreSQL rolling back. The refinement mapping to `Journal` is the identity on the
committed rows: what is hidden is locks, transactions and clients.

`Ingestion` composes `IngestionStore` and `Scheduler` with node processes and a
chain. A branch is a sequence of fork choices, and a block's hash is its branch, so
equal hashes mean equal ancestry. `fin` is the finalized branch; each endpoint has
a view that agrees with it as far as it knows it to be final (`EndpointMoves`). A
request is answered by any endpoint, since `rpc.rs` rotates over them. The latest
height, the finalized height and every block of a batch are separate requests;
`fetch_block`'s two requests (block, then logs by hash) are one step, because the
second is bound to the hash of the first. `Leave` is the loss of everything but the
database.

`OrderedCommitBuffer` is the buffer behind `TokioDispatcher`'s mutex. `start`,
`out` and `completed` are history variables: where the generation began, what it
released and what was completed in it. `Pipeline` adds the queue, the fetchers
waiting in `send`, workers that call `recv`, `generation` and `take_committable` as
separate steps, and a reorganisation. Its wiring is the one the repository has, in
`tests/integration/pipeline_ordering.rs`: the planner's budget is `clamp_batch` of
the blocks in flight and the blocks held.

`Chain` has the branches and headers that `Ingestion` and `FinalityTracker` share.
`CheckpointStore` is the header table and the checkpoint row: `commit_tx`,
`truncate_above_tx` and `prune_below` as transitions, `headers_descending` as an
operator. `FinalityTracker` runs `refresh` and `check` over it, with one request per
compared height, against a chain that extends, reorganizes and finalizes between any
two requests. The task that fetches, commits and rewinds is not written
(`execute_rewind` is `unimplemented!`), so the model's own driver does one operation at
a time, in the order the documentation of `reorg.rs` and `checkpoint.rs` gives; a block
is labelled final or not when it is fetched; a rewind is one transaction that truncates
and moves the checkpoint. This is an assumption about code to come.

`RpcClient` is `RpcClient::request` and, on top of it, every operation of the EVM
adapter that sends requests. An attempt asks the endpoint whose turn it is for its chain
and then for the answer, under one timeout; `Answer`, `CallFails` and `Timeout` are its
outcomes, `AttemptFailed` the retry decision, `Wake` the end of the back-off, which has
no duration. What an endpoint answers is any answer: a block of either fork, logs
complete or not.

`Metadata` is `verify_facts` statement by statement for any set of processes, in the
form of `IngestionStore`; a list of facts is a set, since under the table lock nobody
can observe the order. `Startup` puts it into the process: `bootstrap` (which writes
nothing and is one step), the tables (idempotent DDL, only its failure is visible),
verification, and `initialize_schema` as the other caller. A process may be started
again as any command, as after an edit of the manifest.

`Configuration` is what `bootstrap` and `main` check before that: `NodeConfig::validate`,
`LoadedProject::load`, the endpoints, the effective range, `DbConfig` and the schema
name. A file, a URL or a path is a record of what the checks look at (whether a path is
absolute, exists, stays inside the project). `Startup` uses it for a node's
command, `Indexing` for the rule that unfinalized blocks need history.

`Selection` is the way from a manifest to the inputs of a handler. A hexadecimal text is
its prefix, its case and its digits, so `0xAB`, `0xab` and `ab` are three texts of one
number and `eq_hex` is a real comparison; hashes are the constant `Keccak`, defined for
the signatures that parse. `prepare_handlers` is `PreparesHandlers` (whether it
succeeds) and `PrepareHandlers` (what it returns); `MatchingInputs` and `Invocations`
give the inputs themselves where `matching_inputs` counts them. `DecodeEvents` and
`EventMatches` are the other path, through the adapter. `HeightMap` is
`BlockHeightMap` as a function on its keys.

`EntityTable` is one project's tables without history: the entities of the GraphQL
document, their columns and primary key, and `PlainModel`. A name is its words and its
spelling, so two names that `underscored` merges are two names; what PostgreSQL does with
texts is given by the constants `Cast` and `Before`. `Sorted` is the set of listings an
ORDER BY allows, since rows that tie come in any order, and `GetByFields` the set of results
a query may have. `Regular`
names the projects whose tables can hold what is written to them: each has one field of
type `ID`, called `id` and not a list, and no two entities share a table. `HostContext` has the checks
on a module and the buffered writes.

`EntityChanges` says what blocks make of the entities: `Changed` for one, `Replay` for a
list of them. `EntityHistory` is the store with history: rows carry a range `[lower, upper)`, a block
closes and opens rows, and a rewind is the DELETE and the UPDATE of `rewind.rs`, in
either order, with crashes in between and repetitions. `rewind_to` and the writing side
are `unimplemented!`; they are modelled by what the SQL presupposes.

`Indexing` composes these with the configuration: a project is loaded or refused, the
handlers of a block are run one by one (`Invoke`) on the block's context, and the
operations are stored, statement by statement without history (`Store`,
`StoreUnanswered`) or in one transaction with it (`CommitBlock`). Any step may fail
(`Fail`). The driver is not in the repository: its order is the one `IndexerManager`,
`WorkerResult` and `Database::transaction` state. A block that failed and is final is
tried again; one that is not may be replaced by another. `BlockStore` is the abstract
specification: a log of blocks, each with its changes, and the entities they come to;
a step appends one whole block or goes back to a prefix. The refinement mapping takes the
meaning of the indexed blocks for the log, and for the entities the rows that are visible
between blocks. While a block is half stored without history, or a rewind is
half done, readers can see neither the old nor the new entities (`Unsettled`); the mapping
holds the last settled ones there, and what is shown is that the rows are right again
whenever the block or the rewind is finished. What a block means (`Meaning`) is defined
from the manifest and the guest's calls, without the prepared filters, the buffered
operations or the tables.

`MC*` modules and their `.cfg` files are the small instances. Definitions marked
"Mutant" are plausible slips in the code, used to show that each property can fail;
no specification uses them.

## Runs

| Run | Instance | Shows |
|---|---|---|
| `fetch_loop` | `u64::MAX` = 4, 56 configurations, two faults, fairness | `DurableIsPrefixOfPlan`, `DoneMeansEverythingDurable`, `CursorCoversOnlyDurable`, `BatchWithinBudget`, `FiniteRangeCompletes`, `CancelStopsRun` |
| `ingestion_store` | two clients, four heights, two hashes, one height above `i64::MAX` | `JournalLinked`, `OkMeansDurable`, `ImplementsJournal` |
| `ingestion` | two nodes, one endpoint, blocks 1..3, two fork choices, one fault | `CursorBehindJournal`, `JournalIsFinalized`, `DoneMeansRangeIngested` |
| `ingestion_live` | one node, two faults, endpoints that may never answer | `SignalEndsProcess`, `RangeEventuallyIngested` |
| `ingestion_orphan` | one node, two endpoints | violation of `JournalIsFinalized` |
| `pipeline` | two workers, two payloads, one queue slot, four heights, four blocks in memory, one reorganisation, fairness | `NoPlannedBlockLost`, `BufferWithinCapacity`, `ReleasedIsLongestRun`, `OnlyCurrentGeneration`, `EverythingReleased` |
| `pipeline_stale` | as `pipeline` | violation of `ReleasedIsCanonical` |
| `pipeline_bypass` | one bypassed height | violation of `NeverStalls` |
| `finality` | blocks up to 3, search depth 1, two reorganizations, one fault, fairness | `HeadersBelowCheckpoint`, `KeptIsCanonical`, `WalkFindsFork`, `EventuallyOnChain` |
| `startup` | two processes, three starts, thirteen commands (two manifests of one chain, another chain, a wrong endpoint, `initialize_schema`, seven faulty configurations), two faults, fairness | `VerifiedIdentityHolds`, `NeverHalfStamped`, `OneChainPerSchema`, `ReachesSchemaWithWork`, `FactsNeverChange`, `StartupEnds` |
| `indexing` | four heights with up to three blocks each, two entities, four handlers, a project and three refused ones, with and without history | `HistoryIntact`, `SelectionIsExact`, `EventPathAgrees`, `ActiveSourcesFound`, `QueriesFindEveryRow`, `ImplementsBlockStore` |
| `rpc` | three endpoints, four attempts, fairness | `RpcInvariant`, `OnlyRightChain`, `GivesUpLast`, `BlockIsConsistent`, `OperationEnds` |

Why the bounds are enough. In `fetch_loop` five heights hold every relation between a
cursor, a batch, an end, two spans and the maximum; two faults allow a failure while
recovering from another. In the journal a conflict needs two clients and a chain of
three rows shows the link on both sides of a row. In `ingestion` a range of three
blocks takes two batches, so a reorganisation, crash or second node can fall within a
batch, between two and at the end. The buffer needs a gap, a run beyond it and a
reset. In `finality` a search depth of one puts the fork at the floor, above it and
below it, and a second reorganization can fall into the walk that examines the first.
In `startup` the third start is the retry, or the successor, after two processes have
met, and each faulty configuration fails in one check. In `indexing` the first height
creates entities, the second updates, removes or fails on them, the third is the
last of one source's range and the fourth is past it; a rewind can go back to any of
them and another block can follow. Its blocks hold a log with too few topics, one with
none, a contract creation and each spelling; `Keys` and `Rows` are just what the mapping
can write, because TLC enumerates the changes of a block. In `rpc` four attempts over three
endpoints wrap around once. Client, endpoint,
hash, worker and payload symmetry is used where the run has no temporal liveness
property and no constant tells the members apart.

Deadlock is checked except where the system may stop: in the `pipeline` runs after the
last block, in `finality` after an escalation or with nothing left to index, in
`startup` when the starts are used up, in `indexing` after the last block or the refusal
of the project. `EverythingReleased`, `EventuallyOnChain` and
`StartupEnds` show that nothing else stops them.

### Fairness

Weak fairness throughout, on what a scheduler or a peer keeps doing: Tokio polls a
ready task again (`LocalStep`, `Loop`, `Plan`, `Worker`); the channel serves waiting
senders in turn (`Send`); requests end because `rpc.rs` gives each a timeout and a
bounded number of attempts (`AnsweredStep`); the network finalizes and endpoints
follow it; an operator runs a node that ended again (`docs/ingestion.md`). Faults,
signals and crashes have no fairness and are bounded. `HangingSpec`, which
`ingestion_live` uses, has no fairness of requests at all: a signalled node must end
without it. `RangeEventuallyIngested` states what it needs beyond that as its own
hypothesis, `EndpointsAnswer`. `finality` assumes that the driver goes on as long as it
can and that requests are answered in the end; `rpc` only that a timer fires (`Wake`,
`Timeout`): no endpoint ever has to answer. In `startup` a lock that stays free is
granted; that nobody is overtaken for ever follows from the bounded number of starts and
is not claimed beyond it.

### Disagreements found

- `ingestion_orphan`: finality and blocks may come from different endpoints, and a
  lagging one can supply a block that was never finalized. With one endpoint the
  property holds.
- `pipeline_stale`: a block carries no generation through the queue, so a worker may
  tag a block of the abandoned branch with the new one. The buffer itself is sound
  (`OnlyCurrentGeneration`): what it cannot know is when the work began. A
  consequence for the budget: such blocks occupy it, and if `queue_capacity` is not
  larger than `max_in_flight` they can leave no room for the block everything waits
  for; the `pipeline` run has a larger one.
- `pipeline_bypass`: the planner skips bypassed heights, the buffer waits for them.
  The running node plans without bypasses.

Read in the code and not made into a run:

- A start height below an existing journal is accepted (`ingest.rs:62`), never fetched,
  and the node reports completion.
- `reorg.rs` asks for a contiguous list of headers, but a row recorded as unfinalized is
  never updated, so `prune_below` leaves gaps and may drop the common ancestor.
- `rpc.rs:94` makes a malformed response permanent; `error.rs:15-16` suggests that
  trying another endpoint is worth it.
- `adapter.rs:170` reads a missing finalized block as height zero, not as "no such tag".
- A list of logs that lacks its last entries cannot be told from a complete one.
- `InitOutcome::Initialized` says the schema was empty; it is returned whenever any fact
  was missing, as after `initialize_schema`.
- The shutdown token is not watched between `bootstrap` and the fetch loop, so a
  signalled node goes on waiting for the metadata lock.
- `chain-api/src/filter.rs:81` says that a filter without parameters matches everything, and
  `event_matches_filter` parses `Null`, fails and matches nothing; transaction handlers on
  this path see only transactions that emitted a log. `EventPathAgrees` is stated for
  filters that are present, and for such transactions.
- `create_table` takes the last field of type `ID` as the primary key while `upsert`
  names the column `id` in ON CONFLICT: a schema with a second such field, or none,
  creates tables that no upsert can write to, and one whose only field is the id makes an
  empty SET. `Transfer` and `Transfers` get one table. `Regular` excludes all of these,
  and `ProjectsRegular` states it as an assumption.
- `get_by_fields` on a column with equal values has no second order, so its pages may
  overlap; `QueriesFindEveryRow` is about the order by id.
- `get_within_range` returns nothing for a range after the last key, as its comment says;
  `ActiveSourcesFound` claims ranges up to the last change.
- `postgres.rs:79` shows `upsert_tx`, which does not exist: `PlainModel` runs every
  statement on its own, although `host.rs:8-10` speaks of one transaction per block.
- `host.rs:19-20` promises that a later handler sees what an earlier one wrote; there is
  no host function that reads yet.

## Proofs

A theorem holds for every value of the constants that satisfies the named `ASSUME`s
of its module. Those say no more than the types of the source give (heights up to
`u64::MAX`, positive batch sizes and limits, a value for "none" that is none of the
values) and are evaluated by TLC on every run. Each safety theorem has the same form:
an invariant that is inductive, one lemma per action that it is kept, and the property
as one of its conjuncts or a consequence. These invariants are named in the modules
they speak of and were checked with TLC before they were proved.

No theorem uses induction over data. Where a recursive function is involved (`Hops`,
`Kept`, the fold behind `FlattenSeq`), the argument is by the least counterexample in a set of natural numbers
(`LeastNatural`, from the well-foundedness of `<`).

**`RangePlanProofs`** (any list of spans, overlapping and unordered ones included).
`NextBatchIsExact`: a batch passes over bypassed heights only, contains none, and ends
at the size, the head, the end of the range or the height before the next bypassed span.
`HeightsInExact`: the heights of a span that are fetched are those not bypassed,
ascending. The argument: every hop that moves leaves its span behind for good
(`HopsSettle`), so as many hops as spans suffice (`HopsSuffice`).

**`FetchLoopProofs`** (any range, batch size, limits, plan and faults).
`FetchStoresPrefixOfPlan`, `FetchDoneIsComplete`, `FetchCursorCoversOnlyDurable`,
`FetchBatchWithinBudget`. The cursor alone says little, since it skips bypassed heights:
`FetchInvariant` says that for some k it stands behind the first k wanted heights, that
`pending` continues the list of wanted heights there, and that the sink has those k, or
one more while an accept that failed had stored its block.

**`IngestionProofs`**. The store: the journal stays linked
(`StoreKeepsJournalLinked`), success means durable (`StoreOkMeansDurable`), and the
transactions implement `Journal` (`StoreImplementsJournal`). `StoreInvariant` adds to
`JournalLinked` that exactly the client past LOCK TABLE holds the lock (`LockHeld`),
that a non-empty table has a highest row (`HasTop`), and that what was read still
decides when the row is written (`DecisionStands`). The nodes, any number on one
schema: they use the store as it is specified
(`IngestionImplementsStore`, `IngestionImplementsJournal`), and a cursor never passes
the journal (`IngestionCursorBehindJournal`). `NodeInvariant` says of each node that its
pending heights start at its cursor, that its batch is a beginning of them, that the
transaction it runs is for the head of the batch, and that a cursor past its start height
has its predecessor in the journal. Two theorems have a hypothesis:
`IngestionJournalIsFinalized` needs a single endpoint that serves the `finalized` tag
(without it the property is false, run `ingestion_orphan`), and
`IngestionDoneMeansRangeIngested` needs the nodes of a schema to share their start
height (a start below an existing journal is one of the disagreements above).

**`PipelineProofs`**. The buffer, for any workers, payloads and resets, releases the
longest completed run (`BufferReleasesLongestRun`) and drops older generations
(`BufferDropsOldGenerations`): `BufferInvariant` adds that the released heights are
exactly `start..next_expected-1` and that everything held lies strictly above
`next_expected`. The pipeline, for any limits, queue and bypassed spans, implements the
buffer (`PipelineImplementsBuffer`), which gives it those two properties again, loses no
planned block (`PipelineLosesNoBlock`) and keeps to its budget
(`PipelineStaysWithinCapacity`): `PipelineInvariant` adds that a worker has one block,
before or after it captured the generation.

**`FinalityTrackerProofs`** (any forks, length of chain and search depth).
`TrackerHeadersBelowCheckpoint`, `TrackerKeptIsCanonical`, `TrackerWalkFindsFork`.
`TrackerInvariant` adds: what is recorded as final is on every later canonical branch,
and where the row of the checkpoint, or of an ancestor a decision names, is missing it was
pruned because it was final (`FinalityStands`); the walk goes down one branch, has left
out no header within the search depth and has met none that agrees (`WalkDescends`); one
operation runs at a time (`OneAtATime`). `WalkIsRight` is the heart: on a quiet chain a
comparison agrees exactly at and below the fork, so the first that agrees is the fork and
the comparisons before it, one per height, are the blocks discarded (`OnePerHeight`);
if none agrees, the fork lies below the lowest height in reach.

**`StartupProofs`**. Verification, for any processes and any lists of facts with
distinct keys: `MetadataVerifiedIdentityHolds`, `MetadataNeverHalfStamped`,
`MetadataFactsNeverChange`. `MetaInvariant` adds who holds the lock (`LockIsHeld`) and
that what a verifier has read stands until its transaction ends (`ReadsStand`). The
processes implement it (`StartupImplementsMetadata`), so the three hold of every start,
failure and restart (`StartupVerifiedIdentityHolds`, `StartupNeverHalfStamped`,
`StartupFactsNeverChange`); and `StartupOneChainPerSchema` and
`StartupReachesSchemaWithWork` follow from `StartupInvariant`: a process verifies the facts
of the command it was started with, and a node that touches the schema has passed
`bootstrap`.

**`RpcClientProofs`** (any number of endpoints and attempts). What is returned comes
from an endpoint that identified itself as the right chain in the same attempt
(`ClientHearsOnlyRightChain`), giving up on a transient error means having used the
last attempt (`ClientGivesUpLast`), a block's logs belong to it
(`ClientBlockIsConsistent`). `RpcInvariant` adds that attempts go round the endpoints in
turn, that a call follows its identity check, and where a transient failure may be
reported.

**`IndexingProofs`**: what is proved of `Indexing`, whose handlers, manifests and blocks
are any that satisfy the assumptions below.

*History.* Every height that stands reads as it was indexed (`HistoryStaysIntact` for
`EntityHistory` alone, `IndexingHistoryIntact` for the composed system), and no entity has
two rows at it (`HistoryOneRowPerHeight`); neither needs anything about what is written.
What holds between the two statements of a rewind is the argument: `Settled` is the
height that must be right at all times, the target as soon as a rewind begins, and up to it
neither statement changes what is read, since DELETE touches rows that begin above it and
UPDATE rows that cover it and end above it. `HistoryInvariant` adds that ranges are not
empty and stay below the last height (`RangesWithin`: a row is never closed in the block
that opened it), that each executed statement has left nothing of its kind above the
target (`RewindProgress`), and that rows of one key do not overlap (`OneRowPerHeight`).

*Selection.* A handler is called for exactly the inputs the manifest asks for, in its order
(`IndexingSelectionIsExact`), and decoded events lead to the same ones
(`IndexingEventPathAgrees`). `IndexesAccepted` is the state they rest on: a block is
indexed only for a project whose manifest `prepare_handlers` accepted. The rest is about
operators: normalising a number keeps its value (`NormalDigits`), so a prepared filter
matches what the manifest names (`LogFilterAsks`, `TransactionFilterAsks`, `TopicsMatch`);
a list filtered, or concatenated from parts, has the same elements in the same places
when its parts have (`FilteredProperties`, `FlattenAlike`).

*Data sources.* The map by height finds the active sources of every height
(`IndexingActiveSourcesFound`): between two of its keys no source starts or ends
(`ActiveFound`); the entry whose range holds a height is the one with the greatest key up
to it (`EntryOfHeight`), each key has its place in the ascending list (`KeysByRank`), and a
range keeps the entry its first height needs (`WithinReadsAlike`).

*Entities.* With history and without it, a project implements `BlockStore`
(`IndexingImplementsBlockStore`): the entities are what the indexed blocks mean, in order.
`StoreInvariant` says for the stores, under the mode each belongs to, how far a block has
come. `BlockInProgress`: the handlers that have been run have buffered what their calls
come to (`RunUpTo`), and every key that no remaining statement is for already has the row
the block gives it (`WrittenUpTo`). `TableFollows`: without history the table is what the
indexed blocks mean, except for the keys of the block in hand, also after that block was
given up half stored; storing it from the start makes up for that, because a block stored
without history is final (`Plain => ~config.unfinalized_blocks`, the rule `validate`
enforces), so it is the one tried again and writes the same keys. `HistoryFollows`: with history, every height reads as the blocks
up to it mean. Four lemmas carry the steps: the context adds exactly the calls that count,
in their order (`HandlerAdds`); each statement replaces the rows of its own key, no
other; the last operation of a key decides (`NetChanges`, `Meaning`); and
`HistoryInvariant` gives what a rewind leaves readable. It is here that an update must find
its row by `id`, so a schema whose primary key is another field has to be excluded.

*Queries.* Between blocks every row of a table is found (`IndexingQueriesFindEveryRow`).
`TablesKept` is the invariant: a table, and with history the entities of every height, have
one row for a key, with the key's id, and only values PostgreSQL printed. It is kept
because a statement that is not refused writes accepted values only (`CallWritesRow`), a
block's operations come to at most one row for a key (`BlockKeepsRows`), and a rewind takes
back a height that already was such a table. From there the argument is about any such
table: distinct ids leave one listing in ascending order and its reverse in descending order
(`SortedOnce`, from `OrderedListing`, where a row's place is the number of rows up to it, and
`OrderedOnce`, by the first place at which two listings would differ); pages of one size,
each starting where the one before ends, join up to the listing (`PagesRead`); and a value
that was read back is encoded as itself, so a filter on it selects its row (`ValueFound`).

The assumptions: `ProjectsRegular` (one table per entity, with a single id), `HashesAssumption` (a selector
is a non-empty beginning of a hash), `ManifestsAssumption` (the fields have the types
`project.rs` gives them, at most one end per source), `BlocksAssumption` (numbers are
natural, lists are lists, no two transactions of a block share an index, and one
recipient each at most), `GuestAssumption` (a handler makes finitely many calls of the host
functions that write or log, and ends), `CastAssumption` (of
PostgreSQL: a `text` column gives a text back as it is, so a row's id is the one it was
written under; a column accepts what it prints as the same value; and neither bytes nor JSON
are printed with the `0x` that `encode` strips; an id of type `[ID!]` is stored as
`jsonb` and stays excluded), `OrderAssumption` (PostgreSQL puts any two texts in one order).

Every safety invariant, action property and refinement of the passing runs is proved, two
of them with the hypothesis named above. Only model-checked is liveness
(`FiniteRangeCompletes`, `CancelStopsRun`, `SignalEndsProcess`, `RangeEventuallyIngested`,
`EverythingReleased`, `EventuallyOnChain`, `StartupEnds`, `OperationEnds`): fairness and
ENABLED are out of the prover's reach.

## Not modelled

The execution of guest code (`wasmtime_host.rs` has no implementation): a handler is the
host calls it makes, and fuel, time and memory limits are failures of a step. Dynamic
data sources and `sq_store_get`, which no code provides; `BlockCommitter`, so that nothing
is said about two workers that commit consecutive runs. The conversion of JSON fields,
`introspect.rs` (it reads the catalogue for tests), metrics, logging, redaction and the
Debug texts keep no state the properties speak of. The vendored SDK is third-party; of it
only the start heights of a manifest are used. The signal handlers' gap in
`shutdown.rs:53` depends on the buffering of the signal library. Unbounded waiting inside
PostgreSQL is not modelled: a lock is granted in the end.

## Plan

1. The seam between `Startup` and `Ingestion`: the journal of a schema belongs to the
   chain the schema is stamped with.
2. `Indexing` behind `Pipeline`, once `BlockCommitter` exists: blocks committed in the
   order the buffer releases them.
