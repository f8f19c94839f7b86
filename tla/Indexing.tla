------------------------------ MODULE Indexing -----------------------------
(***************************************************************************)
(* Indexing the blocks of one project: the handlers a block is for are run *)
(* in manifest order, their writes are buffered in the block's context and *)
(* then stored, with history or without it; a reorganisation is rewound.   *)
(*                                                                         *)
(* The parts are the repository's: Selection (prepare_handlers and the     *)
(* filters), HostContext, EntityTable (PlainModel), EntityHistory          *)
(* (rewind.rs) and the rules of NodeConfig.  What puts them together, the  *)
(* IndexerManager and the dispatcher's commit, is declared but not         *)
(* implemented: the actions follow the order and the obligations the       *)
(* traits state, and every step may fail.                                  *)
(*                                                                         *)
(* Indexed blocks are numbered from 1.  A block that is not final may be   *)
(* replaced by another one of its height; final blocks are not.            *)
(***************************************************************************)
EXTENDS Configuration, HostContext, EntityHistory, FiniteSetsExt

Heights == INSTANCE HeightMap

CONSTANTS
    Configs,        \* the configurations of the node
    Projects,       \* [manifest, module, document]
    Blocks,         \* per height, the blocks the chain may have there
    Guest(_, _)     \* the host calls a handler makes for an input

VARIABLES
    config, project,    \* of this node, for good
    phase,      \* "off", "refused", "idle", "running", "writing"
    block,      \* the block being indexed, or to be tried again: at most one
    todo,       \* the invocations left for it
    context,    \* its HostContext: at most one
    statements, \* the operations left to be stored, without history
    table,      \* the entities, without history
    indexed     \* history variable: what each indexed block means

indexVars == <<config, project, phase, block, todo, context, statements, table, indexed>>
allVars   == <<indexVars, historyVars>>

Plain  == ~IsEnabled(config.historical)
Models == ParseEntities(project.document)
ModelOf(entity) == Models[CHOOSE i \in DOMAIN Models : Models[i].name = entity]

(* Reference definitions: what the manifest asks for and what a block      *)
(* means, without the prepared filters and the buffered operations.        *)
SameNumber(opt, t) == \A a \in opt : a.digits = t.digits

AskedFor(ds, h, input) ==
    CASE h.kind = "evm/BlockHandler" ->
           h.filter.shape = "block" => \A m \in h.filter.modulo : input.number % m = 0
      [] h.kind = "evm/LogHandler" ->
           /\ SameNumber(ds.address, input.address)
           /\ h.filter.shape = "log" =>
                 LET wanted == <<Keccak[h.filter.event]>>
                               \o [i \in DOMAIN h.filter.topics |-> h.filter.topics[i].digits]
                 IN  IsPrefix(wanted, [i \in DOMAIN input.topics |-> input.topics[i].digits])
      [] h.kind = "evm/TransactionHandler" ->
           LET to == ds.address \union (IF h.filter.shape = "none" THEN {} ELSE h.filter.to)
           IN  /\ to # {} => input.to # {} /\ \A t \in input.to : SameNumber(to, t)
               /\ h.filter.shape = "transaction" =>
                     /\ SameNumber(h.filter.from, input.from)
                     /\ IsPrefix(SubSeq(Keccak[h.filter.function], 1, SelectorLength), input.input.digits)

InputsOf(h, b) ==
    CASE h.kind = "evm/BlockHandler" -> <<b>>
      [] h.kind = "evm/LogHandler" -> b.logs
      [] h.kind = "evm/TransactionHandler" -> b.transactions

ActiveSource(ds, number) ==
    EffectiveStart(project.manifest, ds) <= number /\ (ds.end_block # {} => \E e \in ds.end_block : number <= e)

WantedInputs(ds, h, b) ==
    Filtered(InputsOf(h, b),
             {x \in Range(InputsOf(h, b)) : ActiveSource(ds, b.number) /\ AskedFor(ds, h, x)})

Wanted(b) ==
    FlattenSeq(FlattenSeq([i \in DOMAIN project.manifest.data_sources |->
        LET ds == project.manifest.data_sources[i]
        IN  [j \in DOMAIN ds.handlers |->
                LET inputs == WantedInputs(ds, ds.handlers[j], b)
                IN  [k \in DOMAIN inputs |-> [function |-> ds.handlers[j].function, input |-> inputs[k]]]]]))

(* The writes of a block that count, and what they come to.                *)
Effective(call) ==
    /\ call.function \in {"sq_store_set", "sq_store_remove"}
    /\ \E i \in DOMAIN Models : Models[i].name = call.entity
    /\ call.function = "sq_store_set" =>
          /\ call.data.is_object
          /\ IdName \in DOMAIN call.data.members
          /\ call.data.members[IdName] = {[json |-> "string", text |-> call.id]}

EffectiveCalls(b) ==
    LET all == Wanted(b)
    IN  FlattenSeq([i \in DOMAIN all |->
            LET calls == Guest(all[i].function, all[i].input)
            IN  Filtered(calls, {c \in Range(calls) : Effective(c)})])

CallKey(call) == <<TableName(call.entity), call.id>>

Touched(b) == {CallKey(EffectiveCalls(b)[i]) : i \in DOMAIN EffectiveCalls(b)}

NewRow(b, key) ==
    LET calls == EffectiveCalls(b)
        last  == calls[Max({i \in DOMAIN calls : CallKey(calls[i]) = key})]
    IN  IF last.function = "sq_store_remove" THEN {}
        ELSE {Row(ModelOf(last.entity), last.data.members)}

Meaning(b) == [key \in Touched(b) |-> NewRow(b, key)]

(* The projects whose tables hold one entity each.                         *)
ASSUME ProjectsRegular == \A p \in Projects : Regular(ParseEntities(p.document))

(* A selector is the beginning of a hash, and not empty.                   *)
ASSUME HashesAssumption ==
    /\ SelectorLength \in Nat \ {0}
    /\ \A s \in DOMAIN Keccak : IsList(Keccak[s]) /\ Len(Keccak[s]) >= SelectorLength

(* The fields of a manifest have the types project.rs gives them.          *)
ASSUME ManifestsAssumption ==
    \A p \in Projects : LET m == p.manifest IN
        /\ IsList(m.data_sources) /\ m.start_block \subseteq Nat
        /\ \A ds \in Range(m.data_sources) :
              /\ ds.start_block \subseteq Nat
              /\ ds.end_block \subseteq Nat /\ AtMostOne(ds.end_block)
              /\ IsList(ds.handlers)
              /\ \A h \in Range(ds.handlers) : h.filter.shape = "log" => IsList(h.filter.topics)

(* A block is one of the chain's: its transactions have indices of their   *)
(* own and at most one recipient each.                                     *)
ASSUME BlocksAssumption ==
    /\ IsList(Blocks)
    /\ \A h \in DOMAIN Blocks : \A b \in Blocks[h] :
          /\ b.number \in Nat
          /\ IsList(b.logs) /\ \A l \in Range(b.logs) : IsList(l.topics)
          /\ IsList(b.transactions) /\ \A t \in Range(b.transactions) : AtMostOne(t.to)
          /\ \A i, j \in DOMAIN b.transactions :
                b.transactions[i].transaction_index = b.transactions[j].transaction_index => i = j

(* A handler makes a list of calls the host has functions for.             *)
ASSUME GuestAssumption ==
    \A p \in Projects : \A ds \in Range(p.manifest.data_sources) : \A h \in Range(ds.handlers) :
        \A n \in DOMAIN Blocks : \A b \in Blocks[n] : \A input \in Range(InputsOf(h, b)) :
            LET calls == Guest(h.function, input)
            IN  /\ IsList(calls)
                /\ \A call \in Range(calls) :
                      call.function \in {"sq_store_set", "sq_store_remove", "sq_log"}

-----------------------------------------------------------------------------
IndexingInit ==
    /\ config \in {c \in Configs : Validate(c)}
    /\ project \in Projects
    /\ phase = "off"
    /\ block = {} /\ todo = <<>> /\ context = {} /\ statements = <<>>
    /\ table = {}
    /\ indexed = <<>>
    /\ HistoryInit

(* The project is loaded, or refused before anything is indexed.           *)
ProjectAccepted ==
    /\ PreparesHandlers(project.manifest)
    /\ ModuleAccepted(project.module)
    /\ CreatesTables(Models)

Load ==
    /\ phase = "off"
    /\ phase' = IF ProjectAccepted THEN "idle" ELSE "refused"
    /\ UNCHANGED <<config, project, block, todo, context, statements, table, indexed, historyVars>>

(* The next block, with a new context.                                     *)
BeginBlock(b) ==
    /\ phase = "idle" /\ target = NoTarget
    /\ \A retried \in block : b = retried
    /\ phase' = "running"
    /\ block' = {b}
    /\ todo' = Invocations(PrepareHandlers(project.manifest), b)
    /\ context' = {NewContext([height |-> b.number], {Models[i].name : i \in DOMAIN Models})}
    /\ UNCHANGED <<config, project, statements, table, indexed, historyVars>>

(* MappingRuntime::invoke of the next handler.                             *)
Invoke ==
    /\ phase = "running" /\ todo # <<>>
    /\ HasHandler(project.module, Head(todo).function)
    /\ context' = {HostCalls(c, Guest(Head(todo).function, Head(todo).input)) : c \in context}
    /\ todo' = Tail(todo)
    /\ UNCHANGED <<config, project, phase, block, statements, table, indexed, historyVars>>

(* A step of the block fails: a trap, a limit, a lost connection.  Only a  *)
(* final block is certain to be the one tried next.                        *)
Abandoned ==
    /\ phase' = "idle"
    /\ block' = IF config.unfinalized_blocks THEN {} ELSE block
    /\ todo' = <<>> /\ context' = {} /\ statements' = <<>>

Fail ==
    /\ phase \in {"running", "writing"}
    /\ Abandoned
    /\ UNCHANGED <<config, project, table, indexed, historyVars>>

-----------------------------------------------------------------------------
(* The operations of one block, without history: one statement after the   *)
(* other.                                                                  *)
BeginWriting ==
    /\ phase = "running" /\ todo = <<>> /\ Plain
    /\ phase' = "writing"
    /\ \E c \in context :
          /\ statements' = TakeOperations(c).taken
          /\ context' = {TakeOperations(c).context}
    /\ UNCHANGED <<config, project, block, todo, table, indexed, historyVars>>

StatementFails(op) == op.operation = "Set" /\ UpsertFails(ModelOf(op.entity_type), op.data)

Executed(rows, op) ==
    IF op.operation = "Set" THEN Upserted(rows, ModelOf(op.entity_type), op.data)
    ELSE Removed(rows, ModelOf(op.entity_type), {op.data})

(* PlainModel::upsert or remove; a statement PostgreSQL refuses fails the  *)
(* block.                                                                  *)
Store ==
    /\ phase = "writing" /\ statements # <<>>
    /\ \/ /\ ~StatementFails(Head(statements))
          /\ table' = Executed(table, Head(statements))
          /\ statements' = Tail(statements)
          /\ UNCHANGED <<phase, block, todo, context>>
       \/ /\ StatementFails(Head(statements))
          /\ Abandoned
          /\ UNCHANGED table
    /\ UNCHANGED <<config, project, indexed, historyVars>>

(* A statement is executed and its answer lost.                            *)
StoreUnanswered ==
    /\ phase = "writing" /\ statements # <<>>
    /\ ~StatementFails(Head(statements))
    /\ table' = Executed(table, Head(statements))
    /\ Abandoned
    /\ UNCHANGED <<config, project, indexed, historyVars>>

Indexed ==
    /\ phase' = "idle"
    /\ block' = {} /\ todo' = <<>> /\ context' = {} /\ statements' = <<>>
    /\ \E b \in block : indexed' = Append(indexed, Meaning(b))

FinishWriting ==
    /\ phase = "writing" /\ statements = <<>>
    /\ Indexed
    /\ UNCHANGED <<config, project, table, historyVars>>

(* With history: what the operations come to, the last one of a key        *)
(* counting, in one transaction.                                           *)
OperationKey(op) ==
    LET model == ModelOf(op.entity_type)
    IN  KeyOf(model, IF op.operation = "Remove" THEN op.data
                     ELSE CHOOSE id \in Row(model, op.data)[IdColumn] : TRUE)

NetChanges(ops) ==
    [k \in {OperationKey(ops[i]) : i \in DOMAIN ops} |->
        LET last == ops[Max({i \in DOMAIN ops : OperationKey(ops[i]) = k})]
        IN  IF last.operation = "Remove" THEN {} ELSE {Row(ModelOf(last.entity_type), last.data)}]

CommitBlock ==
    /\ phase = "running" /\ todo = <<>> /\ ~Plain
    /\ \E c \in context :
          LET ops == TakeOperations(c).taken
          IN  \/ /\ ~\E i \in DOMAIN ops : StatementFails(ops[i])
                 /\ WriteBlock(NetChanges(ops))
                 /\ Indexed
              \/ /\ \E i \in DOMAIN ops : StatementFails(ops[i])
                 /\ Abandoned
                 /\ UNCHANGED <<indexed, historyVars>>
    /\ UNCHANGED <<config, project, table>>

-----------------------------------------------------------------------------
(* A reorganisation: rewind_to of the height of the common ancestor.       *)
StartRewind ==
    /\ phase = "idle" /\ config.unfinalized_blocks /\ ~Plain
    /\ \E H \in 0..height : BeginRewind(H)
    /\ UNCHANGED indexVars

RewindStatement ==
    /\ RunDelete \/ RunReopen \/ RewindInterrupted
    /\ UNCHANGED indexVars

FinishRewind ==
    /\ EndRewind
    /\ indexed' = SubSeq(indexed, 1, target)
    /\ UNCHANGED <<config, project, phase, block, todo, context, statements, table>>

IndexingNext ==
    \/ Load
    \/ \E h \in DOMAIN Blocks \intersect {Len(indexed) + 1} : \E b \in Blocks[h] : BeginBlock(b)
    \/ Invoke
    \/ Fail
    \/ BeginWriting
    \/ Store
    \/ StoreUnanswered
    \/ FinishWriting
    \/ CommitBlock
    \/ StartRewind
    \/ RewindStatement
    \/ FinishRewind

IndexingSpec == IndexingInit /\ [][IndexingNext]_allVars
-----------------------------------------------------------------------------
Visible == IF Plain THEN table ELSE AsOf(versions, height)

(* A block is partly stored, or a rewind is partly done.                   *)
Unsettled == target # NoTarget \/ (Plain /\ block # {})

(* What the selection rests on.                                            *)
IndexesAccepted ==
    project \in Projects /\ (phase \in {"idle", "running", "writing"} => ProjectAccepted)

(* What a call that counts leaves in the context, and what is left there   *)
(* by the first k handlers run for a block.                                *)
OperationOf(call) ==
    IF call.function = "sq_store_set"
    THEN [operation |-> "Set", entity_type |-> call.entity, data |-> call.data.members]
    ELSE [operation |-> "Remove", entity_type |-> call.entity, data |-> call.id]

Adds(call) == IF Effective(call) THEN <<OperationOf(call)>> ELSE <<>>

AddedBy(calls) == FlattenSeq([j \in DOMAIN calls |-> Adds(calls[j])])

OperationsUpTo(b, k) ==
    LET all == Wanted(b)
    IN  FlattenSeq([i \in 1..k |-> AddedBy(Guest(all[i].function, all[i].input))])

(* Some handlers have been run for the block.                              *)
RunUpTo(b, k) ==
    /\ todo = SubSeq(Wanted(b), k + 1, Len(Wanted(b)))
    /\ context = {[NewContext([height |-> b.number], {Models[i].name : i \in DOMAIN Models})
                     EXCEPT !.operations = OperationsUpTo(b, k)]}

(* Some statements have been executed: a key that no later one is for has  *)
(* the row the block gives it.                                             *)
WrittenUpTo(b, k) ==
    LET calls == EffectiveCalls(b)
    IN  /\ statements = [i \in 1..(Len(calls) - k) |-> OperationOf(calls[k + i])]
        /\ \A key \in Touched(b) :
              (\A i \in DOMAIN calls : CallKey(calls[i]) = key => i <= k)
              => {e \in table : e[1] = key} = {<<key, r>> : r \in NewRow(b, key)}

(* Only the keys of the block are not what the indexed blocks mean.        *)
ChangedOnlyBy(b) ==
    {e \in table : e[1] \notin Touched(b)} = {e \in Replay(indexed) : e[1] \notin Touched(b)}

(* A row has the id of its key.                                            *)
IdsMatch(rows) == \A e \in rows : e[2][IdColumn] = {e[1][2]}

BlockInProgress ==
    /\ \A b \in block : \E h \in DOMAIN Blocks : b \in Blocks[h]
    /\ phase \in {"running", "writing"} => target = NoTarget
    /\ phase = "running" =>
          \E b \in block : block = {b} /\ \E k \in 0..Len(Wanted(b)) : RunUpTo(b, k)
    /\ phase = "writing" =>
          \E b \in block : block = {b} /\ \E k \in 0..Len(EffectiveCalls(b)) : WrittenUpTo(b, k)

TableFollows ==
    /\ target = NoTarget
    /\ block = {} => table = Replay(indexed)
    /\ \A b \in block : ChangedOnlyBy(b)
    /\ IdsMatch(table)

HistoryFollows ==
    /\ height = Len(indexed)
    /\ \A k \in 0..height : past[k] = Replay(SubSeq(indexed, 1, k))

(* What makes the entities follow the blocks, without history and with it. *)
StoreInvariant ==
    /\ IsList(indexed)
    /\ Plain => ~config.unfinalized_blocks
    /\ phase = "writing" => Plain
    /\ BlockInProgress
    /\ Plain => TableFollows
    /\ ~Plain => HistoryFollows

(* A table has one row for a key, with the key's id, and its values are    *)
(* values PostgreSQL prints.                                               *)
IsRowOf(model, e) ==
    /\ e[1] = KeyOf(model, e[1][2])
    /\ e[2][IdColumn] = {e[1][2]}
    /\ \A j \in DOMAIN model.fields :
          LET f == model.fields[j] IN e[2][Underscored(f.name)] \subseteq Range(Cast[ColumnType(f)])

AreRows(rows) ==
    /\ IsFiniteSet(rows)
    /\ \A d, e \in rows : d[1] = e[1] => d = e
    /\ \A e \in rows : \E n \in DOMAIN Models : IsRowOf(Models[n], e)

(* What the queries rest on.                                               *)
TablesKept ==
    /\ Plain => AreRows(table)
    /\ ~Plain => \A k \in 0..height : AreRows(past[k])

(* What is promised of the entities: nothing new while they are unsettled. *)
Entities == IF Unsettled THEN Replay(indexed) ELSE Visible

Abstract == INSTANCE BlockStore WITH log <- indexed, entities <- Entities

(* Whenever no block is half stored and no rewind half done, the entities  *)
(* are what the indexed blocks mean, in order: after handlers that failed, *)
(* statements that were executed without an answer, blocks that were tried *)
(* again or replaced, and rewinds that were cut short.                     *)
ImplementsBlockStore == Abstract!Spec

(* The handlers are run for exactly the inputs the manifest asks for, in   *)
(* the order of the manifest and of the block: preparing a filter          *)
(* (prepare_handlers) and matching it loses nothing to the spelling of     *)
(* numbers, to missing topics or recipients, or at the ends of a range.    *)
SelectionIsExact ==
    phase = "idle" => \A h \in DOMAIN Blocks : \A b \in Blocks[h] :
        Invocations(PrepareHandlers(project.manifest), b) = Wanted(b)

(* The two ways to a handler's inputs agree: by decoded events             *)
(* (decode_events, event_matches_filter) the same logs are found as by the *)
(* prepared handlers; of the transactions, those that emitted a log.  A    *)
(* list of topics finds what its members find, and Any what has no topic.  *)
EventPathAgrees ==
    phase = "idle" => \A h \in DOMAIN Blocks : \A b \in Blocks[h] :
        LET handlers == PrepareHandlers(project.manifest)
            events   == DecodeEvents(b)
            found(kind, f) == {i \in DOMAIN events : EventMatches(events[i], [handler |-> kind, params |-> {f}])}
            first(c) == found("event", [address |-> {}, topics |-> <<c>>])
        IN  /\ first(AnyTopic) = DOMAIN events
            /\ \A ts \in SUBSET UNION {Range(l.topics) : l \in Range(b.logs)} :
                  first(AnyOfTopics(ts)) = UNION {first(OneTopic(t)) : t \in ts}
            /\ \A n \in DOMAIN handlers : IsActiveAt(handlers[n], b.number) =>
              LET f == handlers[n].filter
                  inputs == Range(MatchingInputs(handlers[n], b))
              IN  /\ handlers[n].kind = "evm/LogHandler" =>
                        {b.logs[i] : i \in found("event", f)} = inputs
                  /\ handlers[n].kind = "evm/TransactionHandler" =>
                        {b.logs[i].transaction_index : i \in found("transaction", f)}
                        = {t.transaction_index : t \in inputs}
                          \intersect {b.logs[i].transaction_index : i \in DOMAIN b.logs}

(* The sources active at each height, as a BlockHeightMap.                 *)
SourcesByHeight ==
    LET sources == project.manifest.data_sources
        start(i) == EffectiveStart(project.manifest, sources[i])
    IN  [h \in {start(i) : i \in DOMAIN sources}
                \union UNION {{e + 1 : e \in sources[i].end_block} : i \in DOMAIN sources} |->
            {i \in DOMAIN sources : ActiveSource(sources[i], h)}]

(* The map finds the active sources of every height, and a query for a     *)
(* range finds those of every height in it, up to the last change.         *)
ActiveSourcesFound ==
    phase = "idle" => \A first, last \in 0..Len(Blocks) + 1 :
        LET map    == SourcesByHeight
            within == Heights!GetWithinRange(map, first, last)
            active(h) == {i \in DOMAIN project.manifest.data_sources :
                            ActiveSource(project.manifest.data_sources[i], h)}
        IN  \A h \in first..last :
              /\ UNION Heights!Get(map, h) = active(h)
              /\ {r \in Range(Heights!GetAllWithRange(map)) :
                    r.start <= h /\ \A e \in r.end : h <= e} = Heights!GetDetails(map, h)
              /\ (\E k \in DOMAIN map : k >= first) => UNION Heights!Get(within, h) = active(h)

(* Reading a table page by page in the order of the ids, either way, gives *)
(* every row once; and a row is found by its id and by each of its values  *)
(* as read back.                                                           *)
(* (Between the statements of a rewind an entity may have two rows.)       *)
QueriesFindEveryRow ==
    phase = "idle" /\ target = NoTarget => \A n \in DOMAIN Models : LET model == Models[n] IN
        LET dump == DumpCanonical(Visible, model)
            page(size, i, dir) == GetByFields(Visible, model, <<>>,
                [order_by |-> IdName, order_direction |-> dir, offset |-> size * (i - 1), limit |-> size])
            read(size, dir) == FlattenSeq([i \in 1..Len(dump) + 1 |-> CHOOSE p \in page(size, i, dir) : TRUE])
            found(f, value) == GetByFields(Visible, model,
                <<[field |-> f.name, value |-> {[json |-> "string", text |-> value]}]>>,
                [order_by |-> IdName, order_direction |-> "asc", offset |-> 0, limit |-> Len(dump)])
        IN  /\ Range(dump) = TableRows(Visible, model)
            /\ \A i, j \in DOMAIN dump : dump[i][IdColumn] = dump[j][IdColumn] => i = j
            /\ \A size \in 1..Len(dump) + 1 :
                  /\ \A i \in 1..Len(dump) + 1, dir \in {"asc", "desc"} : Cardinality(page(size, i, dir)) = 1
                  /\ read(size, "asc") = dump /\ Reverse(read(size, "desc")) = dump
            /\ \A row \in Range(dump) : \A id \in row[IdColumn] : GetEntity(Visible, model, id) = {row}
            /\ \A row \in Range(dump), j \in DOMAIN model.fields :
                  LET f == model.fields[j] IN \A value \in row[Underscored(f.name)] :
                      /\ found(f, value) # {}
                      /\ \A result \in found(f, value) : Contains(result, row)
=============================================================================
