----------------------------- MODULE Selection -----------------------------
(***************************************************************************)
(* Which inputs of a block a project's handlers are for: the filters of    *)
(* chains/evm/src/filter.rs, their preparation from the manifest           *)
(* (project.rs), and the other path to them, by decoded events             *)
(* (adapter.rs).                                                           *)
(*                                                                         *)
(* Hexadecimal text is [prefix, case, digits], so that the spellings of    *)
(* one value are different texts.  An optional value is a set of at most   *)
(* one element.  Cryptographic hashes are the constant Keccak, defined for *)
(* the signatures that parse.                                              *)
(***************************************************************************)
EXTENDS Naturals, Sequences, SequencesExt

CONSTANTS
    Keccak,         \* the hash of each well-formed signature, as digits
    HexDigits,      \* the digits a number may have
    AddressLength, WordLength, SelectorLength

IsList(s) == s \in Seq(Range(s))
AtMostOne(opt) == \A x, y \in opt : x = y

(* Mutant: the spelling of a value is compared too.                        *)
EqText(a, b) == a.case = b.case /\ a.digits = b.digits

(* eq_hex: the 0x prefix and the case of letters do not count.             *)
EqHex(a, b) == a.digits = b.digits

(* input_starts_with_selector: an empty selector matches nothing.          *)
StartsWithSelector(input, selector) ==
    selector.digits # <<>> /\ IsPrefix(selector.digits, input.digits)

(* TopicFilter: Any, One(value), or a list of alternatives.                *)
AnyTopic      == [any |-> TRUE, values |-> {}]
OneTopic(t)   == [any |-> FALSE, values |-> {t}]
AnyOfTopics(ts) == [any |-> FALSE, values |-> ts]
TopicMatches(c, topic) == c.any \/ \E v \in c.values : EqHex(v, topic)

(* EvmLog::view and EvmTransaction::view: what a filter looks at.          *)
LogView(log)        == [address |-> log.address, topics |-> log.topics]
TransactionView(tx) == [to |-> tx.to, from |-> tx.from, input |-> tx.input]

(* EvmLogFilter::matches.  A constraint on a topic the log does not have   *)
(* is met only if it asserts nothing.                                      *)
LogMatches(f, log) ==
    /\ \A a \in f.address : EqHex(a, log.address)
    /\ \A i \in DOMAIN f.topics :
          IF i \in DOMAIN log.topics THEN TopicMatches(f.topics[i], log.topics[i]) ELSE f.topics[i].any

(* EvmTransactionFilter::matches.  A contract creation has no recipient    *)
(* and meets no constraint on it.                                          *)
TransactionMatches(f, tx) ==
    /\ \A a \in f.to : \E b \in tx.to : EqHex(a, b)
    /\ \A a \in f.from : EqHex(a, tx.from)
    /\ \A s \in f.function : StartsWithSelector(tx.input, s)

-----------------------------------------------------------------------------
(* Parsing an address or a topic, and printing it in the normal form.      *)
IsNumber(t, length) == Len(t.digits) = length /\ \A i \in 1..length : t.digits[i] \in HexDigits
Normal(digits) == [prefix |-> "0x", case |-> "lower", digits |-> digits]
NormalAddress(opt) == {Normal(t.digits) : t \in opt}
IsAddress(opt) == \A t \in opt : IsNumber(t, AddressLength)

SelectorOf(signature) == Normal(SubSeq(Keccak[signature], 1, SelectorLength))

(* An optional value, or another in its absence.                           *)
OrElse(opt, default) == IF opt = {} THEN default ELSE CHOOSE x \in opt : TRUE

(* ProjectManifest::effective_start_block and min_start_block.             *)
EffectiveStart(project, ds) == OrElse(ds.start_block, OrElse(project.start_block, 0))

MinStartBlock(project) ==
    LET starts == {EffectiveStart(project, project.data_sources[i]) : i \in DOMAIN project.data_sources}
    IN  IF starts = {} THEN OrElse(project.start_block, 0) ELSE CHOOSE s \in starts : \A t \in starts : s <= t

(* The checks of prepare_handlers on a data source and on a handler.       *)
SourceAccepted(ds) ==
    /\ ds.options \subseteq {"address", "abi"}
    /\ "address" \in ds.options => ds.address # {}
    /\ IsAddress(ds.address)

HandlerAccepted(ds, h) ==
    \/ /\ h.kind = "evm/LogHandler"
       /\ \/ h.filter.shape = "none"
          \/ /\ h.filter.shape = "log"
             /\ h.filter.event \in DOMAIN Keccak
             /\ \A i \in DOMAIN h.filter.topics : IsNumber(h.filter.topics[i], WordLength)
             /\ Len(h.filter.topics) <= 3
    \/ /\ h.kind = "evm/TransactionHandler"
       /\ \/ h.filter.shape = "none"
          \/ /\ h.filter.shape = "transaction"
             /\ h.filter.function \in DOMAIN Keccak
             /\ IsAddress(h.filter.from) /\ IsAddress(h.filter.to)
             /\ \A a \in NormalAddress(ds.address), b \in NormalAddress(h.filter.to) : a = b
    \/ /\ h.kind = "evm/BlockHandler"
       /\ \/ h.filter.shape = "none"
          \/ h.filter.shape = "block" /\ h.filter.modulo # {0} /\ h.filter.timestamp = {}

(* prepare_handlers: every handler of the manifest is accepted, or none.   *)
PreparesHandlers(project) ==
    \A i \in DOMAIN project.data_sources :
        LET ds == project.data_sources[i]
        IN  SourceAccepted(ds) /\ \A j \in DOMAIN ds.handlers : HandlerAccepted(ds, ds.handlers[j])

LogFilter(ds, f) ==
    [address |-> NormalAddress(ds.address),
     topics  |-> IF f.shape = "none" THEN <<>>
                 ELSE <<OneTopic(Normal(Keccak[f.event]))>>
                      \o [i \in DOMAIN f.topics |-> OneTopic(Normal(f.topics[i].digits))]]

TransactionFilter(ds, f) ==
    IF f.shape = "none" THEN [to |-> NormalAddress(ds.address), from |-> {}, function |-> {}]
    ELSE [to       |-> IF f.to # {} THEN NormalAddress(f.to) ELSE NormalAddress(ds.address),
          from     |-> NormalAddress(f.from),
          function |-> {SelectorOf(f.function)}]

PreparedHandler(project, ds, h) ==
    [function |-> h.function, start |-> EffectiveStart(project, ds), end |-> ds.end_block,
     kind |-> h.kind,
     filter |-> CASE h.kind = "evm/LogHandler"         -> LogFilter(ds, h.filter)
                  [] h.kind = "evm/TransactionHandler" -> TransactionFilter(ds, h.filter)
                  [] h.kind = "evm/BlockHandler"       ->
                       [modulo |-> IF h.filter.shape = "block" THEN h.filter.modulo ELSE {}]]

(* In manifest order.                                                      *)
PrepareHandlers(project) ==
    FlattenSeq([i \in DOMAIN project.data_sources |->
        LET ds == project.data_sources[i]
        IN  [j \in DOMAIN ds.handlers |-> PreparedHandler(project, ds, ds.handlers[j])]])

-----------------------------------------------------------------------------
(* Iterator::filter: the elements of a sequence that are in a set, in      *)
(* their order.  (Proofs have no definition of SelectSeq.)                 *)
Filtered(s, set) == FlattenSeq([i \in DOMAIN s |-> IF s[i] \in set THEN <<s[i]>> ELSE <<>>])

(* PreparedHandler's range; DataSource::is_active_at is the same.          *)
IsActiveAt(p, number) == number >= p.start /\ \A e \in p.end : number <= e

(* PreparedHandler::matching_inputs, as the inputs it counts.              *)
MatchingInputs(p, block) ==
    IF ~IsActiveAt(p, block.number) THEN <<>>
    ELSE CASE p.kind = "evm/BlockHandler" ->
                IF \A m \in p.filter.modulo : block.number % m = 0 THEN <<block>> ELSE <<>>
           [] p.kind = "evm/LogHandler" ->
                Filtered(block.logs, {l \in Range(block.logs) : LogMatches(p.filter, LogView(l))})
           [] p.kind = "evm/TransactionHandler" ->
                Filtered(block.transactions,
                    {t \in Range(block.transactions) : TransactionMatches(p.filter, TransactionView(t))})

(* What is to be run for a block: handlers in manifest order, the inputs   *)
(* of each in block order.                                                 *)
Invocations(handlers, block) ==
    FlattenSeq([i \in DOMAIN handlers |->
        LET inputs == MatchingInputs(handlers[i], block)
        IN  [j \in DOMAIN inputs |-> [function |-> handlers[i].function, input |-> inputs[j]]]])

-----------------------------------------------------------------------------
(* Mutant: a log is paired with the transaction at its own position.       *)
PairByPosition(block) ==
    [i \in DOMAIN block.logs |->
        [log |-> block.logs[i], block_number |-> block.number,
         transaction |-> {block.transactions[j] : j \in DOMAIN block.transactions \intersect {i}}]]

(* decode_events: every log with the transaction of its index, the last of *)
(* them if an index occurs twice.                                          *)
DecodeEvents(block) ==
    LET by_index(n) == {j \in DOMAIN block.transactions : block.transactions[j].transaction_index = n}
    IN  [i \in DOMAIN block.logs |->
            [log |-> block.logs[i], block_number |-> block.number,
             transaction |-> {block.transactions[j] :
                j \in {k \in by_index(block.logs[i].transaction_index) :
                         \A m \in by_index(block.logs[i].transaction_index) : m <= k}}]]

(* event_matches_filter.  params is empty where they do not parse as the   *)
(* filter of the handler's kind, absent ones (null) included: nothing      *)
(* matches then.                                                           *)
EventMatches(event, filter) ==
    \/ filter.handler = "event" /\ \E f \in filter.params : LogMatches(f, LogView(event.log))
    \/ filter.handler = "transaction" /\ \E f \in filter.params, tx \in event.transaction :
            TransactionMatches(f, TransactionView(tx))
=============================================================================
