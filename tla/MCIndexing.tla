----------------------------- MODULE MCIndexing ----------------------------
(***************************************************************************)
(* Indexing for TLC: a project with every kind of handler, two entities    *)
(* and a bounded source, three projects that are refused, and blocks to    *)
(* choose from at each of four heights.                                    *)
(***************************************************************************)
EXTENDS Indexing

(* Numbers of two digits, in three spellings.                              *)
Lower(d) == [prefix |-> "0x", case |-> "lower", digits |-> d]
Upper(d) == [prefix |-> "0x", case |-> "upper", digits |-> d]
Bare(d)  == [prefix |-> "", case |-> "lower", digits |-> d]

MCKeccak == [s \in {"Transfer(address)", "mint()"} |-> IF s = "mint()" THEN <<3, 1>> ELSE <<1, 2>>]

Name(w, n) == [words |-> w, spelling |-> "camel", number |-> n]
TransferName == Name(<<"transfer">>, "singular")
PersonName   == Name(<<"person">>, "irregular")
NonNull(base) == [wrap |-> <<"NonNull">>, base |-> base]
Plainly(base) == [wrap |-> <<>>, base |-> base]
Field(w, type) == [name |-> [words |-> <<w>>, spelling |-> w], type |-> type]
Entity(name, fields) == [kind |-> "object", directives |-> {"entity"}, name |-> name, fields |-> fields]

MCDocument == [definitions |-> <<
    Entity(TransferName, <<Field("id", NonNull("ID")), Field("amount", NonNull("BigInt")),
                           Field("data", Plainly("Bytes"))>>),
    [Entity(Name(<<"note">>, "singular"), <<Field("id", NonNull("ID"))>>) EXCEPT !.directives = {}],
    Entity(PersonName, <<Field("name", Plainly("String")), Field("id", NonNull("ID"))>>)>>]

(* PostgreSQL, for the texts that occur.                                   *)
Texts == {Lower(<<5>>), Upper(<<5>>), Bare(<<5>>), Bare(<<0, 5>>), Bare(<<7>>), Lower(<<7>>)}
MCCast == [text    |-> [t \in Texts |-> t],
           numeric |-> [t \in {x \in Texts : x.prefix = ""} |->
                          IF t.digits[1] = 0 THEN Bare(Tail(t.digits)) ELSE t],
           bytea   |-> [t \in {[x EXCEPT !.prefix = ""] : x \in Texts} |-> Bare(t.digits)]]
          @@ [type \in Range(ColumnTypes) |-> <<>>]

(* The keys and rows the mapping below can write.                          *)
Ids    == {Bare(<<5>>), Upper(<<5>>), Lower(<<5>>)}
MCKeys == {<<TableName(TransferName), Bare(<<7>>)>>} \union ({TableName(PersonName)} \X Ids)
MCRows == {<<"id">> :> {Bare(<<7>>)} @@ <<"amount">> :> {Bare(a)} @@ <<"data">> :> d :
                a \in {<<5>>, <<7>>}, d \in {{}, {Bare(<<5>>)}}}
          \union {<<"id">> :> {i} @@ <<"name">> :> n : i \in Ids, n \in {{}, {Lower(<<7>>)}}}

MCBefore(x, y) ==
    LET rank(t) == 4 * t.digits[1] + (IF t.prefix = "" THEN 0 ELSE 2) + (IF t.case = "lower" THEN 0 ELSE 1)
    IN  rank(x) < rank(y)

Contract == <<4, 4>>
Manifest == [start_block |-> {1}, data_sources |-> <<
    [options |-> {"address", "abi"}, address |-> {Upper(Contract)}, start_block |-> {}, end_block |-> {3},
     handlers |-> <<
        [function |-> "onTransfer", kind |-> "evm/LogHandler",
         filter |-> [shape |-> "log", event |-> "Transfer(address)", topics |-> <<Bare(<<9, 9>>)>>]],
        [function |-> "onMint", kind |-> "evm/TransactionHandler",
         filter |-> [shape |-> "transaction", function |-> "mint()", from |-> {}, to |-> {Bare(Contract)}]]>>],
    [options |-> {}, address |-> {}, start_block |-> {2}, end_block |-> {},
     handlers |-> <<
        [function |-> "onAny", kind |-> "evm/LogHandler", filter |-> [shape |-> "none"]],
        [function |-> "onBlock", kind |-> "evm/BlockHandler",
         filter |-> [shape |-> "block", modulo |-> {2}, timestamp |-> {}]]>>]>>]

GuestModule == [abi_version |-> 1, imports |-> {[module |-> "superquery", name |-> "sq_store_set"]},
                exports |-> {"sq_abi_version", "sq_alloc", "sq_dealloc",
                             "onTransfer", "onMint", "onAny", "onBlock"}]

Good == [manifest |-> Manifest, module |-> GuestModule, document |-> MCDocument]
MCProjects == {
    Good,
    [Good EXCEPT !.manifest.data_sources[2].handlers[2].filter.modulo = {0}],
    [Good EXCEPT !.module.imports = {[module |-> "wasi", name |-> "clock_time_get"]}],
    [Good EXCEPT !.document.definitions[3].fields[1].type.base = "Person"]}

MCConfigs == {[DefaultConfig EXCEPT !.historical = m, !.unfinalized_blocks = u] :
                m \in {"disabled", "height"}, u \in BOOLEAN}

(* The blocks.  A log's last topic is the text its handler works with.     *)
Tx(i, to, input) == [transaction_index |-> i, from |-> Lower(<<1, 1>>), to |-> to, input |-> Lower(input)]
Log(i, n, a, topics) == [transaction_index |-> i, log_index |-> n, address |-> a, topics |-> topics]
Event == Lower(<<1, 2>>)
Block(h, fork, txs, logs) == [number |-> h, fork |-> fork, transactions |-> txs, logs |-> logs]
Creation == Tx(0, {}, <<3, 1>>)
Mint     == Tx(1, {Lower(Contract)}, <<3, 1, 7>>)

MCBlocks == <<
    {Block(1, "a", <<Creation, Mint>>, <<Log(1, 0, Lower(Contract), <<Event, Upper(<<9, 9>>)>>)>>),
     Block(1, "b", <<Creation>>, <<Log(0, 0, Lower(Contract), <<Event, Bare(<<9, 9>>)>>)>>)},
    {Block(2, f, <<Creation, Mint>>, <<Log(0, 0, Lower(Contract), <<Event>>),
                                       Log(1, 1, Lower(Contract), <<Event, Lower(<<9, 9>>)>>)>>)
        : f \in {"a", "b", "c"}},
    {Block(3, "a", <<Mint>>, <<Log(1, 0, Lower(<<8, 8>>), <<>>)>>), Block(3, "b", <<>>, <<>>)},
    {Block(4, f, <<>>, <<>>) : f \in {"a", "b"}}>>

(* The mapping.                                                            *)
Str(t) == {[json |-> "string", text |-> t]}
Id(t) == IdName :> Str(t)
FieldName(w) == [words |-> <<w>>, spelling |-> w]
Save(entity, id, members) ==
    [function |-> "sq_store_set", entity |-> entity, id |-> id, data |-> [is_object |-> TRUE, members |-> members]]
Delete(entity, id) == [function |-> "sq_store_remove", entity |-> entity, id |-> id]

MCGuest(f, input) ==
    CASE f = "onTransfer" -> <<
            Save(TransferName, Bare(<<7>>), Id(Bare(<<7>>)) @@ FieldName("amount") :> Str(Bare(<<0, 5>>))
                                           @@ FieldName("data") :> Str(Upper(<<5>>))),
            Save(TransferName, Lower(<<7>>), Id(Bare(<<7>>)) @@ FieldName("amount") :> Str(Bare(<<7>>))),
            [function |-> "sq_log"]>>
      [] f = "onMint" -> <<
            Save(Name(<<"person">>, "plural"), Bare(<<5>>), Id(Bare(<<5>>))),
            Save(PersonName, Bare(<<5>>), Id(Bare(<<5>>)) @@ FieldName("name") :> Str(Lower(<<7>>)))>>
      [] f = "onAny" -> IF input.topics = <<>>
            THEN <<Delete(TransferName, Bare(<<7>>)), Save(PersonName, Lower(<<5>>), Id(Lower(<<5>>)))>>
            ELSE <<Save(PersonName, Upper(<<5>>), Id(Upper(<<5>>)))>>
      [] f = "onBlock" -> IF input.fork = "c"     \* the amount is no number
            THEN <<Save(TransferName, Bare(<<5>>), Id(Bare(<<5>>)) @@ FieldName("amount") :> Str(Upper(<<5>>)))>>
            ELSE IF input.fork = "a"
            THEN <<Save(TransferName, Bare(<<7>>), Id(Bare(<<7>>)) @@ FieldName("amount") :> Str(Bare(<<7>>))),
                   Delete(PersonName, Upper(<<5>>))>>
            ELSE <<Save(PersonName, Bare(<<5>>), Id(Bare(<<5>>)))>>
=============================================================================
