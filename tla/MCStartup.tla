----------------------------- MODULE MCStartup -----------------------------
(* Small instances of Startup: the node for two manifests of one chain,    *)
(* for another chain, and with endpoints that serve a chain the manifest   *)
(* does not name; initialize_schema for both chains; and nodes whose       *)
(* flags, project or database settings are at fault.  Of the keys,         *)
(* project_id is treated like chain_id and mapping_abi_version like        *)
(* schema_version: they are left out.                                      *)
EXTENDS Startup

MCKeys == {"chain_id", "schema_version", "manifest_hash"}
MCValues == {"1", "137", "v1", "ha", "hb", "edited"}

F(key, value) == [key |-> key, value |-> value]
SetupFacts(chain) == {F("chain_id", chain), F("schema_version", "v1")}

(* A project of one source, from the block it names.                       *)
Path     == [absolute |-> FALSE, exists |-> TRUE, inside |-> TRUE]
Endpoint == [parses |-> TRUE, scheme |-> "https", host |-> TRUE, fragment |-> FALSE]
Dir(start) ==
    [exists |-> TRUE, is_dir |-> TRUE, candidates |-> 1, manifest_valid |-> TRUE,
     schema |-> Path, schema_utf8 |-> TRUE, schema_parses |-> TRUE, endpoints |-> <<Endpoint>>,
     manifest |-> [start_block |-> {}, data_sources |-> <<
        [kind |-> "evm/Runtime", options |-> {}, address |-> {}, start_block |-> {start}, end_block |-> {},
         assets |-> {Path}, handlers |-> <<[function |-> "onBlock", kind |-> "evm/BlockHandler",
                                            filter |-> [shape |-> "none"]]>>]>>]]
Ingest == [DefaultConfig EXCEPT !.ingest_only = TRUE]
NoEnv  == [name \in DOMAIN DefaultDb |-> {}]
Text(t) == [raw |-> t, utf8 |-> {t}]
Url    == [parses |-> TRUE, scheme |-> "postgres", host |-> {}, port |-> {}, username |-> Text(""),
           password |-> {}, database |-> Text("db"), schema |-> {}]

Setup(chain) == [setup |-> TRUE, facts |-> SetupFacts(chain), served |-> chain]
Node(chain, manifest, served) ==
    [setup |-> FALSE, served |-> served, env |-> NoEnv, dir |-> Dir(0),
     config |-> [Ingest EXCEPT !.end_height = {1}, !.database_url = IF manifest = "hb" THEN {Url} ELSE {}],
     facts |-> SetupFacts(chain) \union {F("manifest_hash", manifest)}]

Faulty ==
    LET node == Node("1", "ha", "1")
    IN  {[node EXCEPT !.config.unfinalized_blocks = TRUE],
         [node EXCEPT !.config.ingest_only = FALSE],
         [node EXCEPT !.config.end_height = {1}, !.dir = Dir(2)],
         [node EXCEPT !.config.rpc_urls = <<[Endpoint EXCEPT !.scheme = "ftp"]>>],
         [node EXCEPT !.dir.schema.inside = FALSE],
         [node EXCEPT !.config.database_url = {[Url EXCEPT !.database = Text("")]}],
         [node EXCEPT !.env.schema = {"1-2"}]}

MCCommands ==
    Faulty \union
    {Setup("1"), Setup("137"), Node("1", "ha", "1"), Node("1", "edited", "1"),
     Node("137", "hb", "137"), Node("137", "hb", "1")}

MCCheckLists == {p.facts : p \in MCCommands}
=============================================================================
