--------------------------- MODULE Configuration ---------------------------
(***************************************************************************)
(* What an invocation must satisfy before the node touches anything:       *)
(* NodeConfig::validate, the loading of the project, the endpoints, and    *)
(* the database settings (crates/config, startup.rs).                      *)
(*                                                                         *)
(* Files, URLs and identifiers are records of what the checks look at.  An *)
(* optional value is a set of at most one element.                         *)
(***************************************************************************)
EXTENDS Selection

CONSTANTS
    MaxSqlHeight,   \* i64::MAX
    Parallelism     \* available_parallelism()

ASSUME SqlHeightAssumption == MaxSqlHeight \in Nat

(* HistoricalMode::is_enabled.                                             *)
IsEnabled(mode) == mode # "disabled"

(* The defaults of the flags.  Times, fuel and memory are only compared    *)
(* with zero.                                                              *)
DefaultConfig ==
    [rpc_urls |-> <<>>, database_url |-> {}, ingest_only |-> FALSE,
     start_height |-> {}, end_height |-> {},
     batch_size |-> 2, max_in_flight |-> 1, queue_capacity |-> 4, workers |-> {},
     rpc_timeout_secs |-> 1, rpc_max_retries |-> 1, query_limit |-> 1,
     mapping_fuel |-> 1, mapping_timeout_ms |-> 1, mapping_memory_mb |-> 1,
     historical |-> "height", unfinalized_blocks |-> FALSE]

ResolvedWorkers(c) == OrElse(c.workers, Parallelism)

(* Mutant: blocks that may be orphaned are indexed without history.        *)
HistoryNotNeeded(c) == TRUE

(* The rule of validate that rewinds depend on.                            *)
HistoryForRewind(c) == c.unfinalized_blocks => IsEnabled(c.historical)

(* NodeConfig::validate.                                                   *)
Validate(c) ==
    /\ \A value \in {c.batch_size, c.max_in_flight, c.queue_capacity, c.rpc_timeout_secs,
                     c.rpc_max_retries, ResolvedWorkers(c), c.query_limit, c.mapping_fuel,
                     c.mapping_timeout_ms, c.mapping_memory_mb} : value > 0
    /\ \A h \in c.start_height \union c.end_height : h <= MaxSqlHeight
    /\ ~(c.ingest_only /\ c.unfinalized_blocks)
    /\ \A s \in c.start_height, e \in c.end_height : s <= e
    /\ HistoryForRewind(c)
    /\ c.queue_capacity >= c.batch_size

-----------------------------------------------------------------------------
(* read_input: a file of the project, by a path that stays inside it.      *)
ReadsInput(path) == ~path.absolute /\ path.exists /\ path.inside

ResolvesProject(dir) == dir.exists /\ dir.is_dir

(* LoadedProject::load: exactly one manifest, that parses and passes the   *)
(* SDK's validation, of the kinds this node has, and every file it names.  *)
LoadsProject(dir) ==
    /\ dir.candidates = 1
    /\ dir.manifest_valid
    /\ \A i \in DOMAIN dir.manifest.data_sources :
          LET ds == dir.manifest.data_sources[i]
          IN  /\ ds.kind = "evm/Runtime"
              /\ \A j \in DOMAIN ds.handlers :
                    ds.handlers[j].kind \in {"evm/LogHandler", "evm/TransactionHandler", "evm/BlockHandler"}
              /\ \A asset \in ds.assets : ReadsInput(asset)
    /\ ReadsInput(dir.schema) /\ dir.schema_utf8

(* validate_endpoint.                                                      *)
EndpointValid(url) ==
    url.parses /\ url.scheme \in {"http", "https"} /\ url.host /\ ~url.fragment

(* The flags win over the manifest; resolve_endpoints.                     *)
Endpoints(c, dir) == IF c.rpc_urls # <<>> THEN c.rpc_urls ELSE dir.endpoints
ResolvesEndpoints(urls) == urls # <<>> /\ \A i \in DOMAIN urls : EndpointValid(urls[i])

EffectiveStartHeight(c, dir) == OrElse(c.start_height, MinStartBlock(dir.manifest))

(* Mutant: only the flags are compared.                                    *)
RangeOfFlags(c, dir) == \A s \in c.start_height, e \in c.end_height : s <= e

(* bootstrap's check of the range that will really be indexed.             *)
EffectiveRangeValid(c, dir) ==
    LET start == EffectiveStartHeight(c, dir)
    IN  start <= MaxSqlHeight /\ \A e \in c.end_height : start <= e

(* The checks of bootstrap that need neither an endpoint nor a database.   *)
LocalChecks(c, dir) ==
    /\ ResolvesProject(dir) /\ LoadsProject(dir)
    /\ dir.schema_parses
    /\ ResolvesEndpoints(Endpoints(c, dir))
    /\ PreparesHandlers(dir.manifest)
    /\ EffectiveRangeValid(c, dir)

-----------------------------------------------------------------------------
(* DbConfig::default, from_url, from_env and resolve.  A component of a    *)
(* URL is [raw, utf8]: decode falls back to the raw text where the escapes *)
(* are no text.                                                            *)
DefaultDb == [host |-> "127.0.0.1", port |-> 5432, username |-> "postgres",
              password |-> "postgres", database |-> "postgres", schema |-> "public"]

Decode(component) == OrElse(component.utf8, component.raw)

UrlValid(url) ==
    url.parses /\ url.scheme \in {"postgres", "postgresql"} /\ Decode(url.database) # ""

FromUrl(url) ==
    [host     |-> OrElse(url.host, DefaultDb.host),
     port     |-> OrElse(url.port, DefaultDb.port),
     username |-> IF url.username.raw = "" THEN DefaultDb.username ELSE Decode(url.username),
     password |-> OrElse({Decode(p) : p \in url.password}, DefaultDb.password),
     database |-> Decode(url.database),
     schema   |-> OrElse(url.schema, DefaultDb.schema)]

(* A variable that is not set, or a port that is no number, is ignored.    *)
FromEnv(env) == [name \in DOMAIN DefaultDb |-> OrElse(env[name], DefaultDb[name])]

(* The settings, or none: an error.                                        *)
ResolveDb(c, env) ==
    IF c.database_url = {} THEN {FromEnv(env)} ELSE {FromUrl(u) : u \in {x \in c.database_url : UrlValid(x)}}

(* Database::connect refuses a schema that is no identifier                *)
(* (validate_ident), and dials nothing.                                    *)
Connects(db, identifiers) == db.schema \in identifiers
=============================================================================
