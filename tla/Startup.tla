------------------------------ MODULE Startup ------------------------------
(***************************************************************************)
(* What a process does before it ingests: main::run and startup.rs.        *)
(* bootstrap() checks the configuration (Configuration.tla), the endpoints *)
(* and the database without writing; resume_position() creates the tables, *)
(* verifies the identity of the schema (Metadata.tla) and loads the        *)
(* checkpoint.                                                             *)
(* migration.rs, initialize_schema, is the same beginning with a shorter   *)
(* list of facts.  Several processes share one schema; each run of one may *)
(* be another command, as after an edit of the manifest.                   *)
(*                                                                         *)
(* The DDL is of the form IF NOT EXISTS and is not modelled beyond that it *)
(* may fail.                                                               *)
(***************************************************************************)
EXTENDS Metadata, Configuration

CONSTANTS
    Commands,   \* what a process may be started as: [setup, facts, served],
                \* whether it runs initialize_schema, the identity it verifies,
                \* and the chain its endpoints serve; for a node also its
                \* [config, dir, env]: flags, project directory, environment
    NoCommand,
    Identifiers,    \* the schema names validate_ident accepts
    MaxFaults,  \* bound: failed statements, signals and crashes
    MaxStarts   \* bound: runs over all processes

(* What a command is, as the types of the code give it: the facts of one   *)
(* call have different keys, heights are u64, and an Option holds one      *)
(* value or none.                                                          *)
Optional(S) == {o \in SUBSET S : \A x, y \in o : x = y}

ASSUME CommandAssumption ==
    \A p \in Commands :
        /\ p.facts \in CheckLists
        /\ ~p.setup =>
              /\ p.config.start_height \in Optional(Nat)
              /\ p.dir.manifest.start_block \in Optional(Nat)
              /\ \A i \in DOMAIN p.dir.manifest.data_sources :
                    p.dir.manifest.data_sources[i].start_block \in Optional(Nat)

VARIABLES
    pc,         \* where each process stands
    command,    \* what it was started as
    cancelled,  \* its shutdown token
    faults, starts

vars == <<metaVars, pc, command, cancelled, faults, starts>>

Starting == {"bootstrap", "prepare", "verifying"}
Over     == {"down", "stopped", "failed", "refused"}

Init ==
    /\ MetaInit
    /\ pc = [v \in Verifiers |-> "down"]
    /\ command = [v \in Verifiers |-> NoCommand]
    /\ cancelled = [v \in Verifiers |-> FALSE]
    /\ faults = 0 /\ starts = 0

Goto(v, where) == pc' = [pc EXCEPT ![v] = where]
Fault == faults < MaxFaults /\ faults' = faults + 1

(* The process ends.                                                       *)
Leave(v, how) ==
    /\ Goto(v, how)
    /\ command' = [command EXCEPT ![v] = NoCommand]
    /\ cancelled' = [cancelled EXCEPT ![v] = FALSE]
    /\ VerifierLeaves(v)
    /\ UNCHANGED starts

(* The operator starts it.  Flags that are not valid, or ask for more than *)
(* ingestion, end it at once.                                              *)
Start(v) ==
    /\ pc[v] \in Over /\ starts < MaxStarts
    /\ starts' = starts + 1
    /\ \E p \in Commands :
          IF p.setup \/ (Validate(p.config) /\ p.config.ingest_only)
          THEN /\ command' = [command EXCEPT ![v] = p]
               /\ Goto(v, IF p.setup THEN "prepare" ELSE "bootstrap")
          ELSE Goto(v, "failed") /\ UNCHANGED command
    /\ UNCHANGED <<metaVars, cancelled, faults>>

(* Mutant: the chain the endpoints serve is not asked for.                 *)
AcceptAnyChain(v) == TRUE

(* validate_network: the endpoints serve the chain the manifest names.     *)
ServesItsChain(v) == [key |-> "chain_id", value |-> command[v].served] \in command[v].facts

(* The database settings are found, and name a schema.                     *)
DatabaseConfigured(p) ==
    \E db \in ResolveDb(p.config, p.env) : Connects(db, Identifiers)

(* bootstrap(): nothing is written before it succeeds.                     *)
Bootstrap(v) ==
    /\ pc[v] = "bootstrap" /\ ~cancelled[v]
    /\ IF /\ LocalChecks(command[v].config, command[v].dir)
          /\ ServesItsChain(v)
          /\ DatabaseConfigured(command[v])
       THEN Goto(v, "prepare") /\ UNCHANGED <<metaVars, cancelled, command, starts>>
       ELSE Leave(v, "failed")
    /\ UNCHANGED faults

(* The token is watched while bootstrap() runs, and not after it until the *)
(* fetch loop.                                                             *)
Stop(v) ==
    /\ pc[v] = "bootstrap" /\ cancelled[v]
    /\ Leave(v, "stopped")
    /\ UNCHANGED faults

(* ensure_schema and ensure_tables, then verify_project, or                *)
(* verify_or_initialize for initialize_schema.                             *)
Prepare(v) ==
    /\ pc[v] = "prepare"
    /\ CallVerify(v, command[v].facts)
    /\ Goto(v, "verifying")
    /\ UNCHANGED <<command, cancelled, faults, starts>>

(* The transaction proceeds.                                               *)
TakeLock(v) ==
    /\ LockMetadata(v)
    /\ UNCHANGED <<pc, command, cancelled, faults, starts>>

RunCheck(v) ==
    /\ Compared(v) \/ \E c \in Fact : Compare(v, c) \/ Stamp(v, c)
    /\ UNCHANGED <<pc, command, cancelled, faults, starts>>

EndCheck(v) ==
    /\ CommitFacts(v)
    /\ IF check'[v].phase = "ok" THEN UNCHANGED faults ELSE Fault
    /\ UNCHANGED <<pc, command, cancelled, starts>>

BreakCheck(v) ==
    /\ FailVerify(v) /\ Fault
    /\ UNCHANGED <<pc, command, cancelled, starts>>

(* verify_facts returned an error.                                         *)
NotVerified(v) ==
    /\ pc[v] = "verifying" /\ check[v].phase \in {"conflict", "err"}
    /\ Leave(v, IF check[v].phase = "conflict" THEN "refused" ELSE "failed")
    /\ UNCHANGED faults

(* verify_facts returned Ok.  A node reads the checkpoint and creates the  *)
(* journal: it is ready to ingest.  initialize_schema creates the entity   *)
(* tables and writes the schema version again.                             *)
Finish(v) ==
    /\ pc[v] = "verifying" /\ check[v].phase = "ok"
    /\ Goto(v, "ready")
    /\ IF command[v].setup
       THEN \E c \in check[v].given : c.key = "schema_version" /\ SetVerified(v, c)
       ELSE UNCHANGED metaVars
    /\ UNCHANGED <<command, cancelled, faults, starts>>

(* An endpoint or the database does not answer, or a statement fails.      *)
StepFails(v) ==
    /\ \/ pc[v] = "bootstrap" /\ ~cancelled[v]
       \/ pc[v] = "prepare"
       \/ pc[v] = "verifying" /\ check[v].phase = "ok"
    /\ Fault
    /\ Leave(v, "failed")

(* Ingestion ends, or is stopped: run() returns.                           *)
Return(v) ==
    /\ pc[v] = "ready"
    /\ Leave(v, "stopped")
    /\ UNCHANGED faults

Signal(v) ==
    /\ pc[v] \in Starting /\ ~command[v].setup /\ ~cancelled[v]
    /\ Fault
    /\ cancelled' = [cancelled EXCEPT ![v] = TRUE]
    /\ UNCHANGED <<metaVars, pc, command, starts>>

(* The process dies, or a second signal exits it.                          *)
Crash(v) ==
    /\ pc[v] \in Starting \union {"ready"}
    /\ Fault
    /\ Leave(v, "down")

Step(v) ==
    \/ Bootstrap(v) \/ Stop(v) \/ Prepare(v) \/ TakeLock(v) \/ RunCheck(v)
    \/ EndCheck(v) \/ NotVerified(v) \/ Finish(v)

Next ==
    \E v \in Verifiers :
        \/ Start(v)
        \/ Bootstrap(v)
        \/ Stop(v)
        \/ Prepare(v)
        \/ TakeLock(v)
        \/ RunCheck(v)
        \/ EndCheck(v)
        \/ BreakCheck(v)
        \/ NotVerified(v)
        \/ Finish(v)
        \/ StepFails(v)
        \/ Return(v)
        \/ Signal(v)
        \/ Crash(v)

Spec == Init /\ [][Next]_vars

(* Tasks are polled, statements return, and a table lock that stays free   *)
(* is granted.  Faults, signals, crashes and starts have no fairness.      *)
FairSpec == Spec /\ \A v \in Verifiers : WF_vars(Step(v))

-----------------------------------------------------------------------------
(* Whatever is written to a schema by processes that are ready at the same *)
(* time, or were ready before and after restarts, is of one chain: the     *)
(* chain the endpoints of each of them serve is the one the schema is      *)
(* stamped with.                                                           *)
OneChainPerSchema ==
    \A v \in Verifiers : pc[v] = "ready" /\ ~command[v].setup =>
        facts["chain_id"] = command[v].served

(* A node that has come as far as the schema has a block to ingest: the    *)
(* range that follows from its flags and, where they give no start, from   *)
(* its manifest is not empty, and its heights can be stored.               *)
ReachesSchemaWithWork ==
    \A v \in Verifiers :
        pc[v] \in {"prepare", "verifying", "ready"} /\ ~command[v].setup =>
            LET c == command[v].config
                starts_at == c.start_height \union
                    (IF c.start_height # {} THEN {} ELSE {MinStartBlock(command[v].dir.manifest)})
            IN  \E h \in 0..MaxSqlHeight : h \in starts_at /\ \A e \in c.end_height : h <= e

-----------------------------------------------------------------------------
(* What makes the two inductive: a process that has started was started as *)
(* a command ...                                                           *)
StartedAsCommand ==
    /\ pc \in [Verifiers -> Starting \union Over \union {"ready"}]
    /\ command \in [Verifiers -> Commands \union {NoCommand}]
    /\ \A v \in Verifiers : pc[v] \in Starting \union {"ready"} =>
          /\ command[v] \in Commands
          /\ pc[v] = "bootstrap" => ~command[v].setup

(* ... what it verifies, or has verified, is the identity of that command  *)
(* and nothing is left of an earlier run ...                               *)
VerifiesItsCommand ==
    \A v \in Verifiers :
        /\ check[v].phase # "idle" =>
              pc[v] \in {"verifying", "ready"} /\ check[v].given = command[v].facts
        /\ pc[v] = "ready" => check[v].phase = "ok"

(* ... and a node has passed bootstrap() before it touches the schema.     *)
PassedBootstrap ==
    \A v \in Verifiers : pc[v] \in {"prepare", "verifying", "ready"} /\ ~command[v].setup =>
        ServesItsChain(v) /\ EffectiveRangeValid(command[v].config, command[v].dir)

StartupInvariant == StartedAsCommand /\ VerifiesItsCommand /\ PassedBootstrap

-----------------------------------------------------------------------------
(* Every process that is started ends or becomes ready, however many wait  *)
(* for the same lock and whichever of them fails while it holds it.        *)
StartupEnds == \A v \in Verifiers : pc[v] \in Starting ~> pc[v] \in Over \union {"ready"}
=============================================================================
