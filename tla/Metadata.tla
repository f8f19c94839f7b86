------------------------------ MODULE Metadata ------------------------------
(***************************************************************************)
(* MetadataStore::verify_facts of crates/store/src/metadata.rs: processes  *)
(* that share a schema compare the identity they were started with to the  *)
(* facts the schema holds, and stamp the facts it lacks, in a transaction  *)
(* that locks the table.  Every SQL statement is a step.                   *)
(*                                                                         *)
(* The facts of one call have different keys, and under the lock nobody    *)
(* can tell in which order they are read or written: a list of checks is a *)
(* set.                                                                    *)
(***************************************************************************)
EXTENDS FiniteSets

CONSTANTS
    Keys, Values,   \* metadata keys and the text stored under them
    Absent,         \* a key without a row
    CheckLists,     \* the sets of facts a process may call verify_facts with
    Verifiers, NoVerifier

Fact == [key : Keys, value : Values]

ASSUME AbsentAssumption == Absent \notin Values
ASSUME VerifierAssumption == NoVerifier \notin Verifiers
ASSUME CheckListAssumption ==
    \A cs \in CheckLists :
        /\ cs \subseteq Fact
        /\ \A c, d \in cs : c.key = d.key => c = d

VARIABLES
    facts,      \* the committed rows: key -> value
    lock,       \* who holds the table lock
    check       \* per process: its call of verify_facts

metaVars == <<facts, lock, check>>

(* A call: its phase, the facts it was given, those it has not compared    *)
(* yet, those found missing, and those written but not committed.          *)
Call(phase, given, todo, missing, written) ==
    [phase |-> phase, given |-> given, todo |-> todo,
     missing |-> missing, written |-> written]
NoCall == Call("idle", {}, {}, {}, {})

Locked == {"comparing", "stamping"}
Phases == Locked \union {"idle", "begun", "ok", "conflict", "err"}

MetaInit ==
    /\ facts = [k \in Keys |-> Absent]
    /\ lock = NoVerifier
    /\ check = [v \in Verifiers |-> NoCall]

(* The call ends: the transaction is over and the lock is released.        *)
EndCall(v, phase) ==
    /\ check' = [check EXCEPT ![v] = Call(phase, @.given, {}, {}, {})]
    /\ lock' = IF lock = v THEN NoVerifier ELSE lock

(* verify_facts(checks): a client of the pool begins a transaction.        *)
CallVerify(v, given) ==
    /\ check[v].phase = "idle"
    /\ check' = [check EXCEPT ![v] = Call("begun", given, given, {}, {})]
    /\ UNCHANGED <<facts, lock>>

(* Mutant: the lock does not exclude other verifiers.                      *)
LockShared(v) ==
    /\ check[v].phase = "begun"
    /\ lock' = IF lock = NoVerifier THEN v ELSE lock
    /\ check' = [check EXCEPT ![v].phase = "comparing"]
    /\ UNCHANGED facts

(* LOCK TABLE ... IN EXCLUSIVE MODE *)
LockMetadata(v) ==
    /\ check[v].phase = "begun" /\ lock = NoVerifier
    /\ lock' = v
    /\ check' = [check EXCEPT ![v].phase = "comparing"]
    /\ UNCHANGED facts

(* Mutant: a mismatch is taken for a missing fact.                         *)
CompareMissingOnMismatch(v, c) ==
    /\ check[v].phase = "comparing" /\ c \in check[v].todo
    /\ check' = [check EXCEPT ![v].todo = @ \ {c},
                              ![v].missing = IF facts[c.key] = c.value THEN @ ELSE @ \union {c}]
    /\ UNCHANGED <<facts, lock>>

(* SELECT value ... WHERE key = $1: equal, missing, or somebody else's.    *)
(* Returning the conflict drops the transaction.                           *)
Compare(v, c) ==
    /\ check[v].phase = "comparing" /\ c \in check[v].todo
    /\ \/ /\ facts[c.key] = c.value
          /\ check' = [check EXCEPT ![v].todo = @ \ {c}]
          /\ UNCHANGED lock
       \/ /\ facts[c.key] = Absent
          /\ check' = [check EXCEPT ![v] = Call(@.phase, @.given, @.todo \ {c},
                                             @.missing \union {c}, @.written)]
          /\ UNCHANGED lock
       \/ /\ facts[c.key] \notin {c.value, Absent}
          /\ EndCall(v, "conflict")
    /\ UNCHANGED facts

(* Every fact is compared.  The outcome, Initialized if any is missing and *)
(* Resumed otherwise, is only logged.                                      *)
Compared(v) ==
    /\ check[v].phase = "comparing" /\ check[v].todo = {}
    /\ check' = [check EXCEPT ![v].phase = "stamping"]
    /\ UNCHANGED <<facts, lock>>

With(fs, written) ==
    [k \in Keys |-> IF \E c \in written : c.key = k
                    THEN (CHOOSE c \in written : c.key = k).value ELSE fs[k]]

(* Mutant: the fact is written outside the transaction.                    *)
StampAtOnce(v, c) ==
    /\ check[v].phase = "stamping" /\ c \in check[v].missing
    /\ check' = [check EXCEPT ![v].missing = @ \ {c}]
    /\ facts' = With(facts, {c})
    /\ UNCHANGED lock

(* set_tx: the row is written in the transaction.                          *)
Stamp(v, c) ==
    /\ check[v].phase = "stamping" /\ c \in check[v].missing
    /\ check' = [check EXCEPT ![v] = Call(@.phase, @.given, @.todo,
                                       @.missing \ {c}, @.written \union {c})]
    /\ UNCHANGED <<facts, lock>>

(* Mutant: the lock belongs to the session and outlives its transaction.   *)
CommitKeepsLock(v) ==
    /\ check[v].phase = "stamping" /\ check[v].missing = {}
    /\ facts' = With(facts, check[v].written)
    /\ check' = [check EXCEPT ![v] = Call("ok", @.given, {}, {}, {})]
    /\ UNCHANGED lock

(* COMMIT takes effect; its answer may be lost.                            *)
CommitFacts(v) ==
    /\ check[v].phase = "stamping" /\ check[v].missing = {}
    /\ facts' = With(facts, check[v].written)
    /\ \E phase \in {"ok", "err"} : EndCall(v, phase)

(* A statement fails, or the connection is lost before COMMIT.             *)
FailVerify(v) ==
    /\ check[v].phase \in {"begun"} \union Locked
    /\ EndCall(v, "err")
    /\ UNCHANGED facts

(* MetadataStore::set as initialize_schema calls it after verification: an *)
(* upsert of its own, which waits for the table lock.                      *)
SetVerified(v, c) ==
    /\ check[v].phase = "ok" /\ c \in check[v].given
    /\ lock = NoVerifier
    /\ facts' = With(facts, {c})
    /\ UNCHANGED <<lock, check>>

(* The process goes away, and with it its transaction.                     *)
VerifierLeaves(v) ==
    /\ check' = [check EXCEPT ![v] = NoCall]
    /\ lock' = IF lock = v THEN NoVerifier ELSE lock
    /\ UNCHANGED facts

MetaNext ==
    \E v \in Verifiers :
        \/ \E given \in CheckLists : CallVerify(v, given)
        \/ LockMetadata(v)
        \/ \E c \in Fact : Compare(v, c) \/ Stamp(v, c) \/ SetVerified(v, c)
        \/ Compared(v)
        \/ CommitFacts(v)
        \/ FailVerify(v)
        \/ VerifierLeaves(v)

MetaSpec == MetaInit /\ [][MetaNext]_metaVars

-----------------------------------------------------------------------------
(* Every key holds a value or nothing, and every call is well formed.      *)
MetaTypeOK ==
    /\ facts \in [Keys -> Values \union {Absent}]
    /\ lock \in Verifiers \union {NoVerifier}
    /\ check \in [Verifiers -> [phase : Phases, given : SUBSET Fact, todo : SUBSET Fact,
                                missing : SUBSET Fact, written : SUBSET Fact]]

Holds(c) == facts[c.key] = c.value

(* A process whose verification succeeded runs on a schema that holds its  *)
(* own identity, every fact of it, and goes on doing so whoever else       *)
(* verifies, fails or crashes (verify_facts returning Ok).                 *)
VerifiedIdentityHolds ==
    \A v \in Verifiers : check[v].phase = "ok" => \A c \in check[v].given : Holds(c)

(* A schema is never half stamped: every fact in it belongs to a list all  *)
(* of which is there, so a crash between two set_tx leaves nothing behind. *)
NeverHalfStamped ==
    \A k \in Keys : facts[k] # Absent =>
        \E cs \in CheckLists :
            /\ \E c \in cs : c.key = k
            /\ \A c \in cs : Holds(c)

(* A process is refused only for a fact somebody else stamped, so the one  *)
(* that stamped a schema and lost the answer is accepted when it retries.  *)
RefusedByForeignFact ==
    \A v \in Verifiers : check[v].phase = "conflict" =>
        \E c \in check[v].given : facts[c.key] \notin {c.value, Absent}

(* No step changes a fact once it is committed.                            *)
FactsNeverChange ==
    [][\A k \in Keys : facts[k] # Absent => facts'[k] = facts[k]]_metaVars

(* The strengthening the proofs need.  Exactly the process between LOCK    *)
(* TABLE and the end of its transaction holds the lock ...                 *)
LockIsHeld ==
    \A v \in Verifiers : check[v].phase \in Locked <=> lock = v

(* ... a call under way was given one of the lists ...                     *)
GivenIsList ==
    \A v \in Verifiers : check[v].phase # "idle" => check[v].given \in CheckLists

(* ... and what it has read still stands: each of its facts is yet to be   *)
(* compared, holds, or is missing from the table and about to be written.  *)
ReadsStand ==
    \A v \in Verifiers : check[v].phase \in Locked =>
        /\ \A c \in check[v].given :
              c \in check[v].todo \/ Holds(c) \/ c \in check[v].missing \union check[v].written
        /\ check[v].todo \subseteq check[v].given
        /\ check[v].missing \union check[v].written \subseteq check[v].given
        /\ \A c \in check[v].missing \union check[v].written : facts[c.key] = Absent
        /\ check[v].phase = "stamping" => check[v].todo = {}

(* A call that waits for the lock has read nothing.                        *)
FreshCall ==
    \A v \in Verifiers : check[v].phase = "begun" =>
        /\ check[v].todo = check[v].given
        /\ check[v].missing = {} /\ check[v].written = {}

MetaInvariant ==
    /\ MetaTypeOK
    /\ LockIsHeld
    /\ GivenIsList
    /\ FreshCall
    /\ ReadsStand
    /\ VerifiedIdentityHolds
    /\ NeverHalfStamped
    /\ RefusedByForeignFact
=============================================================================
