--------------------------- MODULE IngestionStore ---------------------------
(***************************************************************************)
(* The ingestion journal (crates/store/src/ingestion.rs): one table of     *)
(* headers, and a commit() that runs one PostgreSQL transaction            *)
(*                                                                         *)
(*     LOCK TABLE .. EXCLUSIVE ; SELECT latest ; INSERT ; COMMIT           *)
(*                                                                         *)
(* for any number of clients on the same schema.  Each statement is a      *)
(* step, so the clients interleave as their connections do.  A transaction *)
(* that fails, or whose client disappears, is rolled back and its lock     *)
(* released; a COMMIT may take effect although its answer is lost.         *)
(***************************************************************************)
EXTENDS Headers

CONSTANTS Clients,       \* database clients writing this schema
          NoClient,      \* nobody holds the table lock
          NoHeader,      \* no commit is under way
          MaxSqlHeight   \* i64::MAX, the largest height the table can hold

ASSUME ClientAssumption == NoClient \notin Clients /\ NoHeader \notin Header
ASSUME MaxSqlHeightAssumption == MaxSqlHeight \in Nat

VARIABLES
    journal,   \* the committed rows
    lock,      \* who holds the EXCLUSIVE table lock
    tx         \* per client: [phase, header, row]; row holds what the
               \* transaction has inserted and not committed

storeVars == <<journal, lock, tx>>

Phases == {"idle", "begun", "locked", "insert", "finish", "ok", "err"}
InTransaction == {"locked", "insert", "finish"}
Tx(phase, header, row) == [phase |-> phase, header |-> header, row |-> row]
NoTx == Tx("idle", NoHeader, {})

StoreInit ==
    /\ journal = {}
    /\ lock = NoClient
    /\ tx = [c \in Clients |-> NoTx]

(* ORDER BY height DESC LIMIT 1, on a table that is not empty.             *)
Latest(rows) == CHOOSE r \in rows : \A q \in rows : q.height <= r.height

(* commit() is called: the height must fit an i64 and the hash must not be *)
(* empty, else it returns an error without touching the database.          *)
CallCommit(c, h) ==
    /\ tx[c].phase = "idle"
    /\ tx' = [tx EXCEPT ![c] =
                Tx(IF h.height > MaxSqlHeight \/ h.hash = EmptyHash
                   THEN "err" ELSE "begun", h, {})]
    /\ UNCHANGED <<journal, lock>>

(* Mutant: the transaction reads and writes without the table lock.        *)
LockTableNotExclusive(c) ==
    /\ tx[c].phase = "begun"
    /\ lock' = c
    /\ tx' = [tx EXCEPT ![c] = Tx("locked", tx[c].header, {})]
    /\ UNCHANGED journal

(* BEGIN; LOCK TABLE ... IN EXCLUSIVE MODE waits for the holder.           *)
LockTable(c) ==
    /\ tx[c].phase = "begun"
    /\ lock = NoClient
    /\ lock' = c
    /\ tx' = [tx EXCEPT ![c] = Tx("locked", tx[c].header, {})]
    /\ UNCHANGED journal

(* Mutant: a row of the same height passes for the same header.            *)
DecisionByHeight(rows, h) ==
    IF rows = {} THEN "insert"
    ELSE IF Latest(rows).height = h.height THEN "finish"
    ELSE IF IsChildOf(h, Latest(rows)) THEN "insert"
    ELSE "err"

(* Mutant: the next height is taken without looking at the parent hash.    *)
DecisionWithoutParent(rows, h) ==
    IF rows = {} THEN "insert"
    ELSE IF Latest(rows) = h THEN "finish"
    ELSE IF h.height = Latest(rows).height + 1 THEN "insert"
    ELSE "err"

(* What commit() does with the latest row: nothing more if it is this very *)
(* header, insert if the header is its child or the table is empty, refuse *)
(* otherwise.                                                              *)
Decision(rows, h) ==
    IF rows = {} THEN "insert"
    ELSE IF Latest(rows) = h THEN "finish"
    ELSE IF IsChildOf(h, Latest(rows)) THEN "insert"
    ELSE "err"

ReadLatest(c) ==
    /\ tx[c].phase = "locked"
    /\ tx' = [tx EXCEPT ![c] =
                Tx(Decision(journal, tx[c].header), tx[c].header, {})]
    /\ lock' = IF Decision(journal, tx[c].header) = "err" THEN NoClient ELSE lock
    /\ UNCHANGED journal

(* INSERT; height is the primary key, so a second row for it is refused.   *)
Insert(c) ==
    /\ tx[c].phase = "insert"
    /\ IF \E r \in journal : r.height = tx[c].header.height
       THEN /\ tx' = [tx EXCEPT ![c] = Tx("err", tx[c].header, {})]
            /\ lock' = NoClient
       ELSE /\ tx' = [tx EXCEPT ![c] = Tx("finish", tx[c].header, {tx[c].header})]
            /\ UNCHANGED lock
    /\ UNCHANGED journal

(* COMMIT: the row becomes visible and the lock is released.  The client   *)
(* may be told so, or see an error because the answer was lost.            *)
CommitTx(c) ==
    /\ tx[c].phase = "finish"
    /\ journal' = journal \union tx[c].row
    /\ lock' = NoClient
    /\ \E answer \in {"ok", "err"} :
          tx' = [tx EXCEPT ![c] = Tx(answer, tx[c].header, {})]

(* A statement or the connection fails before COMMIT took effect.          *)
FailTx(c) ==
    /\ tx[c].phase \in InTransaction \union {"begun"}
    /\ tx' = [tx EXCEPT ![c] = Tx("err", tx[c].header, {})]
    /\ lock' = IF lock = c THEN NoClient ELSE lock
    /\ UNCHANGED journal

(* The caller takes the result; commit() may be called again.              *)
TakeResult(c) ==
    /\ tx[c].phase \in {"ok", "err"}
    /\ tx' = [tx EXCEPT ![c] = NoTx]
    /\ UNCHANGED <<journal, lock>>

(* The client process dies: PostgreSQL rolls its transaction back.         *)
ClientDies(c) ==
    /\ tx[c].phase # "idle"
    /\ tx' = [tx EXCEPT ![c] = NoTx]
    /\ lock' = IF lock = c THEN NoClient ELSE lock
    /\ UNCHANGED journal

StoreNext ==
    \E c \in Clients :
        \/ \E h \in Header : CallCommit(c, h)
        \/ LockTable(c)
        \/ ReadLatest(c)
        \/ Insert(c)
        \/ CommitTx(c)
        \/ FailTx(c)
        \/ TakeResult(c)
        \/ ClientDies(c)

StoreSpec == StoreInit /\ [][StoreNext]_storeVars

-----------------------------------------------------------------------------
(* The table, the lock and every client's transaction are well formed.     *)
StoreTypeOK ==
    /\ journal \subseteq Header
    /\ lock \in Clients \union {NoClient}
    /\ tx \in [Clients -> [phase  : Phases,
                           header : Header \union {NoHeader},
                           row    : SUBSET Header]]

(* One row per height, and every row above the lowest has its parent in    *)
(* the table: the journal is one contiguous hash chain, whatever headers   *)
(* the clients offer and however their transactions interleave or fail.    *)
JournalLinked ==
    \A r, q \in journal :
        /\ r.height = q.height => r = q
        /\ r.height < q.height => \E p \in journal : IsChildOf(q, p)

(* commit() reports success only for a header that is in the table, even   *)
(* when the success is the early return for a header stored before.        *)
OkMeansDurable ==
    \A c \in Clients : tx[c].phase = "ok" => tx[c].header \in journal

(* The transactions implement the abstract journal: each COMMIT extends it *)
(* by the child of its top, or leaves it as it was.                        *)
AbstractJournal == INSTANCE Journal WITH journal <- journal
ImplementsJournal == AbstractJournal!Spec

-----------------------------------------------------------------------------
(* What makes JournalLinked inductive.                                     *)

(* A transaction past LOCK TABLE holds the lock, and nobody else does.     *)
LockHeld ==
    \A c \in Clients : lock = c <=> tx[c].phase \in InTransaction

(* The table has a highest row, so ORDER BY .. LIMIT 1 finds it.           *)
HasTop ==
    journal # {} => \E t \in journal : AbstractJournal!IsTop(journal, t)

(* What ReadLatest decided still holds when the row is written: the header *)
(* extends the table, or it is the row found there.                        *)
DecisionStands ==
    \A c \in Clients :
        /\ tx[c].phase # "idle" => tx[c].header \in Header
        /\ tx[c].phase = "insert" =>
              AbstractJournal!CanExtend(journal, tx[c].header)
        /\ tx[c].row # {} =>
              /\ tx[c].phase = "finish"
              /\ tx[c].row = {tx[c].header}
              /\ AbstractJournal!CanExtend(journal, tx[c].header)
        /\ (tx[c].phase = "finish" /\ tx[c].row = {}) => tx[c].header \in journal

StoreInvariant ==
    /\ StoreTypeOK
    /\ LockHeld
    /\ HasTop
    /\ DecisionStands
    /\ JournalLinked
    /\ OkMeansDurable
=============================================================================
