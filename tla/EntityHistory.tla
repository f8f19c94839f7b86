--------------------------- MODULE EntityHistory ---------------------------
(***************************************************************************)
(* Entity rows with history (`--historical height`): every row carries the *)
(* range of heights [lower, upper) it was valid for, and a rewind to a     *)
(* height is the two statements of crates/store/src/rewind.rs.             *)
(*                                                                         *)
(* rewind_to, which will run the statements, and the write path are not in *)
(* the repository: they are modelled by what rewind.rs requires of them.   *)
(* The order of the statements is left open and a process may die between  *)
(* them; the rewind is then run again from its beginning.                  *)
(***************************************************************************)
EXTENDS Integers, EntityChanges

CONSTANTS
    Keys,       \* what identifies an entity: its table and its id
    Rows        \* what a row may hold

Open     == -1  \* upper(range) of a row that is current: NULL
NoTarget == -1

Height == Nat
Version == [key : Keys, row : Rows, lower : Height, upper : Height \union {Open}]

(* What the operations of one block come to: the entities it touches, each *)
(* with its new row, or none when it is removed last.                      *)
Changes == UNION {[ks -> {{}} \union {{r} : r \in Rows}] : ks \in SUBSET Keys}

VARIABLES
    versions,   \* the rows, with their ranges
    height,     \* the last indexed height
    target,     \* the height being rewound to, or NoTarget
    done,       \* the statements of the rewind that have been executed
    past        \* history variable: the entities as they were when each
                \* height was indexed

historyVars == <<versions, height, target, done, past>>

HistoryInit ==
    /\ versions = {}
    /\ height = 0
    /\ target = NoTarget
    /\ done = {}
    /\ past = [k \in {0} |-> {}]

Covers(v, k) == v.lower <= k /\ (v.upper = Open \/ k < v.upper)

(* The entities as of a height.                                            *)
AsOf(vs, k) == {<<v.key, v.row>> : v \in {w \in vs : Covers(w, k)}}

(* The current row of every entity a block touches is closed at the        *)
(* block's height, and the new one is open from there on.                  *)
Write(vs, changes, h) ==
    {v \in vs : v.key \notin DOMAIN changes \/ v.upper # Open}
    \union {[v EXCEPT !.upper = h] : v \in {w \in vs : w.key \in DOMAIN changes /\ w.upper = Open}}
    \union UNION {{[key |-> k, row |-> r, lower |-> h, upper |-> Open] : r \in changes[k]}
                    : k \in DOMAIN changes}

(* The transaction of one block.                                           *)
WriteBlock(changes) ==
    /\ target = NoTarget
    /\ versions' = Write(versions, changes, height + 1)
    /\ height' = height + 1
    /\ past' = [k \in 0..height + 1 |->
                  IF k = height + 1 THEN Changed(past[height], changes) ELSE past[k]]
    /\ UNCHANGED <<target, done>>

(* A reorganisation has been found: back to height H.                      *)
BeginRewind(H) ==
    /\ target = NoTarget /\ H < height
    /\ target' = H
    /\ done' = {}
    /\ UNCHANGED <<versions, height, past>>

(* delete_versions_above_sql: DELETE WHERE lower(range) > H.               *)
DeleteAbove(vs, H) == {v \in vs : ~(v.lower > H)}

(* Mutant: rows closed at the target are reopened as well.                 *)
ReopensClosedAtTarget(v, H) == v.upper >= H /\ v.lower <= H

(* reopen_versions_sql's condition: upper(range) > H, which is not true of *)
(* NULL, AND lower(range) <= H.                                            *)
Reopens(v, H) == v.upper > H /\ v.lower <= H

ReopenVersions(vs, H) ==
    {v \in vs : ~Reopens(v, H)} \union {[v EXCEPT !.upper = Open] : v \in {w \in vs : Reopens(w, H)}}

RunDelete ==
    /\ target # NoTarget
    /\ versions' = DeleteAbove(versions, target)
    /\ done' = done \union {"delete"}
    /\ UNCHANGED <<height, target, past>>

RunReopen ==
    /\ target # NoTarget
    /\ versions' = ReopenVersions(versions, target)
    /\ done' = done \union {"reopen"}
    /\ UNCHANGED <<height, target, past>>

(* Both have been executed: indexing goes on after the target.             *)
EndRewind ==
    /\ target # NoTarget /\ done = {"delete", "reopen"}
    /\ height' = target
    /\ target' = NoTarget
    /\ done' = {}
    /\ past' = [k \in 0..target |-> past[k]]
    /\ UNCHANGED versions

(* The process dies: what was executed is not remembered.                  *)
RewindInterrupted ==
    /\ target # NoTarget
    /\ done' = {}
    /\ UNCHANGED <<versions, height, target, past>>

HistoryNext ==
    \/ \E changes \in Changes : WriteBlock(changes)
    \/ \E H \in Height : BeginRewind(H)
    \/ RunDelete
    \/ RunReopen
    \/ EndRewind
    \/ RewindInterrupted

HistorySpec == HistoryInit /\ [][HistoryNext]_historyVars

-----------------------------------------------------------------------------
HistoryTypeOK ==
    /\ versions \subseteq Version
    /\ height \in Height
    /\ target \in Height \union {NoTarget}
    /\ target # NoTarget => target < height
    /\ done \subseteq {"delete", "reopen"}
    /\ past \in [0..height -> SUBSET (Keys \X Rows)]

(* The height up to which the rows must be right at all times.             *)
Settled == IF target = NoTarget THEN height ELSE target

(* No range is empty or ends, or begins, above the last indexed height.    *)
RangesWithin(vs, h) ==
    \A v \in vs : v.lower <= h /\ (v.upper # Open => v.lower < v.upper /\ v.upper <= h)

(* What the statements executed so far have achieved.                      *)
RewindProgress ==
    /\ target = NoTarget => done = {}
    /\ "delete" \in done => \A v \in versions : v.lower <= target
    /\ "reopen" \in done => \A v \in versions :
            v.lower <= target /\ v.upper # Open => v.upper <= target

(* An entity has one row at a height.                                      *)
OneRowPerHeight ==
    \A v, w \in versions : \A k \in 0..Settled :
        v.key = w.key /\ Covers(v, k) /\ Covers(w, k) => v = w

(* Up to the height a rewind leaves standing, and up to the last indexed   *)
(* height when there is none, every height reads as it did when it was     *)
(* indexed: after any number of blocks and rewinds, also between the two   *)
(* statements of rewind.rs in either order, and when a rewind that was cut *)
(* short is run again.                                                     *)
HistoryIntact == \A k \in 0..Settled : AsOf(versions, k) = past[k]

(* The shape of the state, whatever the keys and the rows are.             *)
IsVersion(v) ==
    /\ v = [key |-> v.key, row |-> v.row, lower |-> v.lower, upper |-> v.upper]
    /\ v.lower \in Height
    /\ v.upper \in Height \union {Open}

AreVersions(vs) == \A v \in vs : IsVersion(v)

HistoryShape ==
    /\ AreVersions(versions)
    /\ height \in Height
    /\ target \in Height \union {NoTarget}
    /\ target # NoTarget => target < height
    /\ past = [k \in 0..height |-> past[k]]

(* The changes of a block hold at most one row for an entity.              *)
AreChanges(changes) == \A k \in DOMAIN changes : \A r, s \in changes[k] : r = s

(* What makes HistoryIntact inductive.                                     *)
HistoryInvariant ==
    /\ HistoryShape
    /\ RangesWithin(versions, height)
    /\ RewindProgress
    /\ OneRowPerHeight
    /\ HistoryIntact
=============================================================================
