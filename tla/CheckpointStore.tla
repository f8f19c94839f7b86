-------------------------- MODULE CheckpointStore --------------------------
(***************************************************************************)
(* The checkpoint and the recent header chain of one project schema        *)
(* (crates/store/src/checkpoint.rs).  `rows` is _superquery_blocks, keyed  *)
(* by height; `checkpoint` is what load() returns from                     *)
(* _superquery_metadata.  commit_tx and truncate_above_tx run inside the   *)
(* caller's transaction, so what they change becomes visible at once; the  *)
(* actions below are such transactions.  sql_height's refusal of heights   *)
(* above i64::MAX is left out, since no height here comes near it.         *)
(***************************************************************************)
EXTENDS Integers

CONSTANT NoCheckpoint   \* load() found no checkpoint: a fresh schema

VARIABLES rows, checkpoint

checkpointVars == <<rows, checkpoint>>

(* The last element in height order of a set of records with a height.     *)
Highest(S) == CHOOSE r \in S : \A q \in S : q.height <= r.height
Lowest(S)  == CHOOSE r \in S : \A q \in S : r.height <= q.height

CheckpointInit == rows = {} /\ checkpoint = NoCheckpoint

Row(header, final) ==
    [height |-> header.height, hash |-> header.hash, parent |-> header.parent, final |-> final]

(* INSERT ... ON CONFLICT (height) DO UPDATE, and the three metadata keys. *)
CommitTx(header, final, finalizedHeight) ==
    /\ rows' = {r \in rows : r.height # header.height} \union {Row(header, final)}
    /\ checkpoint' = [height |-> header.height, hash |-> header.hash,
                      finalized |-> finalizedHeight]

(* headers_descending(from, to): a set here, read from the highest down.   *)
HeadersBetween(from, to) == {r \in rows : to <= r.height /\ r.height <= from}

TruncateAboveTx(height) == rows' = {r \in rows : r.height <= height}

(* Only rows recorded as final are dropped.                                *)
PruneBelow(height) ==
    /\ rows' = {r \in rows : ~(r.height < height /\ r.final)}
    /\ UNCHANGED checkpoint
=============================================================================
