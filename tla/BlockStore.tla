---------------------------- MODULE BlockStore -----------------------------
(***************************************************************************)
(* What indexing promises: the entities are what the indexed blocks make   *)
(* of them, one whole block after the other, whatever was tried, cut short *)
(* or orphaned on the way.                                                 *)
(***************************************************************************)
EXTENDS EntityChanges, SequencesExt

VARIABLES
    log,        \* the changes of each indexed block
    entities    \* the current row of every key

vars == <<log, entities>>

Init == log = <<>> /\ entities = {}

IndexBlock ==
    /\ log' # <<>> /\ Front(log') = log
    /\ entities' = Changed(entities, Last(log'))

Rewind ==
    /\ IsStrictPrefix(log', log)
    /\ entities' = Replay(log')

Next == IndexBlock \/ Rewind

Spec == Init /\ [][Next]_vars
=============================================================================
