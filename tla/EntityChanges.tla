--------------------------- MODULE EntityChanges ---------------------------
(***************************************************************************)
(* The entities of a project, as pairs of a key and its row, and what      *)
(* blocks make of them.  A block stands for what it changes: the keys it   *)
(* touches, each with its new row, or none when it is removed.             *)
(***************************************************************************)
EXTENDS Naturals, Sequences

Changed(entities, changes) ==
    {e \in entities : e[1] \notin DOMAIN changes}
    \union UNION {{<<k, r>> : r \in changes[k]} : k \in DOMAIN changes}

(* One block after the other, from nothing.                                *)
Replay(blocks) ==
    LET after[n \in 0..Len(blocks)] == IF n = 0 THEN {} ELSE Changed(after[n - 1], blocks[n])
    IN  after[Len(blocks)]
=============================================================================
