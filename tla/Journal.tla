------------------------------ MODULE Journal ------------------------------
(***************************************************************************)
(* What the ingestion journal promises, without transactions, locks or     *)
(* clients: a set of headers that only ever grows, one header at a time,   *)
(* each the child of the highest one so far.  IngestionStore.tla           *)
(* implements it.                                                          *)
(***************************************************************************)
EXTENDS Headers

VARIABLE journal

IsTop(j, t) == t \in j /\ \A q \in j : q.height <= t.height

CanExtend(j, h) == j = {} \/ \E t \in j : IsTop(j, t) /\ IsChildOf(h, t)

Init == journal = {}

Extend(h) ==
    /\ CanExtend(journal, h)
    /\ journal' = journal \union {h}

Next == \E h \in Header : Extend(h)

Spec == Init /\ [][Next]_journal
=============================================================================
