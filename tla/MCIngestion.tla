---------------------------- MODULE MCIngestion ----------------------------
(* Small instances of Ingestion.  Batches may hold three blocks, of which  *)
(* admission allows two, so a range of three takes two batches.            *)
EXTENDS Ingestion, TLC

MCHashes == Branches \union {<<>>}
MCHeights == 0..MaxChain

IngestRange(start, end) ==
    [start |-> start, end |-> end, batch |-> 3,
     bp |-> Backpressure(2, 2), plan |-> <<>>]

(* Every node ingests 1..MaxChain.                                         *)
MCSameRange == [n \in Clients |-> IngestRange(1, MaxChain)]

MCSymmetry == Permutations(Clients) \union Permutations(Endpoints)
=============================================================================
