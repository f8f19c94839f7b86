-------------------------- MODULE MCIngestionStore --------------------------
(* Two clients offering any header over four heights and two hashes, the   *)
(* highest of which does not fit the table.  Clients and hashes are        *)
(* interchangeable.                                                        *)
EXTENDS IngestionStore, TLC

MCSymmetry == Permutations(Clients) \union Permutations(Hashes)
=============================================================================
