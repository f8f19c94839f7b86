------------------------------ MODULE Headers ------------------------------
(***************************************************************************)
(* Block headers and the parent link between them                          *)
(* (crates/chain-api/src/block.rs).  A header is a record                  *)
(* [height, hash, parent]; parent is NoHash where the code has None.  The  *)
(* timestamp is left out: it takes part in nothing but equality, and a     *)
(* hash determines it.                                                     *)
(***************************************************************************)
EXTENDS Integers

CONSTANTS Heights,    \* block heights
          Hashes,     \* every block hash that may occur
          NoHash,     \* Option::None for a parent hash
          EmptyHash   \* the empty string, which is not a hash

ASSUME HeightAssumption == Heights \subseteq Nat
ASSUME HashAssumption == NoHash \notin Hashes /\ EmptyHash \notin Hashes

Header == [height : Heights, hash : Hashes \union {EmptyHash},
           parent : Hashes \union {NoHash}]

(* Header::is_child_of *)
IsChildOf(h, p) ==
    /\ h.height = p.height + 1
    /\ h.parent # NoHash
    /\ h.parent = p.hash
=============================================================================
