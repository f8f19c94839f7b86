------------------------------- MODULE Chain -------------------------------
(***************************************************************************)
(* The blockchain, as every component that asks for blocks sees it.  A     *)
(* branch is a sequence of fork choices, one per height from 0.  The hash  *)
(* of a block is its branch up to and including it, so a hash determines   *)
(* the whole ancestry of a block and two blocks are equal iff their hashes *)
(* are.                                                                    *)
(***************************************************************************)
EXTENDS Integers, Sequences

CONSTANTS
    Forks,      \* the fork choices at a height
    Genesis,    \* the fork choice everyone agrees on at height 0
    MaxChain    \* bound: the highest block of any branch

ASSUME ForkAssumption == Genesis \in Forks
ASSUME ChainBound == MaxChain \in Nat

Branches == UNION {{b \in [1..n -> Forks] : b[1] = Genesis} : n \in 1..(MaxChain + 1)}

HashAt(b, h) == SubSeq(b, 1, h + 1)

(* The header decoded from the answer to eth_getBlockByNumber.             *)
BlockAt(b, h) == [height |-> h, hash |-> HashAt(b, h), parent |-> SubSeq(b, 1, h)]

(* The block with this hash is on branch b.                                *)
OnBranch(hash, b) == Len(hash) <= Len(b) /\ hash = SubSeq(b, 1, Len(hash))
=============================================================================
