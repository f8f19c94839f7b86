----------------------------- MODULE HeightMap -----------------------------
(***************************************************************************)
(* BlockHeightMap (core/src/project/block_height_map.rs): a value that     *)
(* changes at known heights, as a function on those heights.               *)
(***************************************************************************)
EXTENDS Naturals, FiniteSetsExt, SequencesExt

(* The last height of an entry: the one before the next entry, if any.     *)
EndHeight(map, key) ==
    LET later == {k \in DOMAIN map : k > key} IN IF later = {} THEN {} ELSE {Min(later) - 1}

(* get_details: the entry with the greatest key up to the height.          *)
GetDetails(map, height) ==
    LET reached == {k \in DOMAIN map : k <= height}
    IN  IF reached = {} THEN {}
        ELSE {[value |-> map[Max(reached)], start |-> Max(reached), end |-> EndHeight(map, Max(reached))]}

(* get, whose error is the empty set, and get_safe.                        *)
Get(map, height) == {d.value : d \in GetDetails(map, height)}

(* get_all_with_range, in ascending order.                                 *)
GetAllWithRange(map) ==
    LET key(i) == CHOOSE k \in DOMAIN map : Cardinality({l \in DOMAIN map : l <= k}) = i
    IN  [i \in 1..Cardinality(DOMAIN map) |->
            [value |-> map[key(i)], start |-> key(i), end |-> EndHeight(map, key(i))]]

(* Mutant: only the entries that begin within the range.                   *)
GetStartingWithin(map, first, last) ==
    [k \in {key \in DOMAIN map : key \in first..last} |-> map[k]]

(* get_within_range: also the last entry that begins below the range, if   *)
(* any entry follows it.                                                   *)
GetWithinRange(map, first, last) ==
    LET before(key) == key < first /\ \E n \in DOMAIN map :
                            n >= first /\ \A k \in DOMAIN map : ~(key < k /\ k < n)
    IN  [k \in {key \in DOMAIN map : key \in first..last \/ before(key)} |-> map[k]]
=============================================================================
