---------------------------- MODULE MCFetchLoop ----------------------------
(* A small instance of FetchLoop: u64::MAX is 4, and the configurations    *)
(* cover open and bounded ranges, budgets below and above the batch size,  *)
(* and bypass lists that are empty, overlapping, out of order, leading,    *)
(* trailing, and ending at u64::MAX.                                       *)
EXTENDS FetchLoop

MCPlans ==
    {<<>>,
     Bypass(<<>>, 1, 2),
     Bypass(Bypass(<<>>, 3, 3), 0, 1),
     Bypass(Bypass(<<>>, 2, 3), 1, 2),
     Bypass(<<>>, 3, MaxU64)}

MCConfigs ==
    {c \in [start : {0, 2}, end : {NoHeight, 3, MaxU64}, batch : {1, 3},
            bp : {Backpressure(2, 3)}, plan : MCPlans] :
        ~(c.end = NoHeight /\ IsBypassed(c.plan, MaxU64))}
=============================================================================
