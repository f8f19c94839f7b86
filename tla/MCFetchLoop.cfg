CONSTANTS
    MaxU64 = 4
    Configs <- MCConfigs
    MaxFaults = 2
SPECIFICATION FairSpec
INVARIANTS
    DurableIsPrefixOfPlan
    DoneMeansEverythingDurable
    CursorCoversOnlyDurable
    BatchWithinBudget
PROPERTIES
    FiniteRangeCompletes
    CancelStopsRun
