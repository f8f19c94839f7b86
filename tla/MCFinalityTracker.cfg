CONSTANTS
    Forks = {a, b}
    Genesis = a
    MaxChain = 3
    SearchDepth = 1
    NoCheckpoint = NoCheckpoint
    NoHeader = NoHeader
    NoHash = NoHash
    MaxReorgs = 2
    MaxFaults = 1
SPECIFICATION FairSpec
INVARIANTS
    HeadersBelowCheckpoint
    KeptIsCanonical
    WalkFindsFork
PROPERTIES
    EventuallyOnChain
CHECK_DEADLOCK FALSE
