CONSTANTS
    Heights <- MCHeights
    Hashes <- MCHashes
    NoHash = NoHash
    EmptyHash = EmptyHash
    Clients = {n1, n2}
    NoClient = NoClient
    NoHeader = NoHeader
    MaxSqlHeight = 5
    MaxU64 = 6
    Endpoints = {e1}
    Forks = {a, b}
    Genesis = a
    Config <- MCSameRange
    FinalizedTag = TRUE
    Confirmations = 0
    MaxChain = 3
    MaxFaults = 1
SPECIFICATION Spec
SYMMETRY MCSymmetry
INVARIANTS
    CursorBehindJournal
    JournalIsFinalized
    DoneMeansRangeIngested
