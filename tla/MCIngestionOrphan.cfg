CONSTANTS
    Heights <- MCHeights
    Hashes <- MCHashes
    NoHash = NoHash
    EmptyHash = EmptyHash
    Clients = {n1}
    NoClient = NoClient
    NoHeader = NoHeader
    MaxSqlHeight = 5
    MaxU64 = 6
    Endpoints = {e1, e2}
    Forks = {a, b}
    Genesis = a
    Config <- MCSameRange
    FinalizedTag = TRUE
    Confirmations = 0
    MaxChain = 2
    MaxFaults = 0
SPECIFICATION Spec
INVARIANTS
    JournalIsFinalized
