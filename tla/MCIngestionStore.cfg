CONSTANTS
    Heights = {0, 1, 2, 3}
    Hashes = {h1, h2}
    NoHash = NoHash
    EmptyHash = EmptyHash
    Clients = {c1, c2}
    NoClient = NoClient
    NoHeader = NoHeader
    MaxSqlHeight = 2
SYMMETRY MCSymmetry
SPECIFICATION StoreSpec
INVARIANTS
    JournalLinked
    OkMeansDurable
PROPERTIES
    ImplementsJournal
