SPECIFICATION IndexingSpec
CONSTANTS
    Keys <- MCKeys
    Rows <- MCRows
    Keccak <- MCKeccak
    HexDigits = {0, 1, 2, 3, 4, 5, 7, 8, 9}
    AddressLength = 2
    WordLength = 2
    SelectorLength = 2
    MaxSqlHeight = 4
    Parallelism = 1
    Cast <- MCCast
    Before <- MCBefore
    Configs <- MCConfigs
    Projects <- MCProjects
    Blocks <- MCBlocks
    Guest <- MCGuest
INVARIANTS
    HistoryIntact
    SelectionIsExact
    EventPathAgrees
    ActiveSourcesFound
    QueriesFindEveryRow
PROPERTY
    ImplementsBlockStore
\* A refused project, and the last block of the bounded chain, are ends.
CHECK_DEADLOCK FALSE
