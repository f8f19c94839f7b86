CONSTANTS
    Keys <- MCKeys
    Values <- MCValues
    Absent = Absent
    CheckLists <- MCCheckLists
    Verifiers = {n1, n2}
    NoVerifier = NoVerifier
    Commands <- MCCommands
    NoCommand = NoCommand
    Identifiers = {"public"}
    MaxSqlHeight = 2
    Parallelism = 1
    Keccak = {}
    HexDigits = {}
    AddressLength = 2
    WordLength = 2
    SelectorLength = 1
    MaxFaults = 2
    MaxStarts = 3
SPECIFICATION FairSpec
CHECK_DEADLOCK FALSE
INVARIANTS
    VerifiedIdentityHolds
    NeverHalfStamped
    OneChainPerSchema
    ReachesSchemaWithWork
PROPERTIES
    FactsNeverChange
    StartupEnds
