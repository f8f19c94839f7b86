CONSTANTS
    N = 3
    Attempts = 4
    Blocks = {x, y}
    MaxLogs = 2
    MaxHeight = 2
    Confirmations = 1
    Null = Null
SPECIFICATION FairSpec
INVARIANTS
    RpcInvariant
    OnlyRightChain
    GivesUpLast
    BlockIsConsistent
PROPERTIES
    OperationEnds
