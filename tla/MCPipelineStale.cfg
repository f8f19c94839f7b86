CONSTANTS
    Workers = {w1, w2}
    Payloads = {0, 1}
    MaxHeight = 3
    MaxGeneration = 1
    MaxU64 = 9
    QueueCapacity = 1
    Limits <- MCLimits
    BatchSize = 2
    Skipped <- MCNoBypass
SPECIFICATION PipelineSpec
INVARIANTS
    ReleasedIsCanonical
CHECK_DEADLOCK FALSE
