SPECIFICATION FairSpec
CONSTANTS
    FlushBatchSize = 3
    MaxTargets = 4
    MaxTarget = 3
CHECK_DEADLOCK FALSE
INVARIANTS TypeOK MemoryBounded
PROPERTIES CopiesFindings Settles
