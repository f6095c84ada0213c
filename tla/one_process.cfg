SPECIFICATION ReaderSpec
CONSTANTS
    Scans = {s1, s2}
    Workers = {w1}
    NoScan = NoScan
    NoWorker = NoWorker
    MaxBatches = 3
    FaultKinds = {"crash", "redis", "lockLoss"}
    MaxFaults = 2
    MaxStalledCount = 1
    MaxQueueDepth = 1
    PageSize = 2
    s1 = s1
    s2 = s2
    w1 = w1
SYMMETRY Symmetry
CHECK_DEADLOCK FALSE
INVARIANTS ReaderOK PatchIsAtomic FinishedIsComplete RowsInPlace TraversalWhole
