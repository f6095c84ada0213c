SPECIFICATION Spec
CONSTANTS
    Scans = {s1, s2}
    Workers = {w1, w2}
    NoScan = NoScan
    NoWorker = NoWorker
    MaxBatches = 2
    FaultKinds = {"crash", "redis"}
    MaxFaults = 2
    MaxStalledCount = 1
    MaxQueueDepth = 1
    s1 = s1
    s2 = s2
    w1 = w1
    w2 = w2
SYMMETRY Symmetry
CHECK_DEADLOCK FALSE
INVARIANTS TypeOK OneWriter PatchIsAtomic RecordBeforeJob FinishedIsComplete CompletedIsClean
PROPERTIES KeepsContract RunsInStages
