SPECIFICATION FairSpec
CONSTANTS
    Scans = {s1, s2}
    Workers = {w1, w2}
    NoScan = NoScan
    NoWorker = NoWorker
    MaxBatches = 2
    FaultKinds = {"crash", "resend", "ttl"}
    MaxFaults = 1
    MaxStalledCount = 1
    MaxQueueDepth = 1
    s1 = s1
    s2 = s2
    w1 = w1
    w2 = w2
CHECK_DEADLOCK FALSE
INVARIANTS NoneForgotten CompletedIsClean FindingsExpire
PROPERTY AcceptedScanEnds
