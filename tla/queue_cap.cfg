SPECIFICATION Spec
CONSTANTS
    Scans = {s1, s2}
    Workers = {w1}
    NoScan = NoScan
    NoWorker = NoWorker
    MaxBatches = 1
    FaultKinds = {}
    MaxFaults = 0
    MaxStalledCount = 1
    MaxQueueDepth = 1
    s1 = s1
    s2 = s2
    w1 = w1
CHECK_DEADLOCK FALSE
INVARIANT QueueCapped
