SPECIFICATION Spec
CONSTANTS
    Scans = {s1}
    Workers = {w1}
    NoScan = NoScan
    NoWorker = NoWorker
    MaxBatches = 1
    FaultKinds = {"crash"}
    MaxFaults = 1
    MaxStalledCount = 1
    MaxQueueDepth = 1
    s1 = s1
    w1 = w1
CHECK_DEADLOCK FALSE
PROPERTY OutcomeIsFinal
