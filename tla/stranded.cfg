SPECIFICATION Spec
CONSTANTS
    Scans = {s1}
    NoScan = NoScan
    MaxPolls = 4
    MaxFailures = 3
    s1 = s1
CHECK_DEADLOCK FALSE
INVARIANT StopIsTold
