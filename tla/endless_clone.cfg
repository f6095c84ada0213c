SPECIFICATION FairSpec
CONSTANTS
    MaxRuns = 1
    MaxFaults = 0
CHECK_DEADLOCK FALSE
PROPERTY CloneIsCapped
