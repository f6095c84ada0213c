\* Two jobs, so that the trivy of the first may still be alive during the second.
SPECIFICATION FairSpec
CONSTANTS
    MaxRuns = 2
    MaxFaults = 2
CHECK_DEADLOCK FALSE
INVARIANTS TypeOK LeftoversAccounted NoStrayChild FailureReportedAsIs
PROPERTIES WorkerFreed RunsInStages
