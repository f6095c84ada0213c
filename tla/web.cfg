SPECIFICATION FairPagesSpec
CONSTANTS
    Scans = {s1, s2}
    NoScan = NoScan
    MaxPolls = 2
    MaxFailures = 2
    Vulnerable = {s1}
    PageCount = 2
    s1 = s1
    s2 = s2
CHECK_DEADLOCK FALSE
INVARIANTS TypeOK NoForeignResult PagesOK RowsMatchLabel
PROPERTIES OutcomeShown PageLoads
