\* Two workers, three requests: some ask for the same path.
CONSTANTS
    Workers = {w1, w2}
    NumRequests = 3
    p = p
    q = q
    Path <- MCPath
    Workloads <- MCWorkloads
    Pieces = 2
    None = None
SPECIFICATION FairSpec
INVARIANTS
    TypeOK
    OnlyWholeFilesRemain
    DownloadsKept
    OnlyLateRequestsLeft
PROPERTIES
    ClientEnds
CHECK_DEADLOCK FALSE
