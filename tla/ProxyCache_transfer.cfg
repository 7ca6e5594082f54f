\* One cache thread (the default), files of all lengths, queues that fill up.
CONSTANTS
    one = one
    three = three
    empty = empty
    negative = negative
    wrapped = wrapped
    missing = missing
    NoPath = NoPath
    Workers = {w1, w2}
    CacheThreads = {c1}
    NumSegments = 2
    SegSize = 2
    Paths <- MCPaths
    Cached <- MCCached
    FileSize <- MCFileSize
    IntMax = 3
    MqMaxMsg = 1
SPECIFICATION FairSpec
INVARIANTS
    TypeOK
    ClientStreamPrefix
    CompleteWhenReleased
    NoSegmentRace
    
    NothingLeftBehind
    
    TransferInv
PROPERTIES
    ImplementsFileService
    RequestsAnswered
CHECK_DEADLOCK FALSE
