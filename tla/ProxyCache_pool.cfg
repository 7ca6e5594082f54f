\* Two cache threads: the pool of the proxy does not depend on the cache.
CONSTANTS
    one = one
    three = three
    empty = empty
    negative = negative
    wrapped = wrapped
    missing = missing
    NoPath = NoPath
    Workers = {w1, w2, w3}
    CacheThreads = {c1, c2}
    NumSegments = 2
    SegSize = 2
    Paths <- MCShort
    Cached <- MCShortCached
    FileSize <- MCShortSize
    IntMax = 7
    MqMaxMsg = 2
SPECIFICATION Spec
SYMMETRY ThreadSymmetry
INVARIANTS
    SegmentsConserved
    NoLostWakeup
CHECK_DEADLOCK FALSE
