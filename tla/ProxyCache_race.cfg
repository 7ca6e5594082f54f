\* Two cache threads on one control queue: what a client is sent.
CONSTANTS
    one = one
    three = three
    empty = empty
    negative = negative
    wrapped = wrapped
    missing = missing
    NoPath = NoPath
    Workers = {w1, w2}
    CacheThreads = {c1, c2}
    NumSegments = 1
    SegSize = 2
    Paths <- MCFew
    Cached <- MCFewCached
    FileSize <- MCFewSize
    IntMax = 7
    MqMaxMsg = 3
SPECIFICATION Spec
INVARIANT NoSegmentRace
CHECK_DEADLOCK FALSE
