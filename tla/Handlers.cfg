\* Two workers, files of up to four bytes read two at a time, one change.
CONSTANTS
    Workers = {w1, w2}
    a = a
    ab = ab
    empty = empty
    gone = gone
    None = None
    Key <- MCKey
    Path <- MCPath
    Files <- MCFiles
    Cut <- MCCut
    Size <- MCSize
    ListFiles <- MCListFiles
    Sizes = {0, 3, 4}
    InitialCapacity = 2
    BUFFER_SIZE = 2
    MaxFds = 3
    MaxChanges = 1
SPECIFICATION FairSpec
INVARIANTS
    IndexFaithful
    
PROPERTIES
    
    ImplementsFileService
CHECK_DEADLOCK FALSE
