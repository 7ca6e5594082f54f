\* Two workers and three images.
CONSTANTS
    NThreads = 2
    a = a
    b = b
    c = c
    bad = bad
    gone = gone
    o = o
    p = p
    q = q
    Input <- MCInput
    Output <- MCOutput
    Workloads <- MCWorkloads
    Missing = {gone}
    Bad = {bad}
    None = None
SPECIFICATION FairSpec

    
PROPERTIES
    ProgramEnds
CHECK_DEADLOCK FALSE
