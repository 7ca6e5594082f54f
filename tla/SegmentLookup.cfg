\* Two cache threads: their calls follow each other or overlap.
CONSTANTS
    Threads = {t1, t2}
    NumSegments = 3
SPECIFICATION Spec
SYMMETRY ThreadSymmetry
INVARIANTS
    IntactUnlessContended
    LookupReturns
CHECK_DEADLOCK FALSE
