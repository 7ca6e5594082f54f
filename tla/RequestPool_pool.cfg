\* Two workers and three requests.
CONSTANTS
    Workers = {w1, w2}
    MaxRequests = 3
SPECIFICATION Spec
SYMMETRY WorkerSymmetry
INVARIANTS
    FirstRoundLocked
    SafeUnlessOverlapped
CHECK_DEADLOCK FALSE
