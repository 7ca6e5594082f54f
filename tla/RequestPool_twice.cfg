\* Two workers and three requests: is each served once?
CONSTANTS
    Workers = {w1, w2}
    MaxRequests = 3
SPECIFICATION Spec
INVARIANTS
    TakenOnce
CHECK_DEADLOCK FALSE
