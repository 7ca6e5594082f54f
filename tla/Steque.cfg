\* Lists of up to four nodes, with three different items.
CONSTANTS
    Node = {n1, n2, n3, n4}
    Item = {a, b, c}
    Null = Null
    NoResult = NoResult
    Undefined = Undefined
SPECIFICATION Spec
INVARIANTS
    WellFormed
PROPERTIES
    ImplementsSequence
CHECK_DEADLOCK FALSE
