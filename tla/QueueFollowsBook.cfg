CONSTANTS
    a = a
    b = b
    Doms = {a, b}
    Returning = {}
    BufCounts = {1, 2}
    Faults = {}
SPECIFICATION Spec
SYMMETRY Interchangeable
INVARIANTS
    QueueFollowsBook
