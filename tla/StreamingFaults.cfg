CONSTANTS
    a = a
    b = b
    Doms = {a, b}
    Returning = {}
    BufCounts = {2}
    Faults = {"alloc", "on", "off", "io"}
SPECIFICATION Spec
SYMMETRY Interchangeable
CONSTRAINT MappingsBound
INVARIANTS
    DataInRange
