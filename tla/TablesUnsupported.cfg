CONSTANTS
    Given <- MCGiven
    Xens <- MCXens
    Memory <- MCMemory
SPECIFICATION Spec
INVARIANTS
    UnsupportedIsRefused
CHECK_DEADLOCK FALSE
