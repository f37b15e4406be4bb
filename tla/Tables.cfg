CONSTANTS
    Given <- MCGiven
    Xens <- MCXens
    Memory <- MCMemory
SPECIFICATION Spec
INVARIANTS
    StaysInTable
    ConversionsInvert
CHECK_DEADLOCK FALSE
