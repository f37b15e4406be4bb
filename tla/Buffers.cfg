CONSTANTS
    i = i
    j = j
    k = k
    Indices = {i, j, k}
    SeqMod = 3
    IdMod = 3
    MaxEvents = 4
SPECIFICATION Spec
SYMMETRY Interchangeable
INVARIANTS
    TypeOK
    FrameIntoLiveBuffer
    EventIdsConsecutive
    SequenceHasNoGaps
    BookedWhileCreated
PROPERTIES
    LoanSpec
    PortSpec
