CONSTANTS
    a = a
    b = b
    Doms = {a, b}
    Returning = {}
    BufCounts = {1, 2}
    Faults = {}
SPECIFICATION FairSpec
INVARIANTS
    DataIsThatBuffer
    NoCircularWait
    ThreadFollowsBook
    OneJoiner
PROPERTIES
    BuffersConserved
    EndsOnlyInWindows
    StopCompletes
    RelaysFrames
    KeepsPorts
    FrameArrives
