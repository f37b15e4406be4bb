CONSTANTS
    a = a
    b = b
    u = u
    v = v
    w = w
    x = x
    y = y
    Doms = {a, b}
    UniqueIds = {u, v, w}
    Handlers = {x, y}
    None = None
    Videos = {"video0"}
    Medias = {"media0"}
    NoNode = NoNode
    IdOf <- MCIdOf
    Faults = {"config", "media", "links", "video"}
    MaxDrift = 0
SPECIFICATION LifeFairSpec
INVARIANTS
    OneHandlerPerCamera
    NoDyingHandler
    NoOrphan
    CountIsRight
    AllOrNothing
    PipelineStands
    NothingLeft
    BusyOnlyAtHandover
PROPERTIES
    ManagerSpec
    MakersFinish
    Stoppable
