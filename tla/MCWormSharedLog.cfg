SPECIFICATION MCWormSpec
CONSTANTS
    Clients = {1, 2}
    WosSize = 3
    NumSegments = 2
    Addr <- SmallAddr
    own1 = own1
    own2 = own2
    app = app
    JUNK = junk
    OwnerCmd <- SmallOwnerCmd
    AppCmd = {app}
    Cmd <- SmallCmd
    UndefCmd = undef
    MaxAppends <- SmallAppends
    MaxLate = 1
CONSTRAINT FewLate
INVARIANTS
    WormTypeOK
    AppendsToAllocated
    FirstSegmentFills
    OwnerIsWritten
PROPERTIES
    NothingForgotten
    AllocEnds
CHECK_DEADLOCK FALSE
