SPECIFICATION FairSpec
CONSTANTS
    NumAcceptors = 3
    Up = {1, 2, 3}
    Clients = {1}
    Addr = {0}
    v1 = v1
    v2 = v2
    Cmd = {v1, v2}
    UndefCmd = undef
    Workload <- OneAddress
    PropOne = 4
    PropMax = 11
    MaxRetries = 2
    MaxOps = 2
    MaxFaults = 2
INVARIANTS
    NothingWrittenAlone
PROPERTIES
    CallsReturn
    TurnsRunOut
CHECK_DEADLOCK FALSE
