SPECIFICATION FairSpec
CONSTANTS
    NumAcceptors = 3
    Up = {1, 2, 3}
    Clients = {1}
    Addr = {0}
    v1 = v1
    v2 = v2
    Cmd = {v1, v2}
    UndefCmd = undef
    Workload <- OneAddress
    PropOne = 4
    PropMax = 31
    MaxRetries = 4
    MaxOps = 1
    MaxFaults = 0
PROPERTIES
    CaptureSucceeds
CHECK_DEADLOCK FALSE
