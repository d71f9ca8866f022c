SPECIFICATION Spec
CONSTANTS
    NumAcceptors = 3
    Up = {1, 2}
    Clients = {1}
    Addr = {0, 1}
    v1 = v1
    v2 = v2
    Cmd = {v1, v2}
    UndefCmd = undef
    Workload <- TwoAddresses
    PropOne = 4
    PropMax = 11
    MaxRetries = 2
    MaxOps = 2
    MaxFaults = 4
INVARIANTS
    OkMeansChosen
PROPERTIES
    ImplementsWriteOnce
CHECK_DEADLOCK FALSE
