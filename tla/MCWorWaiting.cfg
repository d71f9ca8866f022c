SPECIFICATION Spec
CONSTANTS
    NumAcceptors = 3
    Up = {1, 2, 3}
    Clients = {1, 2}
    Addr = {0}
    v1 = v1
    v2 = v2
    Cmd = {v1, v2}
    UndefCmd = undef
    Workload <- Contention
    PropOne = 4
    PropMax = 7
    MaxRetries = 2
    MaxOps = 1
    MaxFaults = 2
INVARIANTS
    NeverStarved
    ClientsOwed
CHECK_DEADLOCK FALSE
