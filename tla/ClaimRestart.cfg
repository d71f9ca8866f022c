SPECIFICATION RestartSpec
CONSTANTS
    NumAcceptors = 3
    Up = {1, 2}
    Clients = {1}
    Addr = {0}
    v1 = v1
    v2 = v2
    Cmd = {v1, v2}
    UndefCmd = undef
    Workload <- OneWriter
    PropOne = 4
    PropMax = 7
    MaxRetries = 2
    MaxOps = 2
    MaxFaults = 2
    MaxRestarts = 1
INVARIANTS
    StaysWritten
CHECK_DEADLOCK FALSE
