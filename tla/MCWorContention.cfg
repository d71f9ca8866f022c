SPECIFICATION Spec
CONSTANTS
    NumAcceptors = 3
    Up = {1, 2}
    Clients = {1, 2}
    Addr = {0}
    v1 = v1
    v2 = v2
    Cmd = {v1, v2}
    UndefCmd = undef
    Workload <- Contention
    PropOne = 4
    PropMax = 7
    MaxRetries = 2
    MaxOps = 1
    MaxFaults = 4
INVARIANTS
    TypeOK
    Agreement
    OneCommandPerProposal
    IInv
    CallsInv
    ReadSeesChosen
PROPERTIES
    ImplementsCalls
CHECK_DEADLOCK FALSE
