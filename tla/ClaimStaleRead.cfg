SPECIFICATION MCCounterSpec
CONSTANTS
    Clients = {1, 2}
    LogSize = 4
    Addr <- LogAddr
    Cmd <- CounterCmd
    UndefCmd = undef
    UintSize = 3
    Program <- IncsThenRead
    MaxLate = 1
CONSTRAINT FewLate
INVARIANTS
    UpToDate
CHECK_DEADLOCK FALSE
