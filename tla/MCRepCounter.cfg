SPECIFICATION MCCounterSpec
CONSTANTS
    Clients = {1, 2}
    LogSize = 4
    Addr <- LogAddr
    Cmd <- CounterCmd
    UndefCmd = undef
    UintSize = 3
    Program <- MixedCalls
    MaxLate = 2
CONSTRAINT FewLate
INVARIANTS
    CounterTypeOK
    IndicesOrdered
    PrefixHeld
    FreshUntilFull
    ReplicasAgree
    
PROPERTIES
    AppendsEnd
CHECK_DEADLOCK FALSE
