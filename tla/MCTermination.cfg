SPECIFICATION Spec
CONSTANTS
    SENTINEL = 7
    FUTEX_MOD = 4
    o1 = o1
    o2 = o2
    o3 = o3
    a1 = a1
    Owners = {o1}
    Attachers = {a1}
    Casts <- Pairs
    Increments <- Ones
    Targets <- Ones
    Ttls <- TouchTtls
    CREATION_TTL_NANOS = 1
    MaxTime = 2
    CounterBudget = 2
PROPERTY TerminationIrreversible
CHECK_DEADLOCK FALSE
