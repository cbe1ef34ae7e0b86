SPECIFICATION FairSpec
CONSTANTS
    SENTINEL = 31
    FUTEX_MOD = 32
    Names = {"a"}
    MaxId = 2
    Requests <- TimerRequests
    NANOS_PER_MS = 2
    CREATION_TTL_NANOS = 4
    CLOCK_TTL_NANOS = 4
    Ttls = {}
    Increments = {}
    Targets = {}
    Durations = {1}
    StartTimes = {3}
    MaxTime = 8
    MaxCount = 12
INVARIANTS UnregisteredIsReaped TimerNeverEarly CronOnGrid
PROPERTIES LapsedIsReaped DeadIsRemoved DueTimerDelivered
