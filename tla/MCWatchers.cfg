SPECIFICATION Spec
CONSTANTS
    SENTINEL = 7
    FUTEX_MOD = 8
    Names = {"a", "b"}
    MaxId = 2
    Requests <- WatchRequests
    NANOS_PER_MS = 1
    CREATION_TTL_NANOS = 1
    CLOCK_TTL_NANOS = 2
    Ttls = {1}
    Increments = {1}
    Targets = {1, 2}
    Durations = {}
    StartTimes = {0}
    MaxTime = 1
    MaxCount = 2
PROPERTY StampsOnlyGrow
