SPECIFICATION Spec
CONSTANTS
    Tiers = {"WaitTimer"}
    SENTINEL = 31
    FUTEX_MOD = 32
    Waiters = {w1}
    NANOS_PER_MS = 1
    Durations = {0}
    Targets = {1, 2}
    WAIT_TTL = 2
    interval_ms = 2
    threshold = 1
    CREATION_TTL_NANOS = 1
    CLOCK_TTL_NANOS = 1
    TOUCH_TTL = 1
    StartTime = 1
    MaxTime <- LongTime
    MaxWaiters <- OneWaiter
    MaxCount = 2
    Punctual = TRUE
INVARIANT AbortMeansDaemonDead
