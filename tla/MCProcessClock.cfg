SPECIFICATION LiveSpec
CONSTANTS
    SENTINEL = 15
    FUTEX_MOD = 16
    StartTime = 1
    CREATION_TTL_NANOS = 1
    TOUCH_TTL = 2
    Targets = {3}
    MaxTime = 4
INVARIANTS TypeOK UptimeIsReal ReapIsFinal WatchedTimeIsReal
PROPERTIES ReapIsNoticed DeadProcessIsReaped
