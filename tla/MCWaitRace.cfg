SPECIFICATION FairSpec
CONSTANTS
    SENTINEL = 7
    FUTEX_MOD = 8
    N = 2
    MaxCount = 2
INVARIANT WinnerIsReal
PROPERTY RaceReturns
