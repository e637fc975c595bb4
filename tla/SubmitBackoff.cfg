SPECIFICATION Spec
CONSTANTS
    HalfWord = 32768
    Second = 6
    RetryAfterSecs = {0, 1, 45, 61, 10000}
    MaxAttempts = 13
INVARIANTS
    BackoffCapped
    BackoffFollowsSchedule
PROPERTIES
    ResetIsEarned
    BackoffGrows
