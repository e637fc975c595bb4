SPECIFICATION Spec
CONSTANTS
    HalfWord = 32768
    Second = 6
    RetryAfterSecs = {0}
    MaxAttempts = 16
INVARIANT
    BackoffFollowsSchedule
