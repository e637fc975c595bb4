SPECIFICATION FairSpec
CONSTANTS
    Callers = {submit, sync}
    MaxKey = 3
INVARIANTS
    OneFetchPerCooldown
PROPERTIES
    RetryHasNewerKey
    KeyMovesForward
    KeyRecovers
