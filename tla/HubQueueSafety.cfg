SPECIFICATION Spec
CONSTANTS
    Collectors = {c1, c2}
    MaxSeriesPerRequest = 2
    MaxPendingSeries = 3
    MaxScrapes = 2
    MaxScrape = 2
    FailedCap = 4
    LossyNetwork = TRUE
SYMMETRY CollectorSymmetry
INVARIANTS
    TypeOK
    SliceInRange
    NoLostWakeup
    LossIsCounted
    NoDoubleSubmission
    SentCounterExact
PROPERTIES
    RemovesItsBatch
    RefinesSampleFate
