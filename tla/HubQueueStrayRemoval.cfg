SPECIFICATION Spec
CONSTANTS
    Collectors = {c1}
    MaxSeriesPerRequest = 2
    MaxPendingSeries = 2
    MaxScrapes = 2
    MaxScrape = 2
    FailedCap = 6
    LossyNetwork = FALSE
PROPERTY
    RemovesOnlyItsBatch
