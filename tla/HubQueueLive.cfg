SPECIFICATION FairSpec
CONSTANTS
    Collectors = {c1}
    MaxSeriesPerRequest = 2
    MaxPendingSeries = 3
    MaxScrapes = 2
    MaxScrape = 2
    FailedCap = 0
    LossyNetwork = FALSE
PROPERTIES
    QueueCleansItself
    ShutdownCompletes
