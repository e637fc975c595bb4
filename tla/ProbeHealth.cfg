SPECIFICATION FairSpec
CONSTANTS
    Blank = ""
    KeySize = 5
    MaxBase = 240
    Probes = {p}
    Series <- MCSeries
    Handlers = {h1, h2}
    MaxTime = 2
INVARIANTS
    RecordsAgree
    TornOnlyByOverlap
    UptimeNotOverstated
    StableIdentity
PROPERTIES
    FailingProbeIsDown
