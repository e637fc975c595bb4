SPECIFICATION AnsweredSpec
CONSTANTS
    Uuid = Uuid
    Keys = {k1, k2}
    None = None
    MaxRounds = 9
INVARIANTS
    TypeOK
    BackoffFollowsRounds
    OneIdentity
    SelfReportAgrees
PROPERTIES
    SignalHeeded
