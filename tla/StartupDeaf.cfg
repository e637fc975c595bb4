SPECIFICATION FairSpec
CONSTANTS
    Uuid = Uuid
    Keys = {k1}
    None = None
    MaxRounds = 1
PROPERTY StartupStops
