SPECIFICATION FairSpec
CONSTANTS
    MaxInt = 20
    Versions <- MCVersions
    MaxSignals = 1
    MaxCrashes = 1
    NoVersion = NoVersion
    NoFile = NoFile
INVARIANTS
    OnlyVerifiedInstalled
    RestartHasNewBinary
    FewFilesLeft
    OrderIsNumeric
PROPERTIES
    NeverDowngraded
    ShutdownWins
    UpdateArrives
