SPECIFICATION FairSpec
CONSTANTS
    MaxHandoffs = 2
    MaxCrashes = 1
INVARIANTS
    TypeOK
    NoSilentResend
    BriefKept
    HasExit
PROPERTY
    FenceIsWorked
