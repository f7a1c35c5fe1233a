CONSTANTS
    MaxAttempts = 2
    ConfirmObservations = 2
    FlapMaxRestores = 2
SPECIFICATION FairSpec
INVARIANTS
    TypeOK
    RespawnBound
    FlapBounded
    WaitOrVerdict
    VerdictOwed
PROPERTIES
    NoDeadPromise
    Settles
