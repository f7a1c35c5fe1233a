SPECIFICATION FairSpec
CONSTANTS
    Entries = 2
    SameVersion = TRUE
    Detached = FALSE
    StartLimitBurst = 2
    MaxTxns = 2
    MaxFaults = 2
    MaxCrashes = 2
    MaxRivals = 1
INVARIANTS TypeOK RejectedBeforeForgotten PhaseIsDurable PreviousReadsOldSchema
PROPERTIES Atomic SwapOnlyStopped ArmedEnds
CHECK_DEADLOCK FALSE
