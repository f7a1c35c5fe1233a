SPECIFICATION Spec
CONSTANTS
    MaxHandoffs = 1
    MaxCrashes = 1
PROPERTY
    RecoveryKeepsRestore
