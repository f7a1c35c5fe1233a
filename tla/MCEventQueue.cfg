CONSTANTS
    MaxEvents = 3
    QueueMaxEvents = 2
    QueueMaxBytes = 5
    CompactBytes = 1
    Faults = {"append", "truncate", "realign", "cursor", "remove", "rename", "marker", "read", "load"}
SPECIFICATION Spec
INVARIANTS
    TypeOK
    RetainedIsSettled
    CountMatchesLines
    ShieldedStay
PROPERTIES
    OrderKept
