SPECIFICATION Spec
CONSTANTS
    MaxEvents = 3
    QueueMaxEvents = 3
    QueueMaxBytes = 6
    CompactBytes = 3
    Faults = {}
INVARIANTS
    RedeliversAtMostOne
