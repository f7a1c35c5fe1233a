SPECIFICATION FairSpec
CONSTANTS
    MaxEvents = 3
    QueueMaxEvents = 2
    QueueMaxBytes = 5
    CompactBytes = 1
    Faults = {}
PROPERTIES
    BacklogDrains
