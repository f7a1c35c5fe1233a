CONSTANTS
    Observers = {o1, o2}
    MaxEpoch = 4
    ResetTimes = {0, 1}
SYMMETRY ObserverSymmetry
SPECIFICATION Spec
INVARIANTS
    TypeOK
    FenceOutdatesObservers
    ArchivedIsInert
    SettledChannelFollowsFence
PROPERTIES
    ObserversNeverMoveFenced
