CONSTANTS
    ResetTimes = {0}
    Clients = {"kill", "archive", "restore"}
    Panes = {"none", "busy"}
SPECIFICATION Spec
INVARIANTS
    TypeOK
    NoOrphan
    RecordNamesWorktree
    FenceHasOwner
PROPERTIES
    KillIsFinal
    MovesOnlyStopped
