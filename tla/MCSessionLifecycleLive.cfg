CONSTANTS
    ResetTimes = {0}
    Clients = {"kill", "restore"}
    Panes = {"none", "busy"}
SPECIFICATION LiveSpec
PROPERTIES
    KilledIsErased
    OwedIsPaid
    FenceFalls
