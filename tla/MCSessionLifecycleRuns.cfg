CONSTANTS
    ResetTimes = {0}
    Clients = {"archive", "restore"}
    Panes = {"none", "busy", "idle"}
SPECIFICATION Spec
PROPERTIES
    RunEndKept
