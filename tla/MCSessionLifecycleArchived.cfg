CONSTANTS
    ResetTimes = {0}
    Clients = {"archive"}
    Panes = {"none", "busy"}
SPECIFICATION Spec
PROPERTIES
    ArchivedLeftByOwner
