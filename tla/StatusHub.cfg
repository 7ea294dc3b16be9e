SPECIFICATION HubSpec
CONSTANTS
    Sockets = {c1, c2, c3}
    MaxConnections = 1
    MaxChanges = 1
PROPERTY ClientsGetStatus
CHECK_DEADLOCK FALSE
