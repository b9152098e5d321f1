CONSTANTS
    c1 = c1
    c2 = c2
    Clients = {c1, c2}
    Operation <- FenceAndCancel
    MaxConnections = 2
    MaxQueued = 1
    None = None
SPECIFICATION Spec
CHECK_DEADLOCK FALSE
PROPERTIES DispatchedOnce ExecutingReplyKept ControlServed StopDrains
