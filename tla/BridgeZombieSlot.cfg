CONSTANTS
    SessionIds = {s1}
    Pollers = {h1}
    MaxSessions = 1
SPECIFICATION BridgeSpec
INVARIANT SlotReleased
CHECK_DEADLOCK FALSE
