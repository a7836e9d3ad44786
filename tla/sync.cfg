CONSTANTS
    Sockets = {s1, s2}
    Callers = {focus, c1}
    Focus = focus
    None = None
    MaxSeq = 2
    MaxStores = 2
    MaxFaults = 1
SPECIFICATION Spec
CHECK_DEADLOCK FALSE
PROPERTIES
    FollowsTheLog
    OneSocketAtATime
    RequestsEnd
