CONSTANTS
    Sockets = {s1, s2}
    Callers = {focus, d1}
    Focus = focus
    None = None
    MaxSeq = 0
    MaxStores = 1
    MaxFaults = 1
SPECIFICATION ReportsSpec
CHECK_DEADLOCK FALSE
PROPERTIES
    QueuedStateIsRetried
