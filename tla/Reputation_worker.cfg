SPECIFICATION FairSpec
CONSTANTS
    Ips = {ip1, ip2}
    NoIp = NoIp
    Callers = {c1}
    Budget = 1
    MaxPriority = 1
    MaxSpent = 3
    MaxStatus = 1
    MaxFaults = 1
INVARIANT TypeOK
INVARIANT FullCounterStops
INVARIANT OverspendsByOneAtMost
INVARIANT NothingForgotten
PROPERTY QueuedIsLookedUp
