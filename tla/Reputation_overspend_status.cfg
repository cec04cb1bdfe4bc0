SPECIFICATION Spec
CONSTANTS
    Ips = {ip1, ip2}
    NoIp = NoIp
    Callers = {c1}
    Budget = 2
    MaxPriority = 1
    MaxSpent = 4
    MaxStatus = 1
    MaxFaults = 0
INVARIANT NeverOverspendsByTwo
