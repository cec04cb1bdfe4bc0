SPECIFICATION Spec
CONSTANTS
    Private <- MCPrivate
    NoSlot = NoSlot
    NoKey = NoKey
    Keys <- MCOneKey
    Apps = {web}
    TcpStates = {est, fin}
    Slots = {p1}
    CountersReset = TRUE
    MaxCarried = 1
    MaxRolledUp = 9
    MaxMisreads = 1
    MaxErrors = 1
    MaxStops = 0
    MaxClears = 0
    MaxCrashes = 0
INVARIANT BaselineIsSampled
