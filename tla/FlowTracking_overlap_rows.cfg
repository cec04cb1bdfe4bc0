SPECIFICATION Spec
SYMMETRY MCSlotSymmetry
CONSTANTS
    Private <- MCPrivate
    NoSlot = NoSlot
    NoKey = NoKey
    Keys <- MCOneKey
    Apps = {web}
    TcpStates = {est}
    Slots = {p1, p2}
    CountersReset = FALSE
    MaxCarried = 2
    MaxRolledUp = 2
    MaxMisreads = 0
    MaxErrors = 0
    MaxStops = 1
    MaxClears = 0
    MaxCrashes = 0
INVARIANT OneOpenRow
