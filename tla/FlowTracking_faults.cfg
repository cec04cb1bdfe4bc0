SPECIFICATION Spec
SYMMETRY MCSlotSymmetry
CONSTANTS
    Private <- MCPrivate
    NoSlot = NoSlot
    NoKey = NoKey
    Keys <- MCMixedKeys
    Apps = {web}
    TcpStates = {est}
    Slots = {p1, p2}
    CountersReset = FALSE
    MaxCarried = 2
    MaxRolledUp = 1
    MaxMisreads = 0
    MaxErrors = 0
    MaxStops = 0
    MaxClears = 1
    MaxCrashes = 1
INVARIANT IdsAreOurs
INVARIANT RollupTablesAgree
