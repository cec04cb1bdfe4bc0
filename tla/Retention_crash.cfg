SPECIFICATION FairRetentionSpec
CONSTANTS
    Private <- MCPrivate
    NoSlot = NoSlot
    NoKey = NoKey
    Keys <- MCOneKey
    Apps = {web}
    TcpStates = {est}
    Slots = {p1}
    CountersReset = TRUE
    MaxCarried = 2
    MaxRolledUp = 9
    MaxMisreads = 1
    MaxErrors = 0
    MaxStops = 0
    MaxClears = 0
    MaxCrashes = 1
    Batch = 1
INVARIANT TypeOK
INVARIANT TrackedIsOpen
INVARIANT OpenIsTracked
INVARIANT TrackedIsKept
INVARIANT BatchesAgree
PROPERTY PassFinishes
PROPERTY ClosedIsFinal
PROPERTY RollupOnlyGrows
PROPERTY ImplementsHistory
PROPERTY HistoryFollowsDevice
