SPECIFICATION Spec
CONSTANTS
    Private <- MCPrivate
    NoSlot = NoSlot
    NoKey = NoKey
    Keys <- MCMixedKeys
    Apps = {web, tls}
    TcpStates = {est}
    Slots = {p1}
    CountersReset = FALSE
    MaxCarried = 3
    MaxRolledUp = 9
    MaxMisreads = 0
    MaxErrors = 0
    MaxStops = 1
    MaxClears = 0
    MaxCrashes = 0
INVARIANT RollupMatchesSessions
INVARIANT PublicIsLookedUp
INVARIANT OneOpenRow
INVARIANT NeverOvercounts
