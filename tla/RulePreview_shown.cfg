SPECIFICATION Spec
SYMMETRY MCAddressSymmetry
CONSTANTS
    Buckets <- MCTwoBuckets
    Addresses = {pub1, pub2}
    Private = {}
    Verdicts <- MCVerdicts
    MinSampleCount = 1
    IncludeLowRisk = FALSE
    Volumes = {FALSE}
    MaxCount = 1
    MaxChanges = 5
INVARIANT TypeOK
INVARIANT ApprovedNotDenied
INVARIANT MaliciousIsShown
INVARIANT RankedByRisk
