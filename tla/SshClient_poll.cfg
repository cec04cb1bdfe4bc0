SPECIFICATION FairSpec
CHECK_DEADLOCK FALSE
CONSTANTS
    Conns = {c1, c2}
    NoConn = NoConn
    Length = 2
INVARIANT TypeOK
INVARIANT OwnAnswer
INVARIANT OneConnection
PROPERTY StopReturns
