SPECIFICATION Spec
CHECK_DEADLOCK FALSE
CONSTANTS
    Conns = {c1, c2}
    NoConn = NoConn
    Length = 2
INVARIANT ConnectionClosed
