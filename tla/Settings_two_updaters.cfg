SPECIFICATION Spec
CONSTANTS
    Ids = {f1, f2}
    Names = {n1, n2}
    Conns = {a1, a2}
    Sources = {}
    Updaters = {u1, u2}
    Clearers = {}
    Idle = Idle
    Nothing = Nothing
    Garbled = Garbled
    SavesMayFail = FALSE
    SavesMayTear = FALSE
    Refusable = {}
    MayCrash = FALSE
INVARIANT NoStalePoller
