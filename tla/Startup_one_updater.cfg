SPECIFICATION StartupSpec
CONSTANTS
    Ids = {f1, f2}
    Names = {n1}
    Conns = {a1, a2}
    Sources = {rdns}
    Updaters = {u1}
    Clearers = {c1}
    Idle = Idle
    Nothing = Nothing
    Garbled = Garbled
    SavesMayFail = TRUE
    SavesMayTear = FALSE
    Refusable = {f1}
    MayCrash = TRUE
    Programs = {self, other}
    Self = self
    Latest = 2
    Additive = {2}
    Addrs = {a1}
    Unreadable = Unreadable
    KeySavesMayFail = TRUE
    MaxKeys = 2
    MaxRestarts = 1
INVARIANT StartupTypeOK
INVARIANT FirewallsPersisted
INVARIANT NoStalePoller
INVARIANT EveryFirewallPolled
INVARIANT RowsAsConfigured
INVARIANT AppliedAsRecorded
INVARIANT OpenIsMigrated
INVARIANT OneKeyTrusted
PROPERTY PollsAgain
