CONSTANTS
    Sessions = {s1, s2}
    Channels = {c1, c2, c3}
    None = None
    QueueDepth = 2
    IdleSlices = 1
SPECIFICATION FairSpec
INVARIANTS
    TypeOK
    NoLostWakeup
PROPERTIES
    UnwatchedSlowsDown
    WatchersGetTicks
    StopCompletes
    SilentPeersHungUp
