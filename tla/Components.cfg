CONSTANTS
    RingInterval = 4
    RingCapacity = 4
    MaxHistory = 2
    MaxTime = 18
    Adapters = {a1, a2}
    Loopback = lo
    MaxOctets = 1
    MaxMoved = 2
    UpLengths = {0, 2, 5, 6}
    DownLengths = {0, 2, 3}
    MaxChunk = 2
    MaxMessage = 5
    MaxInbound = 4
    MaxSends = 3
    MaxStarts = 3
    Procs = {p1, p2}
    Relays = {r1}
    Phones = {a}
    NoRelay = NoRelay
    Absent = Absent
    Corrupt = Corrupt
    Blank = Blank
    Idle = Idle
    MaxIds = 3
SPECIFICATION Spec
SYMMETRY Alike
INVARIANTS
    OneSamplePerInterval
    HistoryAsDeclared
    NoPhantomBurst
    MessagesIntact
    NothingLostAtBoundary
    FailuresHaveCause
    SetupIsOrdered
    OpenHostsAgree
    EnrolledHasToken
PROPERTY
    SavesAreAtomic
CONSTRAINT
    OneComplication
CHECK_DEADLOCK FALSE
