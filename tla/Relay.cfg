CONSTANTS
    Agent = Agent
    Clients = {c1, c2}
    Tokens = {t1, t2}
    Sockets = {s1, s2}
    Frames = {f1}
    MaxDevices = 2
    MaxAttempts = 1
    None = None
SYMMETRY Symmetry
SPECIFICATION Spec
INVARIANTS
    TypeOK
    TokenSingleUse
    RevokedAgentPairsNoMore
    QuotaHolds
    SocketReachable
    NoFrameAfterRevoke
