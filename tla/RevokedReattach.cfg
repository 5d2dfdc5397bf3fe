CONSTANTS
    Agent = Agent
    Clients = {c1, c2}
    Tokens = {t1}
    Sockets = {s1, s2}
    Frames = {}
    MaxDevices = 3
    MaxAttempts = 1
    None = None
SPECIFICATION Spec
INVARIANT RevokedDeviceDropped
