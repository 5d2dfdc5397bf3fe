CONSTANTS
    f1 = f1
    m2 = m2
    Fingerprints = {f1}
    Statics = {k1}
    NoStatic = NoStatic
    Sessions = {s1, s2}
    Consoles = {c1}
    None = None
    Revocations = {m1, m2}
    Issuer <- MCIssuer
    IssuedAt <- MCIssuedAt
    Window = 0
    MaxClock = 1
SPECIFICATION Spec
SYMMETRY Threads
CONSTRAINT NotRaced
ACTION_CONSTRAINT ClockForward
INVARIANT RevocationAppliesOnce
