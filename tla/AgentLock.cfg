CONSTANTS
    f1 = f1
    m2 = m2
    Fingerprints = {f1}
    Statics = {k1}
    NoStatic = NoStatic
    Sessions = {s1, s2}
    Consoles = {}
    None = None
    Revocations = {m1}
    Issuer <- MCIssuer
    IssuedAt <- MCIssuedAt
    Window = 0
    MaxClock = 0
SPECIFICATION FairSpec
PROPERTY
    RevokeAnswered
