CONSTANTS
    f1 = f1
    m2 = m2
    Fingerprints = {f1, f2}
    Statics = {k1}
    NoStatic = NoStatic
    Sessions = {s1, s2}
    Consoles = {c1}
    None = None
    Revocations = {}
    Issuer <- MCIssuer
    IssuedAt <- MCIssuedAt
    Window = 0
    MaxClock = 0
SPECIFICATION FairSpec
INVARIANTS
    TypeOK
PROPERTY
    UnpairedSessionsEnd
