CONSTANTS
    f1 = f1
    m2 = m2
    Fingerprints = {f1}
    Statics = {k1}
    NoStatic = NoStatic
    Sessions = {s1}
    Consoles = {c1, c2}
    None = None
    Revocations = {}
    Issuer <- MCIssuer
    IssuedAt <- MCIssuedAt
    Window = 0
    MaxClock = 0
SPECIFICATION Spec
INVARIANT UnpairIsFinal
