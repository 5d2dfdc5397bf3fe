CONSTANTS
    Procs = {p1}
    Relays = {r1, r2}
    Phones = {a}
    NoRelay = NoRelay
    Absent = Absent
    Corrupt = Corrupt
    Blank = Blank
    Idle = Idle
    MaxIds = 3
SPECIFICATION DirSpec
INVARIANT
    PresentedToIssuer
