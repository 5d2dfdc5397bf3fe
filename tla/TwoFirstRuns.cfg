CONSTANTS
    Procs = {p1, p2}
    Relays = {r1}
    Phones = {a}
    NoRelay = NoRelay
    Absent = Absent
    Corrupt = Corrupt
    Blank = Blank
    Idle = Idle
    MaxIds = 3
SPECIFICATION DirSpec
INVARIANT
    OneIdentity
