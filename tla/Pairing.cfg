CONSTANTS
    Attempts = {a1, a2}
    Offers = {o1, o2}
    None = None
SPECIFICATION FairSpec
INVARIANTS
    TypeOK
    OfferIsSingleUse
    PinnedUnderSecret
    PinnedIsAudited
PROPERTY
    WindowEnds
CHECK_DEADLOCK FALSE
