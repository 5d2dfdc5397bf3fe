CONSTANTS
    Attempts = {a1, a2}
    Offers = {o1}
    None = None
SPECIFICATION Spec
INVARIANT FailedAttemptKeepsOffer
CHECK_DEADLOCK FALSE
