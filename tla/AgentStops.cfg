CONSTANTS
    Installations = {{"relay", "helper"}}
    KeepaliveInterval = 0
    KeepaliveTimeout = 1
    LinkHealthyAfter = 0
    BackoffCap = 1
    Users = {u1}
    NoUser = NoUser
    RespawnMax = 1
    HelperHealthyAfter = 0
SPECIFICATION FairSpec
INVARIANTS
    StoppedMeansQuiet
PROPERTIES
    ServiceStops
    FailureRestarts
