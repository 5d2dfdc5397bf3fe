CONSTANTS
    Installations = {{"relay"}, {"helper"}}
    KeepaliveInterval = 2
    KeepaliveTimeout = 1
    LinkHealthyAfter = 2
    BackoffCap = 4
    Users = {u1, u2}
    NoUser = NoUser
    RespawnMax = 2
    HelperHealthyAfter = 2
SPECIFICATION FairSpec
PROPERTY StopsWithoutRelay
