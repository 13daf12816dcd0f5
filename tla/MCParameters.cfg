\* Two parameters of two elements, two clients.
SPECIFICATION MCSpec
CONSTANTS
    p1 = p1
    p2 = p2
    c1 = c1
    c2 = c2
    Null = Null
    Param = {p1, p2}
    Part = {1, 2}
    ShmBehind <- MCShmBehind
    AppBehind <- MCAppBehind
    Val = {0, 1}
    Session = {c1, c2}
    Persistent = {}
    Paired = {}
    AicRounds = 2
    MaxCalls = 2
    MayRestart = FALSE
SYMMETRY Clients
INVARIANTS
    ParamInv
    AckMatchesRequest
    StaleHasNotice
