\* A parameter-signal pair is set while the main thread saves.
SPECIFICATION ParamSpec
CONSTANTS
    p1 = p1
    p2 = p2
    c1 = c1
    c2 = c2
    Null = Null
    Param = {p1, p2}
    Part = {1}
    ShmBehind <- MCShmBehind
    AppBehind <- MCAppBehind
    Val = {0, 1}
    Session = {c1}
    Persistent = {p1, p2}
    Paired = {p2}
    AicRounds = 1
    MaxCalls = 1
    MayRestart = FALSE
INVARIANT UncoupledStaysSaved
