\* A persistent parameter and a parameter-signal pair, while the application ends
\* and is started again at any time.
SPECIFICATION MCFairSpec
CONSTANTS
    c1 = c1
    c2 = c2
    p1 = p1
    p2 = p2
    Null = Null
    Param = {p1, p2}
    Part = {1}
    ShmBehind <- MCShmBehind
    AppBehind <- MCAppBehind
    Val = {0, 1}
    Session = {c1, c2}
    Persistent = {p1, p2}
    Paired = {p2}
    AicRounds = 2
    MaxCalls = 2
    MayRestart = TRUE
INVARIANT PersistentSaved
PROPERTY ClientsConverge
