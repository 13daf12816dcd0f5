\* One client of the events, whose ring is not overrun while the application runs
\* on; texts of up to four commands; an output buffer of three characters; a
\* cache of two sessions; two kernel models.
SPECIFICATION MCSpec
CONSTANTS
    e1 = e1
    e2 = e2
    t1 = t1
    t2 = t2
    c1 = c1
    NoEvent = NoEvent
    Elem = {e1, e2}
    Thread = {t1, t2}
    Owner <- MCOwner
    Session = {c1}
    EventLen = 2
    History = 3
    MaxEvents = 6
    MayOverrun = FALSE
    MayLapSession = FALSE
    MayExit = FALSE
    Letter <- MCLetter
    Inputs <- MCInputs
    BufIncrement = 4
    BufLenMax = 28
    own = own
    odd = odd
    old = old
    bad = bad
    root = root
    BufSize = 3
    MaxPut = 4
    MaxChars = 5
    Chains <- MCChains
    Configs <- MCConfigs
    Unreadable = {odd}
    DbKey = {1, 2, 3, 4}
    DbData = {1, 2}
    DbSize = 2
    MaxApps = 2
    MaxForks = 3
    MaxChanges = 3
    MaxHangups = 1
INVARIANTS
    EventInv
    HistoryComplete
    ParserInv
    CommandsExact
    OutputInv
    CacheExact
    DaemonInv
PROPERTIES
    NoEventSkipped
    EventsLogged
    EventsReachClients
    OutputDelivered
    GoneServersEnd
CHECK_DEADLOCK FALSE
