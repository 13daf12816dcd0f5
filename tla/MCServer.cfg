\* Two tasks with two signals each and two parameters; three variables of a
\* directory; two connections, whose objects may be used again; two channels that
\* share a set, a decimation or neither.
SPECIFICATION MCSpec
CONSTANTS
    VarTypes <- MCVarTypes
    Periods = {1, 11}
    EventSizes = {3}
    MaxTasks = 2
    MaxSignals = 2
    MaxParams = 2
    MaxEvents = 1
    Sources <- MCSources
    Prefix = "b"
    Tasks = 2
    BufferLimit = 12
    MaxSources = 3
    c1 = c1
    c2 = c2
    None = None
    SessionObj = {c1, c2}
    MaxConnections = 2
    MaxBroadcasts = 2
    MaxSessions = 3
    s1 = s1
    ch1 = ch1
    ch2 = ch2
    Source = {s1}
    Channel = {ch1, ch2}
    SignalOf <- MCSignalOf
    Group = {0}
    Reduction = {2}
    Blocksize = {2}
    Rate = 2
    Value = {0, 1}
    SizeMod = 4
    TimeMod = 3
INVARIANTS
    LayoutInv
    DirectoryInv
    ServerInv
    BroadcastsComplete
    SubInv
PROPERTIES
    
    EventReported
CHECK_DEADLOCK FALSE
