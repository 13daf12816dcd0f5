\* One session and every change of its subscriptions; it may be lapped.
SPECIFICATION StreamSpec
CONSTANTS
    s1 = s1
    s2 = s2
    st1 = st1
    st2 = st2
    Null = Null
    Signal = {s1, s2}
    SessionTask = {st1}
    WidthOf <- MCWidthOf
    MaxListId = 5
    MemFrames = 3
    SeqMod = 3
    MayLap = TRUE
INVARIANTS
    StreamInv
PROPERTIES
    OutOfSyncMeansLapped
