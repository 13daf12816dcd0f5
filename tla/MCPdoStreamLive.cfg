\* Two sessions that come, go and share a signal, with fairness.
SPECIFICATION StreamFairSpec
CONSTANTS
    s1 = s1
    s2 = s2
    st1 = st1
    st2 = st2
    Null = Null
    Signal = {s1}
    SessionTask = {st1, st2}
    WidthOf <- MCWidthOfOne
    MaxListId = 3
    MemFrames = 2
    SeqMod = 2
    MayLap = FALSE
INVARIANT ValuesDecoded
PROPERTY SubscribedBecomesActive
