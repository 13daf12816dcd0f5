\* A session starts while a request is pending.
SPECIFICATION StreamSpec
CONSTANTS
    s1 = s1
    s2 = s2
    st1 = st1
    st2 = st2
    Null = Null
    Signal = {s1}
    SessionTask = {st1, st2}
    WidthOf <- MCWidthOfOne
    MaxListId = 3
    MemFrames = 3
    SeqMod = 2
    MayLap = FALSE
INVARIANT InitKeepsUp
