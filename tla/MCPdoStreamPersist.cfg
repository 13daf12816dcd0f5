\* The session of Task::Persistent.
SPECIFICATION StreamSpec
CONSTANTS
    s1 = s1
    s2 = s2
    st1 = st1
    st2 = st2
    Null = Null
    Signal = {s1}
    SessionTask = {st1}
    WidthOf <- MCWidthOfOne
    MaxListId = 2
    MemFrames = 2
    SeqMod = 3
    MayLap = FALSE
INVARIANT PersistentValueValid
