\* A signal removed and inserted again while another session subscribes.
SPECIFICATION StreamSpec
CONSTANTS
    s1 = s1
    s2 = s2
    st1 = st1
    st2 = st2
    Null = Null
    Signal = {s1, s2}
    SessionTask = {st1, st2}
    WidthOf <- MCWidthOf
    MaxListId = 4
    MemFrames = 2
    SeqMod = 2
    MayLap = FALSE
INVARIANT ActiveTransmitted
