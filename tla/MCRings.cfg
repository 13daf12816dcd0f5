\* Three signals, two sessions: the six slots of the request ring fill up and wrap
\* around.  Two sessions that read events and may be lapped; an album of three photos.
SPECIFICATION MCSpec
CONSTANTS
    s1 = s1
    s2 = s2
    s3 = s3
    st1 = st1
    st2 = st2
    Null = Null
    Signal = {s1, s2, s3}
    SessionTask = {st1, st2}
    WidthOf <- MCWidthOf
    MaxListId = 6
    e1 = e1
    t1 = t1
    c1 = c1
    c2 = c2
    NoEvent = NoEvent
    Elem = {e1}
    Thread = {t1}
    Owner <- MCOwner
    Session = {c1, c2}
    EventLen = 3
    History = 2
    MaxEvents = 8
    MayOverrun = TRUE
    MayLapSession = TRUE
    MayExit = TRUE
    AlbumSize = 3
    Viewer = {c1}
    ParamVal = {0, 1}
    PairedParam = TRUE
    MaxPhotos = 9
    MaxStarts = 2
INVARIANTS
    DrainedListsAgree
    RemoveTargetsSignal
    ListInv
    PhotoInv
PROPERTIES
    RequestsInOrder
    SubscribeReturns
    ReplicasFollow
    EventsInOrder
    PhotosInOrder
CHECK_DEADLOCK FALSE
