\* Two connections whose requests do not depend on each other; one may leave, also
\* between epoll_wait and its handler, when the server may end.
CONSTANTS
    p1 = p1
    p2 = p2
    p3 = p3
    n1 = n1
    n2 = n2
    n3 = n3
    up = up
    d1 = d1
    d2 = d2
    NULL = NULL
    Peers = {p1, p2}
    SafeNames = {n1, n2, n3}
    UnsafeNames = {up}
    Data = {d1, d2}
    HdrLen = 2
    MaxFilenameLen = 2
    MaxGenericPayload = 3
    FdLimit = 4
    MaxFdMap = 5
    MaxEvents = 4
    SndBuf = 2
    Segments = {3}
    Leavers = {p2}
    Streams <- IndependentPeers
    Directories <- PlainDir
    Faults = {"pipe"}
SPECIFICATION FairSpec
PROPERTIES
    EveryRequestAnswered
    GoneIsClosed
CHECK_DEADLOCK FALSE
