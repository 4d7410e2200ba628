\* A file is replaced by a shorter one while another peer downloads it.
CONSTANTS
    p1 = p1
    p2 = p2
    p3 = p3
    n1 = n1
    n2 = n2
    n3 = n3
    up = up
    d1 = d1
    d2 = d2
    NULL = NULL
    Peers = {p1, p2}
    SafeNames = {n1, n2, n3}
    UnsafeNames = {up}
    Data = {d1, d2}
    HdrLen = 2
    MaxFilenameLen = 2
    MaxGenericPayload = 3
    FdLimit = 4
    MaxFdMap = 5
    MaxEvents = 4
    SndBuf = 1
    Segments = {3}
    Leavers = {}
    Streams <- Shortened
    Directories <- PlainDir
    Faults = {}
SPECIFICATION FairSpec
PROPERTIES
    EveryRequestAnswered
CHECK_DEADLOCK FALSE
