\* Two connections at once, one of which may leave at any moment; descriptor 3 and
\* up do not fit conn_map, epoll_wait returns at most two of three ready events, and
\* the write of an upload may fail.
CONSTANTS
    p1 = p1
    p2 = p2
    p3 = p3
    n1 = n1
    n2 = n2
    n3 = n3
    up = up
    d1 = d1
    d2 = d2
    NULL = NULL
    Peers = {p1, p2}
    SafeNames = {n1, n2, n3}
    UnsafeNames = {up}
    Data = {d1, d2}
    HdrLen = 2
    MaxFilenameLen = 2
    MaxGenericPayload = 3
    FdLimit = 4
    MaxFdMap = 3
    MaxEvents = 2
    SndBuf = 2
    Segments = {3}
    Leavers = {p2}
    Streams <- TwoPeers
    Directories <- PlainDir
    Faults = {"write"}
SPECIFICATION Spec
INVARIANTS
    DescriptorsOwned
    EventsCurrent
    PutStored
    GetIntact
    FilesUnspoiled
CHECK_DEADLOCK FALSE
