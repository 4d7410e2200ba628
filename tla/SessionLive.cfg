\* Three connections and two workers, one of which waits for a peer to leave: inside
\* the name of a download, or with the download under way, when the server may end.
CONSTANTS
    p1 = p1
    p2 = p2
    p3 = p3
    n1 = n1
    n2 = n2
    n3 = n3
    up = up
    d1 = d1
    d2 = d2
    NULL = NULL
    SafeNames = {n1, n2, n3}
    UnsafeNames = {up}
    Data = {d1, d2}
    HdrLen = 2
    MaxFilenameLen = 2
    SndBuf = 2
    Peers = {p1, p2, p3}
    NThreads = 2
    ListCap = 2
    Segments = {5}
    Leavers = {p3}
    Streams <- QuittingPeers
    Directories <- MixedDir
    Faults = {"pipe"}
SPECIFICATION FairSpec
PROPERTIES
    EveryRequestAnswered
    GoneIsClosed
CHECK_DEADLOCK FALSE
