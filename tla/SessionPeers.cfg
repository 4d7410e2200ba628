\* Two connections and two workers: every request followed by another, next to an
\* upload and a download; the first may leave at any moment, and calls may fail.
CONSTANTS
    p1 = p1
    p2 = p2
    p3 = p3
    n1 = n1
    n2 = n2
    n3 = n3
    up = up
    d1 = d1
    d2 = d2
    NULL = NULL
    SafeNames = {n1, n2, n3}
    UnsafeNames = {up}
    Data = {d1, d2}
    HdrLen = 2
    MaxFilenameLen = 2
    SndBuf = 2
    Peers = {p1, p2}
    NThreads = 2
    ListCap = 2
    Segments = {3}
    Leavers = {p1}
    Streams <- BusyPeers
    Directories <- BusyDir
    Faults = {"resource", "write", "pipe"}
SPECIFICATION Spec
INVARIANTS
    TypeOK
    RepliesFramed
    RepliesInOrder
    PutStored
    GetIntact
    FilesUnspoiled
CHECK_DEADLOCK FALSE
