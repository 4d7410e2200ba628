\* An upload under an unsafe name, then two downloads with the same client.
CONSTANTS
    p1 = p1
    p2 = p2
    p3 = p3
    n1 = n1
    n2 = n2
    n3 = n3
    up = up
    d1 = d1
    d2 = d2
    NULL = NULL
    SafeNames = {n1, n2, n3}
    UnsafeNames = {up}
    Data = {d1, d2}
    HdrLen = 2
    MaxFilenameLen = 2
    SndBuf = 3
    Peers = {p1}
    NThreads = 1
    ListCap = 3
    Segments = {}
    Leavers = {}
    Streams <- NoStreams
    Directories <- PlainDir
    Faults = {}
    Scripts <- UnsafePut
    LocalDirectories <- UnsafeDirectories
    Fragile = {}
SPECIFICATION FairTogether
INVARIANTS
    OkMeansDone
CHECK_DEADLOCK FALSE
