\* Two clients and the v1 server: a long script next to a client that may be killed.
CONSTANTS
    p1 = p1
    p2 = p2
    p3 = p3
    n1 = n1
    n2 = n2
    n3 = n3
    up = up
    d1 = d1
    d2 = d2
    NULL = NULL
    SafeNames = {n1, n2, n3}
    UnsafeNames = {up}
    Data = {d1, d2}
    HdrLen = 2
    MaxFilenameLen = 2
    SndBuf = 2
    Peers = {p1, p2}
    NThreads = 1
    ListCap = 2
    Segments = {}
    Leavers = {}
    Streams <- NoStreams
    Directories <- ServedDirectories
    Faults = {}
    Scripts <- BusyScripts
    LocalDirectories <- BusyDirectories
    Fragile = {p2}
SPECIFICATION FairTogether
INVARIANTS
    TogetherTypeOK
    InStep
    StaysConnected
PROPERTIES
    ImplementsFileService
    CommandsEnd
    ClosedIsFreed
CHECK_DEADLOCK FALSE
