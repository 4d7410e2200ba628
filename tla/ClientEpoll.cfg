\* Two clients and the v2 server, which has two descriptors: a long script next to a client that may be killed.
CONSTANTS
    p1 = p1
    p2 = p2
    p3 = p3
    n1 = n1
    n2 = n2
    n3 = n3
    up = up
    d1 = d1
    d2 = d2
    NULL = NULL
    SafeNames = {n1, n2, n3}
    UnsafeNames = {up}
    Data = {d1, d2}
    HdrLen = 2
    MaxFilenameLen = 2
    SndBuf = 2
    Peers = {p1, p2}
    MaxGenericPayload = 3
    FdLimit = 2
    MaxFdMap = 3
    MaxEvents = 4
    Segments = {}
    Leavers = {}
    Streams <- NoStreams
    Directories <- PlainDir
    Faults = {}
    Scripts <- ShortScripts
    LocalDirectories <- ShortDirectories
    Fragile = {p2}
SPECIFICATION FairTogether
INVARIANTS
    InStep
PROPERTIES
    ImplementsFileService
    CommandsEnd
CHECK_DEADLOCK FALSE
