\* One connection: every request followed by another, cut up in every way, with
\* every failure; two descriptors, so that a file may find none left.
CONSTANTS
    p1 = p1
    p2 = p2
    p3 = p3
    n1 = n1
    n2 = n2
    n3 = n3
    up = up
    d1 = d1
    d2 = d2
    NULL = NULL
    Peers = {p1}
    SafeNames = {n1, n2, n3}
    UnsafeNames = {up}
    Data = {d1, d2}
    HdrLen = 2
    MaxFilenameLen = 2
    MaxGenericPayload = 3
    FdLimit = 2
    MaxFdMap = 3
    MaxEvents = 4
    SndBuf = 2
    Segments = {1, 2, 3, 4}
    Leavers = {p1}
    Streams <- OnePeer
    Directories <- MixedDir
    Faults = {"resource", "write", "wait", "pipe"}
SPECIFICATION Spec
INVARIANTS
    TypeOK
    BuffersMatchState
    RepliesFramed
    RepliesInOrder
CHECK_DEADLOCK FALSE
