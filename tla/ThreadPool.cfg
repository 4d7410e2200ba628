\* Three workers: one can sleep while another takes what a signal announced and a
\* third is being signalled; three tasks so that two can queue behind a busy pool.
CONSTANTS
    Workers = {w1, w2, w3}
    Tasks = {t1, t2, t3}
    NULL = NULL
SPECIFICATION FairSpec
INVARIANTS
    TypeOK
    TailIsLast
    AcceptedInOrder
    ServedOnce
    NoLostWakeup
    NothingDropped
PROPERTIES
    AcceptedIsHandled
    DestroyTerminates
    ImplementsTaskQueue
CHECK_DEADLOCK FALSE
