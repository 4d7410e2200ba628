\* pthread_create fails after at least one worker started.
CONSTANTS
    Workers = {w1, w2}
    Tasks = {t1}
    NULL = NULL
SPECIFICATION FairSpec
PROPERTIES
    FailedCreateTerminates
CHECK_DEADLOCK FALSE
