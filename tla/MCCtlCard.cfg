\* Three threads and three sources, with failures of open() and a disconnection.
SPECIFICATION Spec
CONSTANTS
    Threads = {t1, t2, t3}
    Sources = {s1, s2, s3}
    NoSource = NoSource
    MaxOpens = 2
    ReopenOpened = FALSE
INVARIANTS NoUseAfterFinalize NothingLeaked
PROPERTY EventuallyReleased
CHECK_DEADLOCK FALSE
