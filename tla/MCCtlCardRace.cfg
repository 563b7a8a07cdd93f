\* Two threads: one creates a source while the other finalizes the last one.
SPECIFICATION Spec
CONSTANTS
    Threads = {t1, t2}
    Sources = {s1, s2}
    NoSource = NoSource
    MaxOpens = 1
    ReopenOpened = FALSE
INVARIANT SubscribedIsSubscribed
CHECK_DEADLOCK FALSE
