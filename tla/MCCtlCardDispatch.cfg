\* One or two sources on one descriptor, blocking or not, and handlers
\* that iterate the context once or do not.
SPECIFICATION Spec
CONSTANTS
    Sources = {s1, s2}
    NoSource = NoSource
    BufEvents = 2
    MaxEvents = 4
    MaxDepth = 2
INVARIANTS EveryEventEmitted NeverWaits
PROPERTIES DeliversEvents EventuallyRemoved
CHECK_DEADLOCK FALSE
