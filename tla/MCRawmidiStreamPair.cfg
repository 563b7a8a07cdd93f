\* Two sources, handlers that iterate once, buffers that overflow.
SPECIFICATION Spec
CONSTANTS
    Sources = {s1, s2}
    NoSource = NoSource
    InSize = 1
    OutSize = 1
    MaxBytes = 2
    MaxWritten = 2
    MaxFailed = 1
    MaxDepth = 2
INVARIANTS ReleasedOnce  
PROPERTIES Notified EventuallyRemoved
CHECK_DEADLOCK FALSE
