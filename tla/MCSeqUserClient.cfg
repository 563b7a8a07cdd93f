\* Events without a blob, with a small one, and with one that is too large for
\* the buffer; a FIFO that overflows; handlers that iterate the context.
SPECIFICATION Spec
CONSTANTS
    EvSize = 2
    BufLen = 6
    Lens = {0, 1, 5}
    MaxEvents = 4
    MaxList = 2
    FifoLen = 3
    MaxDepth = 2
INVARIANTS CountExact ReceivedFaithful ReceivedInOrder
PROPERTY EveryEventHandled
CHECK_DEADLOCK FALSE
