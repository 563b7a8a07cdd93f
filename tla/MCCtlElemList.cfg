\* Several pages, two calls; elements come and go at any time.
SPECIFICATION ListSpec
CONSTANTS
    PageSize = 2
    MaxElems = 6
    InitElems = 3
    MaxCalls = 2
INVARIANTS InBoundsUnlessAdded EntriesWritten ListComplete
CHECK_DEADLOCK FALSE
