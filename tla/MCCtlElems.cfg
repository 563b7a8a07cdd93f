\* Two cards, an element of the driver and up to two that the cards add.
SPECIFICATION Spec
CONSTANTS
    Cards = {c1, c2}
    NoCard = NoCard
    Names = {m1}
    Kernel = Kernel
    KernelSpec <- MCKernelSpec
    Specs <- MCSpecs
    MaxNumid = 3
    MaxCount = 2
INVARIANTS EntriesPoint InfoOfOneElem 
PROPERTY LockExcludes
SYMMETRY Symmetry
CHECK_DEADLOCK FALSE
