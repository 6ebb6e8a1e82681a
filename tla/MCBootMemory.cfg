CONSTANTS
    NumWords = 3
    WordBits = 3
    PageSize = 8
    VirtualBase = 32
    KernelStart = 16
    InfoSize = 2
    ListSize = 1
    WordSize = 1
    Loaders <- MCLoaders
SPECIFICATION BootSpec
INVARIANTS HeldExclusively TakenIsReserved StaysInBitmap LoaderDataKept
PROPERTY FirstFitSpec
CHECK_DEADLOCK FALSE
