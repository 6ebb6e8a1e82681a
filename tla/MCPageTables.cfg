\* Tables of four entries: the kernel's table, two that come and go, and the
\* window; and a frame for each of them and for each page of the heap.
CONSTANTS
    Entries = 4
    MaxPage = 10
    FreeFrames = 12
SPECIFICATION Spec
INVARIANTS
    CacheCoherent
    FramesAccounted
PROPERTIES
    AddressSpaceSpec
    CallsReturn
CHECK_DEADLOCK FALSE
