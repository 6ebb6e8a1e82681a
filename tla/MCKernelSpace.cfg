\* Three pages to a table, a heap of up to seven, so that it grows past the
\* kernel's table and once more; two processes; few enough frames to run out.
CONSTANTS
    Entries = 3
    HeapStart = 1
    MaxPage = 6
    FreeFrames = 8
    ModulePages = 1
    Dirs = {d1, d2}
SPECIFICATION Spec
INVARIANTS
    OneHeap
    FaultsOnlyBeyond
    OwnFrames
    CacheCoherent
CHECK_DEADLOCK FALSE
