\* Pages just larger than two headers and a footer, so that every way a gap can
\* end at a page boundary is met within a few calls.
CONSTANTS
    PageSize = 24
    MaxPages = 5
    MaxLive = 3
    Sizes = {1, 6, 20}
    PageCounts = {1}
SPECIFICATION Spec
INVARIANTS
    BlocksTagged
    UsedBlocksHeld
PROPERTY AllocatorSpec
CHECK_DEADLOCK FALSE
