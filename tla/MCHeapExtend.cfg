\* Small pages: two calls reach a gap before the page boundary that is too small
\* for a block of its own.
CONSTANTS
    PageSize = 24
    MaxPages = 5
    MaxLive = 3
    Sizes = {1, 6, 20}
    PageCounts = {1}
SPECIFICATION Spec
INVARIANT ExtendsPreviousBlock
CHECK_DEADLOCK FALSE
