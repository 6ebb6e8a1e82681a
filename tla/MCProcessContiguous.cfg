\* A program of two pages, and one fork.
CONSTANTS
    MaxPid = 2
    CodePages = 2
    Values = {a}
    Dirtied <- NoPage
SPECIFICATION Spec
INVARIANT CodeContiguous
CHECK_DEADLOCK FALSE
