\* Three processes, a program of two pages that writes to one of them and to
\* its stack.
CONSTANTS
    MaxPid = 3
    CodePages = 2
    Values = {a, b}
    Dirtied <- CodeAndStack
SPECIFICATION Spec
INVARIANTS
    MappingsLive
    Confined
    ExitReclaims
PROPERTY UserMachineSpec
CHECK_DEADLOCK FALSE
