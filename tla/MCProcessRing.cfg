\* The list alone: four processes that fork, yield and exit in any order, and
\* whose memory and registers do not matter.
CONSTANTS
    MaxPid = 4
    CodePages = 1
    Values = {a}
    Dirtied <- NoPage
SPECIFICATION FairSpec
INVARIANTS
    TypeOK
    RingOK
PROPERTIES
    RoundRobinSpec
    EveryoneRuns
CHECK_DEADLOCK FALSE
