\* The timer, the keyboard, two lines of the first controller whose old vectors
\* are exceptions' (11 and 14), the first line of the second and one more.  The
\* exceptions are two without and two with an error code, and the two whose stubs
\* do not fit; of the gates that are overwritten one is a line's (44) and one the
\* divide error's.
CONSTANTS
    Lines = {0, 1, 3, 6, 8, 12}
    BiosMasks = {{}, {3, 12}, {0, 6, 8}}
    Faults = {0, 6, 7, 8, 13, 14}
    Overwritten = {0, 44, 255}
SPECIFICATION FairSpec
INVARIANTS
    InServiceWhileHandled
    FramesFit
    MasksKept
PROPERTY
    KeysRead
CHECK_DEADLOCK FALSE
