\* The timer and the keyboard, an exception without an error code and one with,
\* and the two whose stubs are the wrong way round; no gate in use is overwritten.
CONSTANTS
    Lines = {0, 1}
    BiosMasks = {{}}
    Faults = {0, 7, 8, 13}
    Overwritten = {255}
SPECIFICATION Spec
INVARIANT
    HandlersReturn
CHECK_DEADLOCK FALSE
