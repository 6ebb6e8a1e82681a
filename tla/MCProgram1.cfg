\* Three rows: a scroll moves a row that is neither the first nor the last.
CONSTANTS
    MaxPid = 2
    Turns = 2
    NameLength = 8
    Leftovers = {0, 1, 248}
    BoolValues = 256
    MaxKeys = 2
    a = a
    b = b
    Width = 3
    Height = 3
    Chars = {a, b}
    Blank = blank
    Newline = newline
    Spelling <- MCSpelling
SPECIFICATION PSpec
INVARIANTS
    TurnsTaken
    CursorAtEnd
PROPERTIES
    OnUserMachine
    Finished
    TeleprinterSpec
CHECK_DEADLOCK FALSE
