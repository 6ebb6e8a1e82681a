-------------------------------- MODULE Terminal ------------------------------
(***************************************************************************)
(* kernel/arch/i386/tty.c: the cursor and the screen memory, which is one  *)
(* array of Width * Height cells, and the position the VGA hardware shows  *)
(* its cursor at.  terminal_write and terminal_writestring are series of   *)
(* terminal_putchar; so are printf, sys_print and the keyboard's echo.     *)
(***************************************************************************)
EXTENDS Integers

CONSTANTS
    Width, Height,  \* VGA_WIDTH and VGA_HEIGHT (80 and 25 in the code)
    Chars,          \* bound: the characters that are written
    Blank           \* the space character

ASSUME ScreenAssumption ==
    /\ Width \in Nat \ {0} /\ Height \in Nat \ {0}
    /\ Blank \notin Chars

VARIABLES
    terminalRow, terminalColumn,
    terminalBuffer,     \* index -> what the cell shows
    cursor              \* the index last sent to the VGA ports

screenVars == <<terminalRow, terminalColumn, terminalBuffer, cursor>>

Cells == 0 .. Width * Height - 1
Index(x, y) == y * Width + x

\* terminal_initialize
Initialize ==
    /\ terminalRow = 0 /\ terminalColumn = 0
    /\ terminalBuffer = [i \in Cells |-> Blank]
    /\ cursor = 0

\* The loop over the rows copies each cell from the one below it, which it has
\* not copied to yet; then the last row is cleared.
ScrolledFromBelow(buffer) ==
    [i \in Cells |-> IF i >= Index(0, Height - 1) THEN Blank
                     ELSE buffer[Index(i % Width, Height - 1)]]
Scrolled(buffer) ==
    [i \in Cells |-> IF i >= Index(0, Height - 1) THEN Blank ELSE buffer[i + Width]]

AtBottom(row) == row + 1 = Height

\* inc_terminal_row, on the screen that terminal_putchar leaves it
IncTerminalRow(buffer) ==
    /\ terminalRow' = IF AtBottom(terminalRow) THEN terminalRow ELSE terminalRow + 1
    /\ terminalBuffer' = IF AtBottom(terminalRow) THEN Scrolled(buffer) ELSE buffer

WithEntryAt(c, x, y) == [terminalBuffer EXCEPT ![Index(x, y)] = c]

\* update_cursor, the last thing terminal_putchar does
UpdateCursorBefore == cursor' = Index(terminalColumn, terminalRow)
UpdateCursor == cursor' = Index(terminalColumn', terminalRow')

PutChar(c) ==
    /\ IF terminalColumn + 1 = Width
       THEN /\ terminalColumn' = 0
            /\ IncTerminalRow(WithEntryAt(c, terminalColumn, terminalRow))
       ELSE /\ terminalColumn' = terminalColumn + 1
            /\ terminalBuffer' = WithEntryAt(c, terminalColumn, terminalRow)
            /\ UNCHANGED terminalRow
    /\ UpdateCursor

PutNewline ==
    /\ terminalColumn' = 0
    /\ IncTerminalRow(terminalBuffer)
    /\ UpdateCursor

-------------------------------------------------------------------------------
(* Properties *)

\* Wrapping, newlines and scrolling in any order: the hardware cursor is where
\* the next character goes, and from there to the end the screen is blank, so
\* no part of an older line shows through after a scroll.
CursorAtEnd ==
    /\ cursor = Index(terminalColumn, terminalRow)
    /\ \A i \in Cells : i >= cursor => terminalBuffer[i] = Blank

\* The screen is the end of everything written, laid out line by line: index
\* arithmetic, wrapping and the scroll's copying lose and repeat nothing.
Shown == INSTANCE Teleprinter WITH
    carriage <- terminalColumn + 1,
    lines <- [y \in 1 .. terminalRow + 1 |->
                [x \in 1 .. Width |-> terminalBuffer[Index(x - 1, y - 1)]]]
TeleprinterSpec == Shown!Spec
===============================================================================
