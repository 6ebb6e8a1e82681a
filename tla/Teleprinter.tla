------------------------------ MODULE Teleprinter -----------------------------
(***************************************************************************)
(* What the text screen promises: a strip of paper of which the last       *)
(* Height lines show.  Characters fill a line from the left; a full line   *)
(* or a newline starts the next one.  There is no screen memory here.      *)
(***************************************************************************)
EXTENDS Integers, Sequences

CONSTANTS Width, Height, Chars, Blank

VARIABLES
    lines,          \* the lines that show, the last one being written
    carriage        \* where on it the next character goes

vars == <<lines, carriage>>

EmptyLine == [x \in 1 .. Width |-> Blank]

Init == lines = <<EmptyLine>> /\ carriage = 1

\* A new line, and the oldest one goes if there is no room for it.
Feed(ls) ==
    LET longer == Append(ls, EmptyLine)
    IN  IF Len(longer) > Height THEN Tail(longer) ELSE longer

Strike(c) ==
    LET struck == [lines EXCEPT ![Len(lines)][carriage] = c]
    IN  /\ lines' = IF carriage = Width THEN Feed(struck) ELSE struck
        /\ carriage' = IF carriage = Width THEN 1 ELSE carriage + 1

Return == lines' = Feed(lines) /\ carriage' = 1

Next == Return \/ \E c \in Chars : Strike(c)

Spec == Init /\ [][Next]_vars
===============================================================================
