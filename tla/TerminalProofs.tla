---------------------------- MODULE TerminalProofs -----------------------------
(***************************************************************************)
(* Proofs about Program1, which extends Terminal.  On a screen of any      *)
(* width and height, whatever is printed and whenever keys are echoed, the *)
(* cursor is at the end of what shows, and the screen implements           *)
(* Teleprinter; and the program, with the kernel's answers to its calls,   *)
(* runs on the machine of UserMachine, parent and child in turn.           *)
(***************************************************************************)
EXTENDS Program1, SequenceTheorems, TLAPS

ScreenTypeOK ==
    /\ terminalRow \in 0 .. Height - 1 /\ terminalColumn \in 0 .. Width - 1
    /\ terminalBuffer = [i \in Cells |-> terminalBuffer[i]]

ScreenInv == ScreenTypeOK /\ CursorAtEnd

-------------------------------------------------------------------------------
(* Index arithmetic *)

LEMMA ProductsOrdered ==
  ASSUME NEW y \in Int, NEW z \in Int, y <= z
  PROVE  y * Width <= z * Width
<1>1. Width \in Nat BY ScreenAssumption
<1>2. (z - y) * Width >= 0 BY <1>1
<1>3. (z - y) * Width = z * Width - y * Width BY <1>1
<1>4. y * Width \in Int /\ z * Width \in Int BY <1>1
<1> QED BY <1>2, <1>3, <1>4

\* A row ends where the next one starts.
LEMMA NextRow ==
  ASSUME NEW x \in Int, NEW y \in Int
  PROVE  /\ Index(x, y) \in Int /\ Index(x, y) = Index(0, y) + x
         /\ Index(x, y) + Width = Index(x, y + 1)
<1>1. Width \in Nat BY ScreenAssumption
<1>2. y * Width \in Int BY <1>1
<1>3. (y + 1) * Width = y * Width + Width BY <1>1
<1> QED BY <1>1, <1>2, <1>3 DEF Index

LEMMA RowsOrdered ==
  ASSUME NEW y \in Int, NEW z \in Int, y <= z
  PROVE  Index(0, y) <= Index(0, z)
<1>1. Width \in Nat BY ScreenAssumption
<1>2. y * Width \in Int /\ z * Width \in Int BY <1>1
<1> QED BY <1>1, <1>2, ProductsOrdered DEF Index

\* A column and a row make a cell, which no other column and row do.
LEMMA IndexInCells ==
  ASSUME NEW x \in 0 .. Width - 1, NEW y \in 0 .. Height - 1
  PROVE  Index(x, y) \in Cells
<1>1. Width \in Nat /\ Height \in Nat BY ScreenAssumption
<1>2. 0 * Width <= y * Width /\ (y + 1) * Width <= Height * Width BY <1>1, ProductsOrdered
<1>3. (y + 1) * Width = y * Width + Width /\ 0 * Width = 0 BY <1>1
<1>4. Height * Width = Width * Height /\ Width * Height \in Int /\ y * Width \in Int BY <1>1
<1> QED BY <1>1, <1>2, <1>3, <1>4 DEF Index, Cells

LEMMA IndexDistinct ==
  ASSUME NEW x \in 0 .. Width - 1, NEW y \in Int, NEW u \in 0 .. Width - 1, NEW z \in Int,
         Index(x, y) = Index(u, z)
  PROVE  x = u /\ y = z
<1>1. Width \in Nat BY ScreenAssumption
<1>2. y * Width \in Int /\ z * Width \in Int BY <1>1
<1>3. y * Width + x = z * Width + u BY DEF Index
<1>4. (y + 1) * Width = y * Width + Width /\ (z + 1) * Width = z * Width + Width BY <1>1
<1>5. ~(y < z)
  <2> SUFFICES ASSUME y < z PROVE FALSE OBVIOUS
  <2>1. (y + 1) * Width <= z * Width BY ProductsOrdered
  <2> QED BY <2>1, <1>1, <1>2, <1>3, <1>4
<1>6. ~(z < y)
  <2> SUFFICES ASSUME z < y PROVE FALSE OBVIOUS
  <2>1. (z + 1) * Width <= y * Width BY ProductsOrdered
  <2> QED BY <2>1, <1>1, <1>2, <1>3, <1>4
<1>7. y = z BY <1>5, <1>6
<1> QED BY <1>1, <1>2, <1>3, <1>7

-------------------------------------------------------------------------------
(* The cursor *)

LEMMA InitScreen == Initialize => ScreenInv
<1> SUFFICES ASSUME Initialize PROVE ScreenInv OBVIOUS
<1>1. Width \in Nat \ {0} /\ Height \in Nat \ {0} BY ScreenAssumption
<1>2. 0 \in 0 .. Height - 1 /\ 0 \in 0 .. Width - 1 BY <1>1
<1>3. Index(0, 0) = 0 BY <1>1 DEF Index
<1> QED BY <1>2, <1>3 DEF Initialize, ScreenInv, ScreenTypeOK, CursorAtEnd

\* The next row is blank, by scrolling if there was none.
LEMMA RowFed ==
  ASSUME ScreenTypeOK, NEW buffer, buffer = [i \in Cells |-> buffer[i]],
         \A i \in Cells : i >= Index(0, terminalRow + 1) => buffer[i] = Blank,
         terminalColumn' = 0, IncTerminalRow(buffer), cursor' = Index(terminalColumn', terminalRow')
  PROVE  ScreenInv'
<1>1. Width \in Nat \ {0} /\ Height \in Nat \ {0} BY ScreenAssumption
<1>2. terminalRow \in 0 .. Height - 1 BY DEF ScreenTypeOK
<1>3. terminalColumn' \in 0 .. Width - 1 BY <1>1
<1>4. CASE AtBottom(terminalRow)
  <2>1. terminalRow' = Height - 1 BY <1>1, <1>2, <1>4 DEF AtBottom, IncTerminalRow
  <2>2. terminalBuffer' = Scrolled(buffer) BY <1>4 DEF IncTerminalRow
  <2>3. Height - 1 \in 0 .. Height - 1 BY <1>1
  <2>4. terminalBuffer' = [i \in Cells |-> terminalBuffer'[i]] BY <2>2 DEF Scrolled
  <2>5. \A i \in Cells : i >= Index(0, Height - 1) => terminalBuffer'[i] = Blank BY <2>2 DEF Scrolled
  <2>6. ScreenTypeOK' BY <1>3, <2>1, <2>3, <2>4 DEF ScreenTypeOK, Cells
  <2>7. CursorAtEnd' BY <2>1, <2>5 DEF CursorAtEnd, Cells, Index
  <2> QED BY <2>6, <2>7 DEF ScreenInv
<1>5. CASE ~AtBottom(terminalRow)
  <2>1. terminalRow' = terminalRow + 1 /\ terminalBuffer' = buffer BY <1>5 DEF IncTerminalRow
  <2>2. terminalRow + 1 \in 0 .. Height - 1 BY <1>1, <1>2, <1>5 DEF AtBottom
  <2>3. ScreenTypeOK' BY <1>3, <2>1, <2>2 DEF ScreenTypeOK, Cells
  <2>4. CursorAtEnd' BY <2>1 DEF CursorAtEnd, Cells, Index
  <2> QED BY <2>3, <2>4 DEF ScreenInv
<1> QED BY <1>4, <1>5

\* From the cursor on the screen is blank, hence from the next row on.
LEMMA BlankBelow ==
  ASSUME ScreenInv, NEW i \in Cells, i >= Index(0, terminalRow + 1)
  PROVE  terminalBuffer[i] = Blank /\ i # cursor /\ i \in Int
<1>1. terminalRow \in Int /\ terminalColumn \in 0 .. Width - 1 /\ Width \in Nat
  BY ScreenAssumption DEF ScreenInv, ScreenTypeOK
<1>2. cursor = Index(0, terminalRow) + terminalColumn /\ Index(0, terminalRow) \in Int
  BY <1>1, NextRow DEF ScreenInv, CursorAtEnd
<1>3. Index(0, terminalRow) + Width = Index(0, terminalRow + 1) BY <1>1, NextRow
<1>4. i \in Int BY ScreenAssumption DEF Cells
<1>5. i > cursor BY <1>1, <1>2, <1>3, <1>4
<1> QED BY <1>1, <1>2, <1>4, <1>5 DEF ScreenInv, CursorAtEnd

LEMMA PutNewlineStep == ASSUME ScreenInv, PutNewline PROVE ScreenInv'
BY RowFed, BlankBelow DEF PutNewline, UpdateCursor, ScreenInv, ScreenTypeOK

LEMMA PutCharStep == ASSUME ScreenInv, NEW c, PutChar(c) PROVE ScreenInv'
<1> DEFINE buffer == WithEntryAt(c, terminalColumn, terminalRow)
<1>1. /\ terminalRow \in 0 .. Height - 1 /\ terminalColumn \in 0 .. Width - 1
      /\ Width \in Nat /\ Height \in Nat
  BY ScreenAssumption DEF ScreenInv, ScreenTypeOK
<1>2. cursor = Index(terminalColumn, terminalRow) BY DEF ScreenInv, CursorAtEnd
<1>3. buffer = [i \in Cells |-> IF i = cursor THEN c ELSE terminalBuffer[i]]
  BY <1>2 DEF WithEntryAt, ScreenInv, ScreenTypeOK
<1>4. CASE terminalColumn + 1 = Width
  <2>1. \A i \in Cells : i >= Index(0, terminalRow + 1) => buffer[i] = Blank BY <1>3, BlankBelow
  <2>2. buffer = [i \in Cells |-> buffer[i]] BY <1>3
  <2>3. terminalColumn' = 0 /\ IncTerminalRow(buffer) BY <1>4 DEF PutChar
  <2> QED BY <2>1, <2>2, <2>3, RowFed DEF PutChar, UpdateCursor, ScreenInv
<1>5. CASE terminalColumn + 1 # Width
  <2>1. terminalColumn' = terminalColumn + 1 /\ terminalRow' = terminalRow /\ terminalBuffer' = buffer
    BY <1>5 DEF PutChar
  <2>2. cursor' = Index(terminalColumn + 1, terminalRow) BY <2>1 DEF PutChar, UpdateCursor
  <2>3. cursor' = cursor + 1 /\ cursor \in Int
    <3>1. terminalColumn \in Int /\ terminalColumn + 1 \in Int /\ terminalRow \in Int BY <1>1
    <3>2. 0 \in Int /\ Index(0, terminalRow) \in Int BY <3>1, NextRow
    <3>3. cursor = Index(0, terminalRow) + terminalColumn BY <1>2, <3>1, NextRow
    <3>4. cursor' = Index(0, terminalRow) + (terminalColumn + 1) BY <2>2, <3>1, NextRow
    <3> QED BY <3>1, <3>2, <3>3, <3>4
  <2>4. \A i \in Cells : i \in Int BY ScreenAssumption DEF Cells
  <2>5. \A i \in Cells : i >= cursor + 1 => buffer[i] = Blank
    BY <1>3, <2>3, <2>4 DEF ScreenInv, CursorAtEnd
  <2>6. terminalColumn + 1 \in 0 .. Width - 1 BY <1>1, <1>5
  <2>7. ScreenTypeOK' BY <1>1, <1>3, <2>1, <2>6 DEF ScreenTypeOK, Cells
  <2>8. CursorAtEnd' BY <2>1, <2>2, <2>3, <2>5 DEF CursorAtEnd, Cells, Index
  <2> QED BY <2>7, <2>8 DEF ScreenInv
<1> QED BY <1>4, <1>5

LEMMA ScreenStep == ScreenInv /\ [PNext]_programVars => ScreenInv'
<1> SUFFICES ASSUME ScreenInv, [PNext]_programVars PROVE ScreenInv' OBVIOUS
<1>1. ASSUME NEW c, Put(c) PROVE ScreenInv' BY <1>1, PutCharStep, PutNewlineStep DEF Put
<1>2. CASE UNCHANGED screenVars
  BY <1>2 DEF ScreenInv, ScreenTypeOK, CursorAtEnd, screenVars, Index, Cells
<1>3. CASE SysPrintChar BY <1>1, <1>3 DEF SysPrintChar
<1>4. CASE Key BY <1>1, <1>4 DEF Key
<1>5. CASE RunFirst \/ Execute \/ SysGetPid \/ SysYield \/ SysFork \/ SysExit
  BY <1>2, <1>5 DEF RunFirst, Execute, SysGetPid, SysYield, SysFork, SysExit, printVars
<1>6. CASE SysPrint BY <1>2, <1>6 DEF SysPrint
<1>7. CASE UNCHANGED programVars BY <1>2, <1>7 DEF programVars
<1> QED BY <1>3, <1>4, <1>5, <1>6, <1>7 DEF PNext, Proceed

LEMMA ScreenInvariant == PSpec => []ScreenInv
<1>1. PInit => ScreenInv BY InitScreen DEF PInit
<1> QED BY <1>1, ScreenStep, PTL DEF PSpec

\* The hardware cursor is where the next character goes, and nothing shows
\* behind it, on every screen, after any text and any echoes.
THEOREM CursorStaysAtEnd == PSpec => []CursorAtEnd
<1>1. ScreenInv => CursorAtEnd BY DEF ScreenInv
<1> QED BY <1>1, ScreenInvariant, PTL

-------------------------------------------------------------------------------
(* The screen as lines *)

\* The first n rows of a screen memory.
Page(buffer, n) == [y \in 1 .. n |-> [x \in 1 .. Width |-> buffer[Index(x - 1, y - 1)]]]
EmptyLine == [x \in 1 .. Width |-> Blank]

\* What the cells of a page hold.
Shades(buffer) == {buffer[i] : i \in Cells} \cup {Blank}
Rows(buffer) == [1 .. Width -> Shades(buffer)]

LEMMA PageIsSeq ==
  ASSUME NEW buffer, NEW n \in 0 .. Height
  PROVE  /\ Page(buffer, n) \in Seq(Rows(buffer)) /\ Len(Page(buffer, n)) = n
         /\ EmptyLine \in Rows(buffer)
<1>1. Width \in Nat /\ Height \in Nat BY ScreenAssumption
<1>2. ASSUME NEW y \in 1 .. n, NEW x \in 1 .. Width
      PROVE  buffer[Index(x - 1, y - 1)] \in Shades(buffer)
  <2>1. x - 1 \in 0 .. Width - 1 /\ y - 1 \in 0 .. Height - 1 BY <1>1
  <2> QED BY <2>1, IndexInCells DEF Shades
<1>3. Page(buffer, n) \in [1 .. n -> Rows(buffer)] BY <1>2 DEF Page, Rows
<1>4. EmptyLine \in Rows(buffer) BY DEF EmptyLine, Rows, Shades
<1>5. n \in Nat BY <1>1
<1> QED BY <1>3, <1>4, <1>5

\* Feeding a page with one more line, which is blank in the memory, or with one
\* more than there is room for, which scrolls.
LEMMA PageFed ==
  ASSUME ScreenTypeOK, NEW buffer,
         \A i \in Cells : i >= Index(0, terminalRow + 1) => buffer[i] = Blank,
         IncTerminalRow(buffer)
  PROVE  Page(terminalBuffer', terminalRow' + 1) = Shown!Feed(Page(buffer, terminalRow + 1))
<1> DEFINE page == Page(buffer, terminalRow + 1)
           longer == Append(page, EmptyLine)
<1>1. Width \in Nat \ {0} /\ Height \in Nat \ {0} /\ terminalRow \in 0 .. Height - 1
  BY ScreenAssumption DEF ScreenTypeOK
<1>2. terminalRow + 1 \in 0 .. Height BY <1>1
<1>3. page \in Seq(Rows(buffer)) /\ Len(page) = terminalRow + 1 /\ EmptyLine \in Rows(buffer)
  BY <1>2, PageIsSeq
<1>4. /\ longer \in Seq(Rows(buffer)) /\ Len(longer) = terminalRow + 2
      /\ \A y \in 1 .. terminalRow + 1 : longer[y] = page[y]
      /\ longer[terminalRow + 2] = EmptyLine
  <2> HIDE DEF page
  <2> QED BY <1>1, <1>3, AppendProperties
<1>5. Shown!Feed(page) = IF Len(longer) > Height THEN Tail(longer) ELSE longer
  BY DEF Shown!Feed, Shown!EmptyLine, EmptyLine
<1>6. CASE AtBottom(terminalRow)
  <2>1. terminalRow' + 1 = Height /\ terminalRow + 1 = Height /\ terminalBuffer' = Scrolled(buffer)
    BY <1>1, <1>6 DEF AtBottom, IncTerminalRow
  <2>2. Shown!Feed(page) = Tail(longer)
    <3> HIDE DEF longer, page
    <3>1. Len(longer) > Height BY <1>1, <1>4, <2>1
    <3> QED BY <1>5, <3>1
  <2>3. /\ Tail(longer) \in Seq(Rows(buffer)) /\ Len(Tail(longer)) = Height
        /\ \A y \in 1 .. Height : Tail(longer)[y] = longer[y + 1]
    <3> HIDE DEF longer
    <3>1. longer # <<>> BY <1>1, <1>4
    <3> QED BY <1>1, <1>4, <2>1, <3>1, HeadTailProperties
  <2>4. ASSUME NEW y \in 1 .. Height
        PROVE  Page(Scrolled(buffer), Height)[y] = Tail(longer)[y]
    <3>1. Page(Scrolled(buffer), Height)[y]
            = [x \in 1 .. Width |-> Scrolled(buffer)[Index(x - 1, y - 1)]]
      BY DEF Page
    <3>2. ASSUME NEW x \in 1 .. Width
          PROVE  /\ Index(x - 1, y - 1) \in Cells
                 /\ Index(x - 1, y - 1) + Width = Index(x - 1, y)
                 /\ Index(x - 1, y - 1) >= Index(0, Height - 1) <=> y = Height
      <4>1. x - 1 \in 0 .. Width - 1 /\ y - 1 \in 0 .. Height - 1 BY <1>1
      <4>2. x - 1 \in Int /\ y - 1 \in Int /\ y \in Int /\ 0 \in Int /\ (y - 1) + 1 = y BY <1>1
      <4>3. /\ Index(x - 1, y - 1) + Width = Index(x - 1, y)
            /\ Index(x - 1, y - 1) = Index(0, y - 1) + (x - 1)
            /\ Index(0, y - 1) + Width = Index(0, y)
            /\ Index(0, y - 1) \in Int /\ Index(0, y) \in Int
        <5>1. Index(x - 1, y - 1) + Width = Index(x - 1, (y - 1) + 1) BY <4>2, NextRow
        <5>2. Index(0, y - 1) + Width = Index(0, (y - 1) + 1) BY <4>2, NextRow
        <5>3. Index(0, y - 1) \in Int /\ Index(0, y) \in Int BY <4>2, NextRow
        <5>4. Index(x - 1, y - 1) = Index(0, y - 1) + (x - 1) BY <4>2, NextRow
        <5> QED BY <4>2, <5>1, <5>2, <5>3, <5>4
      <4>4. y < Height => Index(0, y) <= Index(0, Height - 1) BY <1>1, <4>2, RowsOrdered
      <4>5. Index(0, Height - 1) \in Int BY <1>1, NextRow
      <4> QED BY <1>1, <4>1, <4>3, <4>4, <4>5, IndexInCells
    <3>3. CASE y = Height
      <4>1. Tail(longer)[y] = EmptyLine
        <5>1. y \in 1 .. Height /\ y + 1 = terminalRow + 2 BY <1>1, <2>1, <3>3
        <5> HIDE DEF longer
        <5> QED BY <1>4, <2>3, <5>1
      <4> QED BY <3>1, <3>2, <3>3, <4>1 DEF Scrolled, EmptyLine
    <3>4. CASE y # Height
      <4>1. y + 1 \in 1 .. terminalRow + 1 /\ (y + 1) - 1 = y BY <1>1, <2>1, <3>4
      <4>2. Tail(longer)[y] = page[y + 1]
        <5> HIDE DEF longer, page
        <5> QED BY <1>4, <2>3, <4>1
      <4>3. page[y + 1] = [x \in 1 .. Width |-> buffer[Index(x - 1, y)]] BY <4>1 DEF Page
      <4> QED BY <3>1, <3>2, <3>4, <4>2, <4>3 DEF Scrolled
    <3> QED BY <3>3, <3>4
  <2>5. Page(Scrolled(buffer), Height) = Tail(longer)
    <3> DEFINE moved == Page(Scrolled(buffer), Height)
               tail == Tail(longer)
    <3>1. moved = [y \in 1 .. Height |-> moved[y]] BY DEF Page
    <3>2. tail = [y \in 1 .. Height |-> tail[y]]
      <4> HIDE DEF longer
      <4> QED BY <2>3, LenProperties
    <3> HIDE DEF moved, tail
    <3>3. ASSUME NEW y \in 1 .. Height PROVE moved[y] = tail[y] BY <2>4 DEF moved, tail
    <3>4. moved = tail BY <3>1, <3>2, <3>3
    <3> QED BY <3>4 DEF moved, tail
  <2> QED BY <2>1, <2>2, <2>5
<1>7. CASE ~AtBottom(terminalRow)
  <2>1. terminalRow' = terminalRow + 1 /\ terminalBuffer' = buffer /\ terminalRow + 2 \in 0 .. Height
    BY <1>1, <1>7 DEF AtBottom, IncTerminalRow
  <2>2. Shown!Feed(page) = longer
    <3> HIDE DEF longer, page
    <3>1. ~(Len(longer) > Height) BY <1>1, <1>4, <2>1
    <3> QED BY <1>5, <3>1
  <2>3. ASSUME NEW y \in 1 .. terminalRow + 2 PROVE Page(buffer, terminalRow + 2)[y] = longer[y]
    <3>1. Page(buffer, terminalRow + 2)[y] = [x \in 1 .. Width |-> buffer[Index(x - 1, y - 1)]]
      BY DEF Page
    <3>2. CASE y = terminalRow + 2
      <4>1. ASSUME NEW x \in 1 .. Width PROVE buffer[Index(x - 1, y - 1)] = Blank
        <5>1. x - 1 \in 0 .. Width - 1 /\ y - 1 \in 0 .. Height - 1 /\ y - 1 = terminalRow + 1
          BY <1>1, <2>1, <3>2
        <5>2. Index(x - 1, y - 1) \in Cells BY <5>1, IndexInCells
        <5>3. Index(x - 1, y - 1) = Index(0, y - 1) + (x - 1) /\ Index(0, y - 1) \in Int
          BY <1>1, <5>1, NextRow
        <5>4. Index(x - 1, y - 1) >= Index(0, terminalRow + 1) BY <1>1, <5>1, <5>3
        <5> QED BY <5>2, <5>4
      <4> QED BY <1>4, <3>1, <3>2, <4>1 DEF EmptyLine
    <3>3. CASE y # terminalRow + 2
      <4>1. y \in 1 .. terminalRow + 1 BY <1>1, <3>3
      <4>2. longer[y] = page[y]
        <5> HIDE DEF longer, page
        <5> QED BY <1>4, <4>1
      <4> QED BY <3>1, <4>1, <4>2 DEF Page
    <3> QED BY <3>2, <3>3
  <2>4. Page(buffer, terminalRow + 2) = longer
    <3> DEFINE next == Page(buffer, terminalRow + 2)
    <3>1. next = [y \in 1 .. terminalRow + 2 |-> next[y]] BY DEF Page
    <3> HIDE DEF longer, next
    <3>2. longer = [y \in 1 .. terminalRow + 2 |-> longer[y]] BY <1>4, LenProperties
    <3>3. ASSUME NEW y \in 1 .. terminalRow + 2 PROVE next[y] = longer[y] BY <2>3 DEF next
    <3>4. next = longer BY <3>1, <3>2, <3>3
    <3> QED BY <3>4 DEF next
  <2>5. terminalRow' + 1 = terminalRow + 2 BY <1>1, <2>1
  <2> QED BY <2>1, <2>2, <2>4, <2>5
<1> QED BY <1>6, <1>7
-------------------------------------------------------------------------------
(* The refinement *)

ShownLines == Page(terminalBuffer, terminalRow + 1)

LEMMA InitShown == Initialize => Shown!Init
<1> SUFFICES ASSUME Initialize PROVE Shown!Init OBVIOUS
<1>1. Width \in Nat \ {0} /\ Height \in Nat \ {0} BY ScreenAssumption
<1>2. terminalColumn + 1 = 1 /\ terminalRow + 1 = 1 BY DEF Initialize
<1>3. ASSUME NEW y \in 1 .. 1, NEW x \in 1 .. Width PROVE terminalBuffer[Index(x - 1, y - 1)] = Blank
  <2>1. x - 1 \in 0 .. Width - 1 /\ y - 1 \in 0 .. Height - 1 BY <1>1
  <2> QED BY <2>1, IndexInCells DEF Initialize
<1>4. ShownLines = [y \in 1 .. 1 |-> EmptyLine] BY <1>2, <1>3 DEF ShownLines, Page, EmptyLine
<1>5. [y \in 1 .. 1 |-> EmptyLine] = <<EmptyLine>> OBVIOUS
<1> QED BY <1>2, <1>4, <1>5 DEF Shown!Init, Shown!EmptyLine, ShownLines, Page, EmptyLine

LEMMA NewlineShown == ASSUME ScreenInv, PutNewline PROVE Shown!Return
<1>1. \A i \in Cells : i >= Index(0, terminalRow + 1) => terminalBuffer[i] = Blank BY BlankBelow
<1>2. ShownLines' = Shown!Feed(ShownLines)
  BY <1>1, PageFed DEF PutNewline, ScreenInv, ShownLines, Page, Index
<1>3. terminalColumn' + 1 = 1 BY DEF PutNewline
<1> QED BY <1>2, <1>3 DEF Shown!Return, ShownLines, Page

LEMMA CharShown == ASSUME ScreenInv, NEW c, PutChar(c) PROVE Shown!Strike(c)
<1> DEFINE buffer == WithEntryAt(c, terminalColumn, terminalRow)
           struck == [ShownLines EXCEPT ![Len(ShownLines)][terminalColumn + 1] = c]
<1>1. /\ terminalRow \in 0 .. Height - 1 /\ terminalColumn \in 0 .. Width - 1
      /\ Width \in Nat \ {0} /\ Height \in Nat \ {0}
  BY ScreenAssumption DEF ScreenInv, ScreenTypeOK
<1>2. cursor = Index(terminalColumn, terminalRow) BY DEF ScreenInv, CursorAtEnd
<1>3. buffer = [i \in Cells |-> IF i = cursor THEN c ELSE terminalBuffer[i]]
  BY <1>2 DEF WithEntryAt, ScreenInv, ScreenTypeOK
<1>4. Len(ShownLines) = terminalRow + 1
  <2>1. terminalRow + 1 \in 0 .. Height BY <1>1
  <2> QED BY <2>1, PageIsSeq DEF ShownLines
<1>5. struck = Page(buffer, terminalRow + 1)
  <2>1. ASSUME NEW y \in 1 .. terminalRow + 1, NEW x \in 1 .. Width
        PROVE  buffer[Index(x - 1, y - 1)]
                 = IF y = terminalRow + 1 /\ x = terminalColumn + 1 THEN c
                   ELSE terminalBuffer[Index(x - 1, y - 1)]
    <3>1. x - 1 \in 0 .. Width - 1 /\ y - 1 \in 0 .. Height - 1 BY <1>1
    <3>2. Index(x - 1, y - 1) \in Cells BY <3>1, IndexInCells
    <3>3. y - 1 \in Int /\ terminalRow \in Int BY <1>1
    <3>4. Index(x - 1, y - 1) = cursor => x - 1 = terminalColumn /\ y - 1 = terminalRow
      BY <1>1, <1>2, <3>1, <3>3, IndexDistinct
    <3>5. y = terminalRow + 1 /\ x = terminalColumn + 1 <=> y - 1 = terminalRow /\ x - 1 = terminalColumn
      BY <1>1
    <3> QED BY <1>2, <1>3, <3>2, <3>4, <3>5
  <2> DEFINE before(y) == [x \in 1 .. Width |-> terminalBuffer[Index(x - 1, y - 1)]]
             after(y) == [x \in 1 .. Width |-> buffer[Index(x - 1, y - 1)]]
  <2>2. ASSUME NEW y \in 1 .. terminalRow + 1, y # terminalRow + 1 PROVE after(y) = before(y)
    BY <2>1, <2>2
  <2>3. after(terminalRow + 1) = [before(terminalRow + 1) EXCEPT ![terminalColumn + 1] = c]
    <3>1. terminalRow + 1 \in 1 .. terminalRow + 1 BY <1>1
    <3> HIDE DEF buffer
    <3> QED BY <2>1, <3>1
  <2>4. ShownLines = [y \in 1 .. terminalRow + 1 |-> before(y)]
        /\ Page(buffer, terminalRow + 1) = [y \in 1 .. terminalRow + 1 |-> after(y)]
    BY DEF ShownLines, Page
  <2> HIDE DEF before, after
  <2>5. terminalRow + 1 \in 1 .. terminalRow + 1 BY <1>1
  <2>6. struck = [y \in 1 .. terminalRow + 1 |-> after(y)] BY <1>4, <2>2, <2>3, <2>4, <2>5
  <2> QED BY <2>4, <2>6
<1>6. CASE terminalColumn + 1 = Width
  <2>1. terminalColumn' + 1 = 1 /\ IncTerminalRow(buffer) BY <1>6 DEF PutChar
  <2>2. \A i \in Cells : i >= Index(0, terminalRow + 1) => buffer[i] = Blank BY <1>3, BlankBelow
  <2>3. Page(terminalBuffer', terminalRow' + 1) = Shown!Feed(Page(buffer, terminalRow + 1))
    <3> HIDE DEF buffer
    <3> QED BY <2>1, <2>2, PageFed DEF ScreenInv
  <2>4. ShownLines' = Shown!Feed(struck) BY <1>5, <2>3 DEF ShownLines, Page, Index
  <2> QED BY <1>6, <2>1, <2>4 DEF Shown!Strike, ShownLines, Page
<1>7. CASE terminalColumn + 1 # Width
  <2>1. terminalColumn' = terminalColumn + 1 /\ terminalRow' = terminalRow /\ terminalBuffer' = buffer
    BY <1>7 DEF PutChar
  <2>2. ShownLines' = struck BY <1>5, <2>1 DEF ShownLines, Page, Index
  <2> QED BY <1>7, <2>1, <2>2 DEF Shown!Strike, ShownLines, Page
<1> QED BY <1>6, <1>7

SentOK == sent \in Nat

LEMMA SentCounts == PSpec => []SentOK
<1>1. PInit => SentOK BY DEF PInit, SentOK
<1>2. SentOK /\ [PNext]_programVars => SentOK'
  BY DEF SentOK, PNext, Proceed, RunFirst, Execute, SysPrintChar, SysPrint, SysGetPid, SysYield, SysFork,
         SysExit, Key, printVars, programVars
<1> QED BY <1>1, <1>2, PTL DEF PSpec

LEMMA ShownStep ==
  ASSUME \A piece : Spelling(piece) \in Seq(Chars \cup {Newline}),
         ScreenInv, SentOK, [PNext]_programVars
  PROVE  [Shown!Next]_(Shown!vars)
<1>1. ASSUME NEW c \in Chars \cup {Newline}, Put(c) PROVE Shown!Next
  BY <1>1, CharShown, NewlineShown DEF Put, Shown!Next
<1>2. CASE UNCHANGED screenVars BY <1>2 DEF screenVars, Shown!vars, Index
<1>3. CASE SysPrintChar
  <2> DEFINE chars == Spelling(Piece(running, call.what))
  <2>1. PICK n \in 1 .. Len(chars) : Put(chars[n])
    <3>1. chars \in Seq(Chars \cup {Newline}) OBVIOUS
    <3>2. sent < Len(chars) /\ Put(chars[sent + 1]) BY <1>3 DEF SysPrintChar
    <3> HIDE DEF chars
    <3>3. sent + 1 \in 1 .. Len(chars) BY <3>1, <3>2 DEF SentOK
    <3> QED BY <3>2, <3>3
  <2>2. chars[n] \in Chars \cup {Newline} BY <2>1, ElementOfSeq
  <2> QED BY <1>1, <2>1, <2>2
<1>4. CASE Key BY <1>1, <1>4 DEF Key
<1>5. CASE RunFirst \/ Execute \/ SysGetPid \/ SysYield \/ SysFork \/ SysExit
  BY <1>2, <1>5 DEF RunFirst, Execute, SysGetPid, SysYield, SysFork, SysExit, printVars
<1>6. CASE SysPrint BY <1>2, <1>6 DEF SysPrint
<1>7. CASE UNCHANGED programVars BY <1>2, <1>7 DEF programVars
<1> QED BY <1>3, <1>4, <1>5, <1>6, <1>7 DEF PNext, Proceed

\* Whatever characters the pieces are spelled with, and on every screen: what
\* shows is the end of what was written, as on paper.
THEOREM ImplementsTeleprinter ==
  ASSUME \A piece : Spelling(piece) \in Seq(Chars \cup {Newline})
  PROVE  PSpec => TeleprinterSpec
<1>1. PInit => Shown!Init BY InitShown DEF PInit
<1>2. ScreenInv /\ SentOK /\ [PNext]_programVars => [Shown!Next]_(Shown!vars) BY ShownStep
<1> QED BY <1>1, <1>2, ScreenInvariant, SentCounts, PTL DEF PSpec, TeleprinterSpec, Shown!Spec
-------------------------------------------------------------------------------
(* The program *)

LEMMA LineOfOne ==
  ASSUME NEW a
  PROVE  Line(<<a>>) = <<Do("print", a), Do("print", "newline")>>
<1> DEFINE n == "newline"
           s == Append(<<a>>, n)
<1> HIDE DEF n
<1>1. <<a>> \in Seq({a, n}) /\ n \in {a, n} /\ Len(<<a>>) = 1 OBVIOUS
<1>2. s[1] = a /\ s[2] = n BY <1>1, AppendProperties
<1>3. Line(<<a>>) = [i \in 1 .. 2 |-> Do("print", s[i])] BY <1>1 DEF Line, n
<1> HIDE DEF s
<1>4. Line(<<a>>) = <<Do("print", a), Do("print", n)>> BY <1>2, <1>3
<1> QED BY <1>4 DEF n

LEMMA LineOfTwo ==
  ASSUME NEW a, NEW b
  PROVE  Line(<<a, b>>) = <<Do("print", a), Do("print", b), Do("print", "newline")>>
<1> DEFINE n == "newline"
           s == Append(<<a, b>>, n)
<1> HIDE DEF n
<1>1. <<a, b>> \in Seq({a, b, n}) /\ n \in {a, b, n} /\ Len(<<a, b>>) = 2 OBVIOUS
<1>2. s[1] = a /\ s[2] = b /\ s[3] = n BY <1>1, AppendProperties
<1>3. Line(<<a, b>>) = [i \in 1 .. 3 |-> Do("print", s[i])] BY <1>1 DEF Line, n
<1> HIDE DEF s
<1>4. Line(<<a, b>>) = <<Do("print", a), Do("print", b), Do("print", n)>> BY <1>2, <1>3
<1> QED BY <1>4 DEF n

\* u is t behind s.
Joins(u, s, t) ==
    /\ Len(u) = Len(s) + Len(t)
    /\ \A i \in 1 .. Len(s) : u[i] = s[i]
    /\ \A i \in 1 .. Len(t) : u[Len(s) + i] = t[i]

LEMMA Joined ==
  ASSUME NEW S, NEW s \in Seq(S), NEW t \in Seq(S)
  PROVE  s \o t \in Seq(S) /\ Joins(s \o t, s, t)
<1>1. s \o t \in Seq(S) /\ Len(s \o t) = Len(s) + Len(t) BY ConcatProperties
<1>2. \A i \in 1 .. Len(s) + Len(t) : (s \o t)[i] = IF i <= Len(s) THEN s[i] ELSE t[i - Len(s)]
  BY ConcatProperties
<1>3. ASSUME NEW i \in 1 .. Len(s) PROVE (s \o t)[i] = s[i] BY <1>2
<1>4. ASSUME NEW i \in 1 .. Len(t) PROVE (s \o t)[Len(s) + i] = t[i]
  <2>1. Len(s) + i \in 1 .. Len(s) + Len(t) /\ ~(Len(s) + i <= Len(s)) /\ Len(s) + i - Len(s) = i
    OBVIOUS
  <2> QED BY <1>2, <2>1
<1> QED BY <1>1, <1>3, <1>4 DEF Joins

\* What is where in Code.
LEMMA CodeAt ==
  /\ Len(Code) = 17 /\ DOMAIN Code = 1 .. 17
  /\ Code[1] = Do("store", "argc") /\ Code[2] = Do("print", "Argc") /\ Code[3] = Do("print", "argc")
  /\ Code[4] = Do("print", "newline") /\ Code[5] = Do("print", "Argv")
  /\ Code[6] = Do("print", "argv[0]") /\ Code[7] = Do("print", "newline") /\ Code[8] = Do("fork", "none")
  /\ Code[9] = Do("store", "res") /\ Code[10] = Do("get_pid", "none") /\ Code[11] = Do("store", "own")
  /\ Code[12] = Do("store", "other") /\ Code[13] = Do("print", "line")
  /\ Code[14] = Do("print", "newline") /\ Code[15] = Do("yield", "none") /\ Code[16] = Do("store", "i")
  /\ Code[17] = Do("exit", "none")
<1> DEFINE S == {Do(op, what) : op \in {"exit", "fork", "get_pid", "print", "store", "yield"},
                                what \in {"none", "Argc", "Argv", "argc", "argv[0]", "i", "line",
                                          "newline", "other", "own", "res"}}
           first == <<Do("store", "argc")>>
           argc == Line(<<"Argc", "argc">>)
           argv == Line(<<"Argv", "argv[0]">>)
           called == <<Do("fork", "none"), Do("store", "res"), Do("get_pid", "none"), Do("store", "own"),
                       Do("store", "other")>>
           line == Line(<<"line">>)
           last == <<Do("yield", "none"), Do("store", "i"), Do("exit", "none")>>
           one == first \o argc
           two == one \o argv
           three == two \o called
           four == three \o line
           five == four \o last
<1>0. /\ Do("store", "argc") \in S /\ Do("print", "Argc") \in S /\ Do("print", "argc") \in S
      /\ Do("print", "newline") \in S /\ Do("print", "Argv") \in S /\ Do("print", "argv[0]") \in S
      /\ Do("print", "newline") \in S /\ Do("fork", "none") \in S /\ Do("store", "res") \in S
      /\ Do("get_pid", "none") \in S /\ Do("store", "own") \in S /\ Do("store", "other") \in S
      /\ Do("print", "line") \in S /\ Do("print", "newline") \in S /\ Do("yield", "none") \in S
      /\ Do("store", "i") \in S /\ Do("exit", "none") \in S
  OBVIOUS
<1> HIDE DEF S, Do
<1>1. /\ first \in Seq(S) /\ Len(first) = 1 /\ first[1] = Do("store", "argc")
  BY <1>0
<1>2. /\ argc \in Seq(S) /\ Len(argc) = 3 /\ argc[1] = Do("print", "Argc")
      /\ argc[2] = Do("print", "argc") /\ argc[3] = Do("print", "newline")
  <2>1. argc = <<Do("print", "Argc"), Do("print", "argc"), Do("print", "newline")>> BY LineOfTwo
  <2> HIDE DEF argc
  <2> QED BY <1>0, <2>1
<1>3. /\ argv \in Seq(S) /\ Len(argv) = 3 /\ argv[1] = Do("print", "Argv")
      /\ argv[2] = Do("print", "argv[0]") /\ argv[3] = Do("print", "newline")
  <2>1. argv = <<Do("print", "Argv"), Do("print", "argv[0]"), Do("print", "newline")>> BY LineOfTwo
  <2> HIDE DEF argv
  <2> QED BY <1>0, <2>1
<1>4. /\ called \in Seq(S) /\ Len(called) = 5 /\ called[1] = Do("fork", "none")
      /\ called[2] = Do("store", "res") /\ called[3] = Do("get_pid", "none")
      /\ called[4] = Do("store", "own") /\ called[5] = Do("store", "other")
  BY <1>0
<1>5. /\ line \in Seq(S) /\ Len(line) = 2 /\ line[1] = Do("print", "line")
      /\ line[2] = Do("print", "newline")
  <2>1. line = <<Do("print", "line"), Do("print", "newline")>> BY LineOfOne
  <2> HIDE DEF line
  <2> QED BY <1>0, <2>1
<1>6. /\ last \in Seq(S) /\ Len(last) = 3 /\ last[1] = Do("yield", "none") /\ last[2] = Do("store", "i")
      /\ last[3] = Do("exit", "none")
  BY <1>0
<1>7. Code = five BY DEF Code
<1> HIDE DEF first, argc, argv, called, line, last
<1>8. /\ one \in Seq(S) /\ Len(one) = 4 /\ \A i \in 1 .. 1 : one[i] = first[i]
      /\ one[2] = Do("print", "Argc") /\ one[3] = Do("print", "argc")
      /\ one[4] = Do("print", "newline")
  <2>1. first \in Seq(S) /\ argc \in Seq(S) BY <1>1, <1>2
  <2>2. one \in Seq(S) /\ Joins(one, first, argc) BY ONLY <2>1, Joined, Zenon
  <2> HIDE DEF one
  <2>3. one[1 + 1] = argc[1] /\ one[1 + 2] = argc[2] /\ one[1 + 3] = argc[3]
    BY <1>1, <1>2, <2>2 DEF Joins
  <2> QED BY <1>1, <1>2, <2>2, <2>3 DEF Joins
<1> HIDE DEF one
<1>9. /\ two \in Seq(S) /\ Len(two) = 7 /\ \A i \in 1 .. 4 : two[i] = one[i]
      /\ two[5] = Do("print", "Argv") /\ two[6] = Do("print", "argv[0]")
      /\ two[7] = Do("print", "newline")
  <2>1. one \in Seq(S) /\ argv \in Seq(S) BY <1>8, <1>3
  <2>2. two \in Seq(S) /\ Joins(two, one, argv) BY ONLY <2>1, Joined, Zenon
  <2> HIDE DEF two
  <2>3. two[4 + 1] = argv[1] /\ two[4 + 2] = argv[2] /\ two[4 + 3] = argv[3]
    BY <1>8, <1>3, <2>2 DEF Joins
  <2> QED BY <1>8, <1>3, <2>2, <2>3 DEF Joins
<1> HIDE DEF two
<1>10. /\ three \in Seq(S) /\ Len(three) = 12 /\ \A i \in 1 .. 7 : three[i] = two[i]
       /\ three[8] = Do("fork", "none") /\ three[9] = Do("store", "res") /\ three[10] = Do("get_pid", "none")
      /\ three[11] = Do("store", "own") /\ three[12] = Do("store", "other")
  <2>1. two \in Seq(S) /\ called \in Seq(S) BY <1>9, <1>4
  <2>2. three \in Seq(S) /\ Joins(three, two, called) BY ONLY <2>1, Joined, Zenon
  <2> HIDE DEF three
  <2>3. /\ three[7 + 1] = called[1] /\ three[7 + 2] = called[2] /\ three[7 + 3] = called[3]
        /\ three[7 + 4] = called[4] /\ three[7 + 5] = called[5]
    BY <1>9, <1>4, <2>2 DEF Joins
  <2> QED BY <1>9, <1>4, <2>2, <2>3 DEF Joins
<1> HIDE DEF three
<1>11. /\ four \in Seq(S) /\ Len(four) = 14 /\ \A i \in 1 .. 12 : four[i] = three[i]
       /\ four[13] = Do("print", "line") /\ four[14] = Do("print", "newline")
  <2>1. three \in Seq(S) /\ line \in Seq(S) BY <1>10, <1>5
  <2>2. four \in Seq(S) /\ Joins(four, three, line) BY ONLY <2>1, Joined, Zenon
  <2> HIDE DEF four
  <2>3. four[12 + 1] = line[1] /\ four[12 + 2] = line[2]
    BY <1>10, <1>5, <2>2 DEF Joins
  <2> QED BY <1>10, <1>5, <2>2, <2>3 DEF Joins
<1> HIDE DEF four
<1>12. /\ five \in Seq(S) /\ Len(five) = 17 /\ \A i \in 1 .. 14 : five[i] = four[i]
       /\ five[15] = Do("yield", "none") /\ five[16] = Do("store", "i") /\ five[17] = Do("exit", "none")
  <2>1. four \in Seq(S) /\ last \in Seq(S) BY <1>11, <1>6
  <2>2. five \in Seq(S) /\ Joins(five, four, last) BY ONLY <2>1, Joined, Zenon
  <2> HIDE DEF five
  <2>3. five[14 + 1] = last[1] /\ five[14 + 2] = last[2] /\ five[14 + 3] = last[3]
    BY <1>11, <1>6, <2>2 DEF Joins
  <2> QED BY <1>11, <1>6, <2>2, <2>3 DEF Joins
<1> HIDE DEF five
<1>13. \A i \in 1 .. 12 : five[i] = three[i] BY <1>11, <1>12
<1>14. \A i \in 1 .. 4 : five[i] = one[i] BY <1>9, <1>10, <1>13
<1>15. \A i \in 5 .. 7 : five[i] = two[i] BY <1>10, <1>13
<1> QED BY <1>1, <1>7, <1>8, <1>9, <1>10, <1>11, <1>12, <1>13, <1>14, <1>15

\* Where jumps lead: the loop starts with its line, and the end of a line is behind
\* the next newline.
LEMMA Jumps ==
  /\ LoopStart = 13
  /\ \A j \in 1 .. 17 : Code[j].op = "print" => AfterLine(j) \in {5, 8, 15}
<1>1. DOMAIN Code = 1 .. 17 BY CodeAt
<1>2. \A j \in 1 .. 17 : Code[j].what = "line" <=> j = 13 BY CodeAt DEF Do
<1>3. \A j \in 1 .. 17 : Code[j].what = "newline" <=> j \in {4, 7, 14} BY CodeAt DEF Do
<1>4. \A j \in 1 .. 17 : Code[j].op = "print" => j \in {2, 3, 4, 5, 6, 7, 13, 14} BY CodeAt DEF Do
<1>5. LoopStart = 13 BY <1>1, <1>2 DEF LoopStart
<1>6. ASSUME NEW j \in 1 .. 17, Code[j].op = "print" PROVE AfterLine(j) \in {5, 8, 15}
  <2> DEFINE Ends(k) == Code[k].what = "newline" /\ \A l \in j .. k - 1 : Code[l].what # "newline"
  <2>1. Len(Code) = 17 BY CodeAt
  <2>2. \E k \in j .. 17 : Ends(k)
    <3>1. CASE j \in {2, 3, 4} BY <1>3, <3>1
    <3>2. CASE j \in {5, 6, 7} BY <1>3, <3>2
    <3>3. CASE j \in {13, 14} BY <1>3, <3>3
    <3> QED BY <1>4, <1>6, <3>1, <3>2, <3>3
  <2> DEFINE end == CHOOSE k \in j .. 17 : Ends(k)
  <2>3. end \in j .. 17 /\ Code[end].what = "newline" BY <2>2
  <2>4. AfterLine(j) = 1 + end BY <2>1 DEF AfterLine
  <2> HIDE DEF end
  <2>5. end \in {4, 7, 14} BY <1>3, <2>3
  <2> QED BY <2>4, <2>5
<1> QED BY <1>5, <1>6
-------------------------------------------------------------------------------
(* The machine the program runs on *)

Values == 0 .. Len(Code) + MaxPid + Turns

\* What programs and the kernel's answers leave in registers and memory.
ProgramTypeOK ==
    /\ result \in [live -> 0 .. MaxPid] /\ pc \in [live -> 1 .. 18]
    /\ memory \in [live -> [Slots -> 0 .. MaxPid + Turns]]

\* Nobody runs off the end of Code: the counter of main is below its limit wherever
\* the loop goes on, and behind the last instruction there is only the call it makes.
InCode ==
    /\ \A p \in live : memory[p].i \in 0 .. Turns /\ (pc[p] <= 16 => memory[p].i < Turns)
    /\ phase = "on" => \A p \in live : pc[p] = 18 => p = running /\ call.op = "exit"

RingTypeOK ==
    /\ phase \in {"off", "on", "stopped"} /\ nextPid \in 1 .. MaxPid + 1
    /\ live \subseteq 1 .. nextPid - 1
    /\ phase = "off" => live = {} /\ nextPid = 1
    /\ phase # "off" => running \in live

ProgramInv == RingTypeOK /\ ProgramTypeOK /\ InCode

LEMMA Limits ==
  /\ MaxPid \in Nat /\ MaxPid >= 1 /\ Turns \in Nat /\ Turns >= 1
  /\ Values = 0 .. 17 + MaxPid + Turns /\ 1 \in 0 .. MaxPid
  /\ \A s \in Slots : s \in {"argc", "res", "own", "other", "i"}
BY ProgramAssumption, CodeAt DEF Values, Slots

LEMMA InitProgram == PInit => ProgramInv
BY Limits DEF PInit, Init, ProgramInv, RingTypeOK, ProgramTypeOK, InCode

\* What an instruction does to the place, and to the counter.
LEMMA Followed ==
  ASSUME ProgramInv, NEW p \in live, pc[p] \in 1 .. 17
  PROVE  /\ Following(p) \in 1 .. 18
         /\ Following(p) = 18 => pc[p] = 17
         /\ Code[pc[p]].op = "exit" <=> pc[p] = 17
         /\ Code[pc[p]].op = "store" => Code[pc[p]].what \in Slots
         /\ Code[pc[p]].what = "i" <=> pc[p] = 16
         /\ pc[p] = 16 => (Following(p) <= 16 => memory[p].i + 1 < Turns)
         /\ pc[p] = 17 => Following(p) = 18
<1> DEFINE j == pc[p]
<1>1. j \in 1 .. 17 OBVIOUS
<1> HIDE DEF j
<1>2. Code[j].op = "exit" <=> j = 17 BY <1>1, CodeAt DEF Do
<1>3. Code[j].op = "store" => Code[j].what \in Slots BY <1>1, CodeAt DEF Do, Slots
<1>4. Code[j].what = "i" <=> j = 16 BY <1>1, CodeAt DEF Do
<1>5. Code[j].what = "own" => j = 11 BY <1>1, CodeAt DEF Do
<1>6. Code[j].op = "print" => j < 15 BY <1>1, CodeAt DEF Do
<1>7. Code[j].op = "print" => AfterLine(j) \in {5, 8, 15} BY <1>1, Jumps
<1>8. Following(p) = CASE Code[j].op = "print" /\ ~Worked(Code[j].what)          -> AfterLine(j)
                       [] Code[j].what = "own" /\ memory[p].res = 0          -> j + 2
                       [] Code[j].what = "i" /\ memory[p].i + 1 < Turns      -> LoopStart
                       [] OTHER                                         -> j + 1
  BY DEF Following, j
<1>9. \/ Code[j].op = "print" /\ Following(p) \in {5, 8, 15}
      \/ Code[j].what = "own" /\ Following(p) = j + 2
      \/ Code[j].what = "i" /\ memory[p].i + 1 < Turns /\ Following(p) = 13
      \/ ~(Code[j].what = "i" /\ memory[p].i + 1 < Turns) /\ Following(p) = j + 1
  <2>1. CASE Code[j].op = "print"
    <3>1. Code[j].what # "own" /\ Code[j].what # "i" BY <1>1, <2>1, CodeAt DEF Do
    <3> QED BY <1>7, <1>8, <2>1, <3>1
  <2>2. CASE Code[j].what = "own"
    <3>1. Code[j].op # "print" /\ Code[j].what # "i" BY <1>1, <2>2, CodeAt DEF Do
    <3> QED BY <1>8, <2>2, <3>1
  <2>3. CASE Code[j].op # "print" /\ Code[j].what # "own" BY <1>8, <2>3, Jumps
  <2> QED BY <2>1, <2>2, <2>3
<1>10. Following(p) \in 1 .. 18 /\ (Following(p) = 18 => j = 17) /\ (j = 17 => Following(p) = 18)
  BY <1>1, <1>4, <1>5, <1>6, <1>9
<1>11. j = 16 => (Following(p) <= 16 => memory[p].i + 1 < Turns)
  BY <1>4, <1>5, <1>6, <1>9
<1> QED BY <1>2, <1>3, <1>4, <1>10, <1>11 DEF j

LEMMA ExecuteSafe ==
  ASSUME ProgramInv, Execute
  PROVE  /\ ProgramInv' /\ phase = "on" /\ running \in live /\ UNCHANGED <<ringVars, result>>
         /\ \E v \in 1 .. 18 : pc' = [pc EXCEPT ![running] = v]
         /\ \/ UNCHANGED memory
            \/ \E s \in Slots, v \in 0 .. MaxPid + Turns : memory' = [memory EXCEPT ![running][s] = v]
<1> DEFINE at == Code[pc[running]]
           next == Following(running)
<1>1. /\ phase = "on" /\ running \in live /\ call = NoCall
      /\ UNCHANGED <<live, running, nextPid, phase, result>>
      /\ pc' = [pc EXCEPT ![running] = next]
  BY DEF Execute, Advance, ProgramInv, RingTypeOK, ringVars
<1>2. pc \in [live -> 1 .. 18] /\ result \in [live -> 0 .. MaxPid]
      /\ memory \in [live -> [Slots -> 0 .. MaxPid + Turns]]
  BY DEF ProgramInv, ProgramTypeOK
<1>3. \A p \in live : pc[p] # 18
  <2>1. call.op # "exit" BY <1>1 DEF NoCall, Do
  <2> QED BY <1>1, <2>1 DEF ProgramInv, InCode
<1>4. pc[running] \in 1 .. 17 BY <1>1, <1>2, <1>3
<1>5. /\ next \in 1 .. 18 /\ (next = 18 => pc[running] = 17)
      /\ at.op = "exit" <=> pc[running] = 17
      /\ at.op = "store" => at.what \in Slots
      /\ at.what = "i" <=> pc[running] = 16
      /\ pc[running] = 16 => (next <= 16 => memory[running].i + 1 < Turns)
      /\ pc[running] = 17 => next = 18
  BY <1>1, <1>4, Followed
<1>6. \/ at.op = "store" /\ UNCHANGED call
         /\ memory' = [memory EXCEPT ![running][at.what] = Stored(running, at.what)]
      \/ at.op # "store" /\ call' = at /\ UNCHANGED memory
  BY DEF Execute
<1> HIDE DEF at, next
<1>7. pc' \in [live -> 1 .. 18] BY <1>1, <1>2, <1>5
<1>8. \A p \in live : memory[p].i \in 0 .. Turns /\ (pc[p] <= 16 => memory[p].i < Turns)
  BY DEF ProgramInv, InCode
<1>9. CASE at.op = "store"
  <2>1. at.what \in Slots /\ UNCHANGED call
        /\ memory' = [memory EXCEPT ![running][at.what] = Stored(running, at.what)]
    BY <1>5, <1>6, <1>9
  <2>2. pc[running] # 17 /\ next # 18 BY <1>5, <1>9
  <2>3. "i" \in Slots /\ "res" \in Slots BY DEF Slots
  <2>4. pc[running] <= 16 BY <1>4, <2>2
  <2>5. memory[running].i \in 0 .. Turns /\ memory[running].i < Turns BY <1>1, <1>8, <2>4
  <2>6. Stored(running, at.what) \in 0 .. MaxPid + Turns
    <3>1. memory[running].res \in 0 .. MaxPid + Turns BY <1>1, <1>2, <2>3
    <3>2. result[running] \in 0 .. MaxPid BY <1>1, <1>2
    <3>3. memory[running].i + 1 \in 0 .. MaxPid + Turns BY <2>5, Limits
    <3>4. 0 .. MaxPid \subseteq 0 .. MaxPid + Turns BY Limits
    <3> QED BY <3>1, <3>2, <3>3, <3>4 DEF Stored
  <2>7. memory' \in [live -> [Slots -> 0 .. MaxPid + Turns]] BY <1>1, <1>2, <2>1, <2>6
  <2>8. memory'[running].i = IF at.what = "i" THEN memory[running].i + 1 ELSE memory[running].i
    <3>1. CASE at.what = "i"
      <4>1. Stored(running, "i") = memory[running].i + 1 BY DEF Stored
      <4> QED BY <1>1, <1>2, <2>1, <2>3, <3>1, <4>1
    <3>2. CASE at.what # "i" BY <1>1, <1>2, <2>1, <2>3, <3>2
    <3> QED BY <3>1, <3>2
  <2>9. \A p \in live \ {running} : memory'[p] = memory[p] /\ pc'[p] = pc[p] BY <1>1, <1>2, <2>1
  <2>10. pc'[running] = next BY <1>1, <1>2
  <2>11. memory'[running].i \in 0 .. Turns /\ (pc'[running] <= 16 => memory'[running].i < Turns)
    BY <1>5, <2>5, <2>8, <2>10, Limits
  <2>12. \A p \in live : memory'[p].i \in 0 .. Turns /\ (pc'[p] <= 16 => memory'[p].i < Turns)
    BY <1>8, <2>9, <2>11
  <2>13. \A p \in live : pc'[p] # 18 BY <1>3, <2>2, <2>9, <2>10
  <2>14. ProgramTypeOK' BY <1>1, <1>2, <1>7, <2>7 DEF ProgramTypeOK
  <2>15. InCode' BY <1>1, <2>12, <2>13 DEF InCode
  <2>16. RingTypeOK' BY <1>1 DEF RingTypeOK, ProgramInv
  <2> QED BY <1>1, <1>5, <2>1, <2>6, <2>14, <2>15, <2>16 DEF ProgramInv, ringVars
<1>10. CASE at.op # "store"
  <2>1. call' = at /\ UNCHANGED memory BY <1>6, <1>10
  <2>2. pc[running] # 16
    <3>1. at.op = "store" \/ pc[running] # 16
      BY <1>4, CodeAt DEF Do, at
    <3> QED BY <1>10, <3>1
  <2>3. pc'[running] = next /\ \A p \in live \ {running} : pc'[p] = pc[p] BY <1>1, <1>2
  <2>4. pc[running] <= 16 \/ next = 18 BY <1>4, <1>5
  <2>5. \A p \in live : memory'[p].i \in 0 .. Turns /\ (pc'[p] <= 16 => memory'[p].i < Turns)
    BY <1>1, <1>5, <1>8, <2>1, <2>3, <2>4
  <2>6. \A p \in live : pc'[p] = 18 => p = running /\ call'.op = "exit"
    BY <1>3, <1>5, <2>1, <2>3
  <2>7. ProgramTypeOK' BY <1>1, <1>2, <1>7, <2>1 DEF ProgramTypeOK
  <2>8. InCode' BY <1>1, <2>5, <2>6 DEF InCode
  <2>9. RingTypeOK' BY <1>1 DEF RingTypeOK, ProgramInv
  <2> QED BY <1>1, <1>5, <2>1, <2>7, <2>8, <2>9 DEF ProgramInv, ringVars
<1> QED BY <1>9, <1>10

LEMMA RunFirstSafe ==
  ASSUME ProgramInv, RunFirst
  PROVE  ProgramInv' /\ Machine!MStart
<1>1. /\ phase = "off" /\ nextPid = 1 /\ live' = {1} /\ running' = 1 /\ nextPid' = 2 /\ phase' = "on"
      /\ pc' = [p \in {1} |-> 1] /\ result' = [p \in {1} |-> 1]
      /\ memory' = [p \in {1} |-> [s \in Slots |-> 0]]
      /\ Start
  <2>1. Start BY DEF RunFirst
  <2>2. phase = "off" /\ nextPid = 1 BY <2>1 DEF Start, ProgramInv, RingTypeOK
  <2>3. live' = {1} BY <2>1, <2>2 DEF Start
  <2> QED BY <2>1, <2>2, <2>3 DEF Start, RunFirst
<1>2. RingTypeOK' BY <1>1, Limits DEF RingTypeOK
<1>3. ProgramTypeOK' BY <1>1, Limits DEF ProgramTypeOK
<1>4. InCode'
  <2>1. \A p \in {1} : memory'[p].i = 0 /\ pc'[p] = 1 BY <1>1 DEF Slots
  <2> QED BY <1>1, <2>1, Limits DEF InCode
<1> DEFINE r == [eax |-> 1, other |-> 1]
           m == [s \in Slots |-> 0]
<1>5. r \in Machine!Regs BY Limits DEF Machine!Regs, Values
<1>6. m \in Machine!Contents BY Limits DEF Machine!Contents, Values
<1>7. [p \in live' |-> [eax |-> result'[p], other |-> pc'[p]]] = [p \in {nextPid} |-> r] BY <1>1
<1>8. memory' = [p \in {nextPid} |-> m] BY <1>1
<1>9. Machine!Start BY <1>1 DEF Start, Machine!Start
<1> HIDE DEF r, m
<1> QED BY <1>2, <1>3, <1>4, <1>5, <1>6, <1>7, <1>8, <1>9 DEF ProgramInv, Machine!MStart

LEMMA NotExiting ==
  ASSUME ProgramInv, phase = "on", call.op # "exit"
  PROVE  \A p \in live : pc[p] # 18
BY DEF ProgramInv, InCode

LEMMA GetPidSafe ==
  ASSUME ProgramInv, SysGetPid
  PROVE  ProgramInv' /\ Machine!GetPid
<1>1. /\ phase = "on" /\ call.op # "exit" /\ running \in live
      /\ UNCHANGED <<live, running, nextPid, phase, pc, memory>>
      /\ result' = [result EXCEPT ![running] = running]
  BY DEF SysGetPid, Called, PidOf, ProgramInv, RingTypeOK, ringVars
<1>2. result \in [live -> 0 .. MaxPid] /\ running \in 0 .. MaxPid
  BY <1>1, Limits DEF ProgramInv, ProgramTypeOK, RingTypeOK
<1>3. \A p \in live : pc[p] # 18 BY <1>1, NotExiting
<1>4. result' \in [live -> 0 .. MaxPid] BY <1>1, <1>2
<1>5. ProgramInv' BY <1>1, <1>3, <1>4 DEF ProgramInv, ProgramTypeOK, InCode, RingTypeOK
<1>6. [p \in live' |-> [eax |-> result'[p], other |-> pc'[p]]]
      = [[p \in live |-> [eax |-> result[p], other |-> pc[p]]] EXCEPT ![running].eax = running]
  BY <1>1, <1>2
<1> QED BY <1>1, <1>5, <1>6 DEF Machine!GetPid, Machine!ringVars

LEMMA YieldSafe ==
  ASSUME ProgramInv, SysYield
  PROVE  ProgramInv' /\ Machine!MYield
<1>1. /\ phase = "on" /\ call.op # "exit" /\ running' \in live
      /\ UNCHANGED <<live, nextPid, phase, pc, memory, result>> /\ Yield
  BY DEF SysYield, Called, Yield, TurnAfter
<1>2. \A p \in live : pc[p] # 18 BY <1>1, NotExiting
<1>3. ProgramInv' BY <1>1, <1>2 DEF ProgramInv, ProgramTypeOK, InCode, RingTypeOK
<1>4. Machine!Yield BY <1>1 DEF Yield, Machine!Yield, TurnAfter, Machine!TurnAfter
<1> QED BY <1>1, <1>3, <1>4 DEF Machine!MYield

LEMMA ForkSafe ==
  ASSUME ProgramInv, SysFork
  PROVE  ProgramInv' /\ Machine!MFork
<1> DEFINE child == nextPid
<1>1. /\ phase = "on" /\ call.op # "exit" /\ running \in live /\ child \in 1 .. MaxPid
      /\ live' = live \cup {child} /\ nextPid' = child + 1 /\ UNCHANGED <<running, phase>> /\ Fork
  BY DEF SysFork, Called, Fork, Pids, ProgramInv, RingTypeOK
<1>2. child \notin live /\ live \subseteq 1 .. child - 1 BY <1>1 DEF ProgramInv, RingTypeOK
<1>3. pc \in [live -> 1 .. 18] /\ result \in [live -> 0 .. MaxPid]
      /\ memory \in [live -> [Slots -> 0 .. MaxPid + Turns]]
  BY DEF ProgramInv, ProgramTypeOK
<1>4. /\ pc' = [p \in live' |-> IF p = child THEN pc[running] ELSE pc[p]]
      /\ memory' = [p \in live' |-> IF p = child THEN memory[running] ELSE memory[p]]
      /\ result' = [p \in live' |-> IF p = child THEN 0 ELSE IF p = running THEN child ELSE result[p]]
  BY DEF SysFork, ChildPc, WithChild, Returned
<1> HIDE DEF child
<1>5. pc' \in [live' -> 1 .. 18] /\ memory' \in [live' -> [Slots -> 0 .. MaxPid + Turns]]
      /\ result' \in [live' -> 0 .. MaxPid]
  BY <1>1, <1>3, <1>4, Limits
<1>6. \A p \in live : pc[p] # 18 BY <1>1, NotExiting
<1>7. \A p \in live : memory[p].i \in 0 .. Turns /\ (pc[p] <= 16 => memory[p].i < Turns)
  BY DEF ProgramInv, InCode
<1>8. \A p \in live' : \E q \in live : pc'[p] = pc[q] /\ memory'[p] = memory[q] BY <1>1, <1>4
<1>9. InCode' BY <1>6, <1>7, <1>8 DEF InCode
<1>10. RingTypeOK'
  <2>1. child + 1 \in 1 .. MaxPid + 1 /\ child + 1 - 1 = child /\ child \in 1 .. child BY <1>1, Limits
  <2>2. \A p \in live : p \in 1 .. child BY <1>1, <1>2, Limits
  <2>3. live' \subseteq 1 .. child BY <1>1, <2>1, <2>2
  <2> QED BY <1>1, <2>1, <2>3 DEF RingTypeOK, ProgramInv
<1>11. ProgramInv' BY <1>5, <1>9, <1>10 DEF ProgramInv, ProgramTypeOK
<1> DEFINE regs == [p \in live |-> [eax |-> result[p], other |-> pc[p]]]
<1>12. [p \in live' |-> [eax |-> result'[p], other |-> pc'[p]]]
       = [p \in live' |-> IF p = child THEN [regs[running] EXCEPT !.eax = 0]
                          ELSE IF p = running THEN [regs[running] EXCEPT !.eax = child]
                          ELSE regs[p]]
  <2> SUFFICES ASSUME NEW p \in live'
               PROVE  [eax |-> result'[p], other |-> pc'[p]]
                      = IF p = child THEN [regs[running] EXCEPT !.eax = 0]
                        ELSE IF p = running THEN [regs[running] EXCEPT !.eax = child]
                        ELSE regs[p]
    OBVIOUS
  <2>1. regs[running] = [eax |-> result[running], other |-> pc[running]] BY <1>1
  <2>2. CASE p = child
    <3>1. result'[p] = 0 /\ pc'[p] = pc[running] BY <1>4, <2>2
    <3> QED BY <2>1, <2>2, <3>1
  <2>3. CASE p # child /\ p = running
    <3>1. result'[p] = child /\ pc'[p] = pc[running] BY <1>4, <2>3
    <3> QED BY <2>1, <2>3, <3>1
  <2>4. CASE p # child /\ p # running
    <3>1. p \in live /\ result'[p] = result[p] /\ pc'[p] = pc[p] BY <1>1, <1>4, <2>4
    <3> QED BY <2>4, <3>1
  <2> QED BY <2>2, <2>3, <2>4
<1>13. Machine!Fork BY <1>1 DEF Fork, Machine!Fork, Pids, Machine!Pids
<1> QED BY <1>4, <1>11, <1>12, <1>13 DEF Machine!MFork, child

LEMMA ExitSafe ==
  ASSUME ProgramInv, SysExit
  PROVE  ProgramInv' /\ (Machine!MExit \/ Machine!MStop)
<1>1. /\ phase = "on" /\ running \in live /\ call.op = "exit" /\ nextPid' = nextPid /\ live' \subseteq live
      /\ running' \in live' /\ phase' \in {"on", "stopped"}
      /\ \/ Exit
         \/ Stop /\ UNCHANGED <<live, running, nextPid>>
  <2>1. phase = "on" /\ running \in live /\ call.op = "exit" /\ (Exit \/ Stop)
    BY DEF SysExit, Called, ProgramInv, RingTypeOK
  <2>2. CASE Exit
    <3>1. running' # running
      <4>1. live # {running} /\ TurnAfter(running, running') BY <2>2 DEF Exit
      <4>2. PICK r \in live : r # running BY <2>1, <4>1
      <4>3. running \in Int /\ r \in Int BY <2>1, <4>2 DEF ProgramInv, RingTypeOK
      <4>4. CASE running < running' BY <4>3, <4>4
      <4>5. CASE \A q \in live : q <= running /\ running' <= q
        <5>1. r <= running /\ running' <= r BY <4>2, <4>5
        <5> QED BY <4>2, <4>3, <5>1
      <4> QED BY <4>1, <4>4, <4>5 DEF TurnAfter
    <3> QED BY <2>1, <2>2, <3>1 DEF Exit, TurnAfter
  <2>3. CASE Stop BY <2>1, <2>3 DEF Stop
  <2> QED BY <2>1, <2>2, <2>3
<1>2. /\ pc' = [p \in live' |-> pc[p]] /\ memory' = [p \in live' |-> memory[p]]
      /\ result' = [p \in live' |-> result[p]]
  BY DEF SysExit, Kept
<1>3. pc \in [live -> 1 .. 18] /\ result \in [live -> 0 .. MaxPid]
      /\ memory \in [live -> [Slots -> 0 .. MaxPid + Turns]]
  BY DEF ProgramInv, ProgramTypeOK
<1>4. ProgramTypeOK' BY <1>1, <1>2, <1>3 DEF ProgramTypeOK
<1>5. RingTypeOK' BY <1>1 DEF RingTypeOK, ProgramInv
<1>6. InCode'
  <2>1. \A p \in live' : memory'[p].i \in 0 .. Turns /\ (pc'[p] <= 16 => memory'[p].i < Turns)
    BY <1>1, <1>2 DEF ProgramInv, InCode
  <2>2. ASSUME phase' = "on", NEW p \in live', pc'[p] = 18 PROVE FALSE
    <3>1. Exit BY <1>1, <2>2 DEF Stop
    <3>2. p \in live /\ p # running BY <1>1, <2>2, <3>1 DEF Exit
    <3>3. pc[p] = 18 BY <1>2, <2>2
    <3> QED BY <1>1, <3>2, <3>3 DEF ProgramInv, InCode
  <2> QED BY <2>1, <2>2 DEF InCode
<1> DEFINE regs == [p \in live |-> [eax |-> result[p], other |-> pc[p]]]
<1>7. [p \in live' |-> [eax |-> result'[p], other |-> pc'[p]]] = [p \in live' |-> regs[p]]
  BY <1>1, <1>2
<1>8. CASE Exit
  <2>1. Machine!Exit BY <1>8 DEF Exit, Machine!Exit, TurnAfter, Machine!TurnAfter
  <2>2. Machine!MExit BY <1>2, <1>7, <2>1 DEF Machine!MExit
  <2> QED BY <1>4, <1>5, <1>6, <2>2 DEF ProgramInv
<1>9. CASE Stop /\ UNCHANGED <<live, running, nextPid>>
  <2>1. Machine!Stop BY <1>9 DEF Stop, Machine!Stop
  <2>2. memory' = memory BY <1>2, <1>3, <1>9
  <2>3. [p \in live' |-> regs[p]] = regs BY <1>9
  <2>4. Machine!MStop BY <1>7, <2>1, <2>2, <2>3 DEF Machine!MStop
  <2> QED BY <1>4, <1>5, <1>6, <2>4 DEF ProgramInv
<1> QED BY <1>1, <1>8, <1>9

\* Printing and keys: neither the ring nor what programs have changes.
LEMMA PrintSafe ==
  ASSUME ProgramInv, UNCHANGED <<ringVars, pc, result, memory>>,
         call' = call \/ (call.op # "exit" /\ phase = "on")
  PROVE  ProgramInv' /\ UNCHANGED Machine!vars
<1>1. UNCHANGED <<live, running, nextPid, phase, pc, result, memory>> BY DEF ringVars
<1>2. RingTypeOK' /\ ProgramTypeOK' BY <1>1 DEF ProgramInv, RingTypeOK, ProgramTypeOK
<1>3. InCode'
  <2>1. CASE call' = call BY <1>1, <2>1 DEF ProgramInv, InCode
  <2>2. CASE call.op # "exit" /\ phase = "on"
    <3>1. \A p \in live : pc[p] # 18 BY <2>2, NotExiting
    <3> QED BY <1>1, <3>1 DEF ProgramInv, InCode
  <2> QED BY <2>1, <2>2
<1> QED BY <1>1, <1>2, <1>3 DEF ProgramInv, Machine!vars, Machine!ringVars

LEMMA ProgramStep ==
  ASSUME ProgramInv, [PNext]_programVars
  PROVE  ProgramInv' /\ [Machine!MNext]_(Machine!vars)
<1>1. CASE RunFirst BY <1>1, RunFirstSafe DEF Machine!MNext
<1>2. CASE Execute
  <2> DEFINE regs == [p \in live |-> [eax |-> result[p], other |-> pc[p]]]
  <2>1. phase = "on" /\ running \in live /\ UNCHANGED <<live, running, nextPid, phase, result>>
    BY <1>2, ExecuteSafe DEF ringVars
  <2>2. PICK v \in 1 .. 18 : pc' = [pc EXCEPT ![running] = v] BY <1>2, ExecuteSafe
  <2>3. pc \in [live -> 1 .. 18] BY DEF ProgramInv, ProgramTypeOK
  <2>4. [p \in live' |-> [eax |-> result'[p], other |-> pc'[p]]] = [regs EXCEPT ![running].other = v]
    BY <2>1, <2>2, <2>3
  <2>5. v \in Values /\ 0 .. MaxPid + Turns \subseteq Values BY Limits
  <2>6. \/ UNCHANGED memory
        \/ \E s \in Slots, w \in Values : memory' = [memory EXCEPT ![running][s] = w]
    BY <1>2, <2>5, ExecuteSafe
  <2>7. Machine!Compute
    BY <2>1, <2>4, <2>5, <2>6 DEF Machine!Compute, Machine!ringVars, Values
  <2> QED BY <1>2, <2>7, ExecuteSafe DEF Machine!MNext
<1>3. CASE SysPrintChar BY <1>3, PrintSafe DEF SysPrintChar
<1>4. CASE SysPrint
  <2>1. call.op # "exit" /\ phase = "on" BY <1>4 DEF SysPrint, Called
  <2> QED BY <1>4, <2>1, PrintSafe DEF SysPrint
<1>5. CASE SysGetPid BY <1>5, GetPidSafe DEF Machine!MNext
<1>6. CASE SysYield BY <1>6, YieldSafe DEF Machine!MNext
<1>7. CASE SysFork BY <1>7, ForkSafe DEF Machine!MNext
<1>8. CASE SysExit BY <1>8, ExitSafe DEF Machine!MNext
<1>9. CASE Key BY <1>9, PrintSafe DEF Key
<1>10. CASE UNCHANGED programVars BY <1>10, PrintSafe DEF programVars
<1> QED BY <1>1, <1>2, <1>3, <1>4, <1>5, <1>6, <1>7, <1>8, <1>9, <1>10 DEF PNext, Proceed

\* program1.c, its loop run any number of times, and the kernel's answers to it, whatever
\* is echoed in between: every step is one of the machine a program has to itself.
THEOREM RunsOnUserMachine == PSpec => OnUserMachine
<1>1. PInit => ProgramInv /\ Machine!MInit
  <2> SUFFICES ASSUME PInit PROVE Machine!MInit BY InitProgram
  <2>1. [p \in live |-> [eax |-> result[p], other |-> pc[p]]] = <<>> BY DEF PInit, Init
  <2> QED BY <2>1 DEF PInit, Init, Machine!MInit, Machine!Init
<1>2. ProgramInv /\ [PNext]_programVars => ProgramInv' /\ [Machine!MNext]_(Machine!vars)
  BY ProgramStep
<1> QED BY <1>1, <1>2, PTL DEF PSpec, OnUserMachine, Machine!MSpec
-------------------------------------------------------------------------------
(* Parent and child take turns *)

IsSeq(s) == \E S : s \in Seq(S)

LEMMA AppendAny ==
  ASSUME NEW s, IsSeq(s), NEW e
  PROVE  /\ IsSeq(Append(s, e)) /\ Len(s) \in Nat /\ Len(Append(s, e)) = Len(s) + 1
         /\ \A k \in 1 .. Len(s) : Append(s, e)[k] = s[k]
         /\ Append(s, e)[Len(s) + 1] = e
<1>1. PICK S : s \in Seq(S) BY DEF IsSeq
<1> DEFINE T == S \cup {e}
<1>2. s \in Seq(T) BY <1>1
<1>3. Append(s, e) \in Seq(T) BY <1>2
<1>4. IsSeq(Append(s, e)) BY <1>3 DEF IsSeq
<1> QED BY <1>2, <1>4

\* The line of the loop that is on the screen, if the last piece printed is one, is
\* one whose newline comes next.
LineOpen ==
    phase = "on" /\ \/ pc[running] = 14 /\ call = NoCall
                    \/ pc[running] = 15 /\ call = Do("print", "newline")

PrintedInv ==
    /\ IsSeq(printed)
    /\ \A k \in 1 .. Len(printed) :
        printed[k][1] \in {"parent", "child"} =>
            IF k = Len(printed) THEN LineOpen ELSE printed[k + 1] = <<"newline">>

LinesInv == \E n \in 0 .. 2 * Turns : lines = LinesUpTo(n)

\* The call that is to be answered is the instruction before the place.
CallInv ==
    \/ call = NoCall
    \/ phase = "on" /\ \E j \in {8, 10, 13, 14, 15, 17} : call = Code[j] /\ pc[running] = j + 1
    \/ phase = "on" /\ \E j \in 2 .. 7 : call = Code[j] /\ pc[running] \in 3 .. 8

\* The process that runs has printed the line of this turn.
HasPrinted ==
    \/ pc[running] = 14 /\ call = NoCall
    \/ pc[running] = 15
    \/ pc[running] = 16 /\ call # NoCall

\* How many lines a process has printed.
LinesOf(p) ==
    memory[p].i + IF pc[p] \in 15 .. 16 \/ (pc[p] = 14 /\ call = NoCall) THEN 1 ELSE 0

\* Before fork.
Alone ==
    /\ live = {1} /\ running = 1 /\ nextPid = 2
    /\ pc[1] <= 9 /\ (pc[1] = 9 => call # NoCall)
    /\ memory[1].i = 0 /\ lines = <<>>

\* Parent and child, in lockstep: they have printed as many lines, but that the parent
\* is one ahead from its line to the child's.
Lockstep ==
    /\ live = {1, 2} /\ nextPid = 3 /\ pc[1] >= 9 /\ pc[2] \in 9 .. 16
    /\ running = 1 => pc[2] \in {9, 16}
    /\ running = 2 => pc[1] = 16
    /\ pc[running] = 9 => call = NoCall
    /\ Len(lines) = LinesOf(1) + LinesOf(2)
    /\ LinesOf(1) = LinesOf(2) + IF (running = 1) <=> HasPrinted THEN 1 ELSE 0

\* The child, after the parent's exit.
ChildLeft ==
    /\ live = {2} /\ running = 2 /\ nextPid = 3
    /\ pc[2] \in 16 .. 18 /\ (pc[2] = 16 => call = NoCall /\ memory[2].i + 1 = Turns)

ForkReturned(p) == IF p = 1 THEN 2 ELSE 0

\* What a process knows of itself and of the other, from fork on.
PidsKnown ==
    \A p \in live :
        /\ nextPid = 3 /\ pc[p] = 9 => result[p] = ForkReturned(p)
        /\ pc[p] >= 10 => memory[p].res = ForkReturned(p)
        /\ pc[p] = 11 /\ call = NoCall => result[p] = p
        /\ pc[p] >= 12 => memory[p].own = p
        /\ p = 1 /\ pc[p] >= 13 => memory[p].other = 2
        /\ pc[p] >= 17 => memory[p].i = Turns

TurnsInv ==
    /\ PrintedInv /\ LinesInv /\ CallInv
    /\ phase = "off" => lines = <<>> /\ printed = <<>>
    /\ phase = "on" => (Alone \/ Lockstep \/ ChildLeft) /\ PidsKnown

\* Where a line is printed in full, one place is behind the other; only the argument
\* can fail to print, and the place is behind its newline then.
LEMMA Places ==
  ASSUME NEW p, pc[p] \in 1 .. 17
  PROVE  /\ pc[p] \in 2 .. 7 => Following(p) \in 3 .. 8
         /\ pc[p] \in {1, 8, 9, 10, 12, 13, 14, 15, 17} => Following(p) = pc[p] + 1
         /\ pc[p] = 11 => Following(p) = IF memory[p].res = 0 THEN 13 ELSE 12
         /\ pc[p] = 16 => Following(p) = IF memory[p].i + 1 < Turns THEN 13 ELSE 17
<1> DEFINE j == pc[p]
           at == Code[j]
<1>1. j \in 1 .. 17 OBVIOUS
<1> HIDE DEF j
<1>2. /\ at.op = "print" <=> j \in {2, 3, 4, 5, 6, 7, 13, 14}
      /\ at.what = "own" <=> j = 11
      /\ at.what = "i" <=> j = 16
      /\ at.what = "argv[0]" <=> j = 6
  BY <1>1, CodeAt DEF Do
<1>3. Following(p) = CASE at.op = "print" /\ ~Worked(at.what) -> AfterLine(j)
                       [] at.what = "own" /\ memory[p].res = 0 -> j + 2
                       [] at.what = "i" /\ memory[p].i + 1 < Turns -> LoopStart
                       [] OTHER -> j + 1
  BY DEF Following, j
<1>4. j # 6 => Worked(at.what) BY <1>2 DEF Worked
<1>5. LoopStart = 13 /\ (j = 6 => AfterLine(j) = 8)
  <2> DEFINE Ends(k) == Code[k].what = "newline" /\ \A l \in 6 .. k - 1 : Code[l].what # "newline"
             end == CHOOSE k \in 6 .. 17 : Ends(k)
  <2>1. Len(Code) = 17 BY CodeAt
  <2>2. AfterLine(6) = 1 + end BY <2>1 DEF AfterLine
  <2>3. \A k \in 6 .. 17 : Ends(k) <=> k = 7
    <3>1. Code[6].what # "newline" /\ Code[7].what = "newline" BY CodeAt DEF Do
    <3>2. \A k \in 8 .. 17 : 7 \in 6 .. k - 1 OBVIOUS
    <3>3. \A l \in 6 .. 7 - 1 : l = 6 OBVIOUS
    <3>4. \A k \in 6 .. 17 : k = 6 \/ k = 7 \/ k \in 8 .. 17 OBVIOUS
    <3> QED BY <3>1, <3>2, <3>3, <3>4
  <2> HIDE DEF Ends
  <2>4. end = 7 BY <2>3
  <2> HIDE DEF end
  <2> QED BY <2>2, <2>4, Jumps
<1>6. j # 6 /\ j # 11 /\ j # 16 => Following(p) = j + 1 BY <1>2, <1>3, <1>4
<1>7. j = 6 => Following(p) \in {7, 8} BY <1>2, <1>3, <1>5
<1>8. j = 11 => Following(p) = IF memory[p].res = 0 THEN 13 ELSE 12 BY <1>2, <1>3, <1>4
<1>9. j = 16 => Following(p) = IF memory[p].i + 1 < Turns THEN 13 ELSE 17 BY <1>2, <1>3, <1>4, <1>5
<1> QED BY <1>1, <1>6, <1>7, <1>8, <1>9 DEF j

\* What executing an instruction changes, place by place.
LEMMA Executed ==
  ASSUME ProgramInv, TurnsInv, Execute
  PROVE  /\ phase = "on" /\ running \in live /\ call = NoCall /\ pc[running] \in 1 .. 17
         /\ UNCHANGED <<live, running, nextPid, phase, result, printed, lines>>
         /\ pc'[running] = Following(running) /\ \A p \in live \ {running} : pc'[p] = pc[p]
         /\ \A p \in live \ {running} : memory'[p] = memory[p]
         /\ pc[running] \in {1, 9, 11, 12, 16} => call' = NoCall
         /\ pc[running] \notin {1, 9, 11, 12, 16} => call' = Code[pc[running]] /\ UNCHANGED memory
         /\ memory'[running].i = memory[running].i + IF pc[running] = 16 THEN 1 ELSE 0
         /\ memory'[running].res = IF pc[running] = 9 THEN result[running] ELSE memory[running].res
         /\ memory'[running].own = IF pc[running] = 11 THEN result[running] ELSE memory[running].own
         /\ memory'[running].other = IF pc[running] = 12 THEN memory[running].res ELSE memory[running].other
<1> DEFINE j == pc[running]
<1>1. /\ phase = "on" /\ running \in live /\ call = NoCall
      /\ UNCHANGED <<live, running, nextPid, phase, result, printed, lines>>
      /\ pc' = [pc EXCEPT ![running] = Following(running)]
  BY DEF Execute, Advance, ProgramInv, RingTypeOK, ringVars, printVars
<1>2. pc \in [live -> 1 .. 18] /\ memory \in [live -> [Slots -> 0 .. MaxPid + Turns]]
  BY DEF ProgramInv, ProgramTypeOK
<1>3. j \in 1 .. 17
  <2>1. call.op # "exit" BY <1>1 DEF NoCall, Do
  <2> QED BY <1>1, <1>2, <2>1, NotExiting
<1>4. IF Code[j].op = "store"
      THEN /\ memory' = [memory EXCEPT ![running][Code[j].what] = Stored(running, Code[j].what)]
           /\ UNCHANGED call
      ELSE call' = Code[j] /\ UNCHANGED memory
  BY DEF Execute
<1>5. pc'[running] = Following(running) /\ \A p \in live \ {running} : pc'[p] = pc[p] BY <1>1, <1>2
<1>6. Slots = {"argc", "res", "own", "other", "i"} BY DEF Slots
<1>7. memory[running] \in [Slots -> 0 .. MaxPid + Turns] /\ memory[running].i + 0 = memory[running].i
  <2>1. memory[running].i \in 0 .. MaxPid + Turns BY <1>1, <1>2, <1>6
  <2> QED BY <1>1, <1>2, <2>1, Limits
<1> HIDE DEF j
<1>8. CASE j \notin {1, 9, 11, 12, 16}
  <2>1. Code[j].op # "store" BY <1>3, <1>8, CodeAt DEF Do
  <2>2. call' = Code[j] /\ UNCHANGED memory BY <1>4, <2>1
  <2> QED BY <1>1, <1>3, <1>5, <1>7, <1>8, <2>2 DEF j
<1>9. ASSUME NEW k \in {1, 9, 11, 12, 16}, j = k PROVE
      /\ call' = NoCall /\ Code[k].what \in Slots
      /\ \A p \in live \ {running} : memory'[p] = memory[p]
      /\ \A s \in Slots : memory'[running][s]
                          = IF s = Code[k].what THEN Stored(running, s) ELSE memory[running][s]
  <2>1. Code[k].op = "store" /\ Code[k].what \in Slots BY <1>6, CodeAt DEF Do
  <2>2. memory' = [memory EXCEPT ![running][Code[k].what] = Stored(running, Code[k].what)] /\ call' = NoCall
    BY <1>1, <1>4, <1>9, <2>1
  <2> QED BY <1>1, <1>2, <1>7, <2>1, <2>2
<1>10. CASE j = 1
  <2>1. Code[1].what = "argc" BY CodeAt DEF Do
  <2> QED BY <1>1, <1>3, <1>5, <1>6, <1>7, <1>9, <1>10, <2>1 DEF j
<1>11. CASE j = 9
  <2>1. Code[9].what = "res" /\ Stored(running, "res") = result[running] BY CodeAt DEF Do, Stored
  <2> QED BY <1>1, <1>3, <1>5, <1>6, <1>7, <1>9, <1>11, <2>1 DEF j
<1>12. CASE j = 11
  <2>1. Code[11].what = "own" /\ Stored(running, "own") = result[running] BY CodeAt DEF Do, Stored
  <2> QED BY <1>1, <1>3, <1>5, <1>6, <1>7, <1>9, <1>12, <2>1 DEF j
<1>13. CASE j = 12
  <2>1. Code[12].what = "other" /\ Stored(running, "other") = memory[running].res BY CodeAt DEF Do, Stored
  <2> QED BY <1>1, <1>3, <1>5, <1>6, <1>7, <1>9, <1>13, <2>1 DEF j
<1>14. CASE j = 16
  <2>1. Code[16].what = "i" /\ Stored(running, "i") = memory[running].i + 1 BY CodeAt DEF Do, Stored
  <2> QED BY <1>1, <1>3, <1>5, <1>6, <1>7, <1>9, <1>14, <2>1 DEF j
<1> QED BY <1>8, <1>10, <1>11, <1>12, <1>13, <1>14

LEMMA CodeCalls == \A j \in 1 .. 17 : Code[j] # NoCall
BY CodeAt DEF Do, NoCall

LEMMA TurnsExecute ==
  ASSUME ProgramInv, TurnsInv, Execute
  PROVE  TurnsInv'
<1> DEFINE j == pc[running]
           next == Following(running)
<1>1. /\ phase = "on" /\ running \in live /\ call = NoCall /\ j \in 1 .. 17
      /\ UNCHANGED <<live, running, nextPid, phase, result, printed, lines>>
      /\ pc'[running] = next /\ \A p \in live \ {running} : pc'[p] = pc[p]
      /\ \A p \in live \ {running} : memory'[p] = memory[p]
      /\ j \in {1, 9, 11, 12, 16} => call' = NoCall
      /\ j \notin {1, 9, 11, 12, 16} => call' = Code[j] /\ UNCHANGED memory
      /\ memory'[running].i = memory[running].i + IF j = 16 THEN 1 ELSE 0
      /\ memory'[running].res = IF j = 9 THEN result[running] ELSE memory[running].res
      /\ memory'[running].own = IF j = 11 THEN result[running] ELSE memory[running].own
      /\ memory'[running].other = IF j = 12 THEN memory[running].res ELSE memory[running].other
  BY Executed
<1>2. /\ j \in 2 .. 7 => next \in 3 .. 8
      /\ j \in {1, 8, 9, 10, 12, 13, 14, 15, 17} => next = j + 1
      /\ j = 11 => next = IF memory[running].res = 0 THEN 13 ELSE 12
      /\ j = 16 => next = IF memory[running].i + 1 < Turns THEN 13 ELSE 17
  BY <1>1, Places
<1>3. \A p \in live : memory[p].i \in 0 .. Turns /\ (pc[p] <= 16 => memory[p].i < Turns)
  BY DEF ProgramInv, InCode
<1>4. (Alone \/ Lockstep \/ ChildLeft) /\ PidsKnown BY <1>1 DEF TurnsInv
<1>5. j \notin {1, 9, 11, 12, 16} => call' # NoCall BY <1>1, CodeCalls
<1>6. Alone => j \in 1 .. 8 /\ live = {1} /\ running = 1 /\ nextPid = 2 BY <1>1 DEF Alone
<1>7. Lockstep \/ ChildLeft => j \in 9 .. 17 /\ nextPid = 3
  <2>1. CASE Lockstep
    <3>1. pc[1] >= 9 /\ pc[2] >= 9 /\ running \in {1, 2} /\ nextPid = 3 BY <1>1, <2>1 DEF Lockstep
    <3> QED BY <1>1, <3>1
  <2>2. CASE ChildLeft BY <1>1, <2>2 DEF ChildLeft
  <2> QED BY <2>1, <2>2
<1> HIDE DEF next, j
<1>8. CallInv'
  <2>1. CASE j \in {1, 9, 11, 12, 16} BY <1>1, <2>1 DEF CallInv
  <2>2. CASE j \in 2 .. 7 BY <1>1, <1>2, <2>2 DEF CallInv
  <2>3. CASE j \in {8, 10, 13, 14, 15, 17} BY <1>1, <1>2, <2>3 DEF CallInv
  <2> QED BY <1>1, <2>1, <2>2, <2>3
<1>9. LineOpen => LineOpen'
  <2>1. NoCall # Do("print", "newline") BY DEF NoCall, Do
  <2>2. LineOpen => j = 14 BY <1>1, <2>1 DEF LineOpen, j
  <2>3. Code[14] = Do("print", "newline") BY CodeAt
  <2> QED BY <1>1, <1>2, <2>2, <2>3 DEF LineOpen
<1>10. PrintedInv'
  <2>1. PrintedInv /\ printed' = printed BY <1>1 DEF TurnsInv
  <2> QED BY <1>9, <2>1 DEF PrintedInv
<1>11. LinesInv' BY <1>1 DEF TurnsInv, LinesInv
<1>12. PidsKnown'
  <2> SUFFICES ASSUME NEW p \in live
               PROVE  /\ nextPid = 3 /\ pc'[p] = 9 => result[p] = ForkReturned(p)
                      /\ pc'[p] >= 10 => memory'[p].res = ForkReturned(p)
                      /\ pc'[p] = 11 /\ call' = NoCall => result[p] = p
                      /\ pc'[p] >= 12 => memory'[p].own = p
                      /\ p = 1 /\ pc'[p] >= 13 => memory'[p].other = 2
                      /\ pc'[p] >= 17 => memory'[p].i = Turns
    BY <1>1 DEF PidsKnown, ForkReturned
  <2>1. /\ nextPid = 3 /\ pc[p] = 9 => result[p] = ForkReturned(p)
        /\ pc[p] >= 10 => memory[p].res = ForkReturned(p)
        /\ pc[p] = 11 => result[p] = p
        /\ pc[p] >= 12 => memory[p].own = p
        /\ p = 1 /\ pc[p] >= 13 => memory[p].other = 2
        /\ pc[p] >= 17 => memory[p].i = Turns
    BY <1>1, <1>4 DEF PidsKnown
  <2>2. CASE p # running BY <1>1, <2>1, <2>2
  <2>3. CASE p = running /\ j \in 1 .. 8 BY <1>1, <1>2, <1>4, <1>5, <1>6, <1>7, <2>3
  <2>4. CASE p = running /\ j \in 9 .. 17
    <3>1. next \in 10 .. 18 /\ (next = 11 => j = 10) /\ (next >= 12 => j >= 11)
      BY <1>2, <2>4, Limits
    <3>2. memory'[p].res = ForkReturned(p) BY <1>1, <1>4, <1>6, <1>7, <2>1, <2>4 DEF j
    <3>3. next = 11 => call' # NoCall BY <1>5, <3>1
    <3>4. next >= 12 => memory'[p].own = p BY <1>1, <2>1, <2>4, <3>1 DEF j
    <3>5. p = 1 /\ next >= 13 => memory'[p].other = 2
      <4>1. p = 1 /\ j >= 10 => memory[p].res = 2 BY <2>1, <2>4 DEF j, ForkReturned
      <4>2. p = 1 /\ next >= 13 => j >= 12 BY <1>2, <2>4, <4>1
      <4> QED BY <1>1, <2>1, <2>4, <4>1, <4>2 DEF j
    <3>6. next >= 17 => memory'[p].i = Turns
      <4>1. CASE j = 16 BY <1>1, <1>2, <1>3, <2>4, <4>1, Limits DEF j
      <4>2. CASE j = 17 BY <1>1, <1>2, <1>3, <2>1, <2>4, <4>2, Limits DEF j
      <4>3. CASE j \in 9 .. 15 BY <1>2, <2>4, <4>3
      <4> QED BY <2>4, <4>1, <4>2, <4>3
    <3> QED BY <1>1, <2>4, <3>1, <3>2, <3>3, <3>4, <3>5, <3>6
  <2> QED BY <1>1, <2>2, <2>3, <2>4
<1>13. CASE Alone
  <2>1. j \in 1 .. 8 /\ memory[1].i = 0 BY <1>6, <1>13 DEF Alone
  <2>2. next <= 9 /\ (next = 9 => j = 8) BY <1>2, <2>1
  <2>3. memory'[1].i = 0 BY <1>1, <1>6, <1>13, <2>1
  <2>4. Alone' BY <1>1, <1>5, <1>6, <1>13, <2>2, <2>3 DEF Alone
  <2> QED BY <1>1, <1>8, <1>10, <1>11, <1>12, <2>4 DEF TurnsInv
<1>14. CASE Lockstep
  <2>1. live = {1, 2} /\ j \in 9 .. 17 BY <1>7, <1>14 DEF Lockstep
  <2>2. HasPrinted <=> j \in {14, 15} BY <1>1 DEF HasPrinted, j
  <2>3. HasPrinted' <=> j \in {14, 15}
    <3>1. (next = 14 <=> j = 13) /\ (next = 15 <=> j = 14) /\ (next = 16 <=> j = 15)
      BY <1>2, <2>1
    <3> QED BY <1>1, <1>5, <3>1 DEF HasPrinted
  <2>4. LinesOf(running)' = LinesOf(running)
    <3>1. memory[running].i \in Int BY <1>1, <1>3
    <3>2. LinesOf(running) = memory[running].i + IF j \in 14 .. 16 THEN 1 ELSE 0
      BY <1>1, <2>1 DEF LinesOf, j
    <3>3. pc'[running] \in 15 .. 16 \/ (pc'[running] = 14 /\ call' = NoCall) <=> j \in {14, 15}
      <4>1. (next = 14 <=> j = 13) /\ (next = 15 <=> j = 14) /\ (next = 16 <=> j = 15)
        BY <1>2, <2>1
      <4>2. next \in Int BY <1>2, <2>1
      <4> QED BY <1>1, <1>5, <4>1, <4>2
    <3>4. LinesOf(running)' = memory'[running].i + IF j \in {14, 15} THEN 1 ELSE 0
      BY <1>1, <3>3 DEF LinesOf
    <3> QED BY <1>1, <2>1, <3>1, <3>2, <3>4
  <2>5. \A p \in live \ {running} : LinesOf(p)' = LinesOf(p)
    <3>1. \A p \in live \ {running} : pc[p] \in {9, 16} BY <1>1, <1>14, <2>1 DEF Lockstep
    <3> QED BY <1>1, <3>1 DEF LinesOf
  <2>6. LinesOf(1)' = LinesOf(1) /\ LinesOf(2)' = LinesOf(2) BY <1>1, <2>1, <2>4, <2>5
  <2>7. running = 2 => next \in 10 .. 16
    <3>1. CASE running = 2 /\ j = 16
      <4>1. pc[1] = 16 /\ memory[1].i < Turns /\ memory[1].i \in Int /\ memory[2].i \in Int
        BY <1>3, <1>14, <2>1, <3>1 DEF Lockstep
      <4>2. LinesOf(1) = memory[1].i + 1 /\ LinesOf(2) = memory[2].i + 1
        BY <3>1, <4>1 DEF LinesOf, j
      <4>3. LinesOf(1) = LinesOf(2) + 1 BY <1>14, <2>2, <3>1 DEF Lockstep
      <4>4. memory[2].i + 1 < Turns BY <4>1, <4>2, <4>3, Limits
      <4> QED BY <1>2, <3>1, <4>4
    <3>2. CASE running = 2 /\ j \in 9 .. 15 BY <1>2, <3>2
    <3> QED BY <1>14, <2>1, <3>1, <3>2 DEF Lockstep, j
  <2>8. next \in Int /\ next >= 10 BY <1>2, <2>1
  <2>9. /\ pc'[1] >= 9 /\ pc'[2] \in 9 .. 16 /\ pc'[running] # 9
        /\ running = 1 => pc'[2] \in {9, 16}
        /\ running = 2 => pc'[1] = 16
    <3>1. CASE running = 1 BY <1>1, <1>14, <2>1, <2>8, <3>1 DEF Lockstep
    <3>2. CASE running = 2 BY <1>1, <1>14, <2>1, <2>7, <3>2 DEF Lockstep
    <3> QED BY <1>1, <2>1, <3>1, <3>2
  <2>10. /\ Len(lines) = LinesOf(1) + LinesOf(2)
         /\ LinesOf(1) = LinesOf(2) + IF (running = 1) <=> HasPrinted THEN 1 ELSE 0
    BY <1>14 DEF Lockstep
  <2>11. /\ Len(lines') = LinesOf(1)' + LinesOf(2)'
         /\ LinesOf(1)' = LinesOf(2)' + IF (running' = 1) <=> HasPrinted' THEN 1 ELSE 0
    BY <1>1, <2>2, <2>3, <2>6, <2>10
  <2>12. Lockstep' BY <1>1, <1>14, <2>1, <2>9, <2>11 DEF Lockstep
  <2> QED BY <1>1, <1>8, <1>10, <1>11, <1>12, <2>12 DEF TurnsInv
<1>15. CASE ChildLeft
  <2>1. running = 2 /\ live = {2} /\ j \in 16 .. 17 BY <1>1, <1>15 DEF ChildLeft, j
  <2>2. next \in 17 .. 18 BY <1>2, <1>15, <2>1, Limits DEF ChildLeft, j
  <2>3. ChildLeft' BY <1>1, <1>15, <2>1, <2>2 DEF ChildLeft
  <2> QED BY <1>1, <1>8, <1>10, <1>11, <1>12, <2>3 DEF TurnsInv
<1> QED BY <1>4, <1>13, <1>14, <1>15


\* Where the process that made a call is.
LEMMA CallPlaces ==
  ASSUME CallInv, call.op # "none"
  PROVE  /\ phase = "on" /\ call # NoCall
         /\ call.op = "fork" => pc[running] = 9
         /\ call.op = "get_pid" => pc[running] = 11
         /\ call.op = "yield" => pc[running] = 16
         /\ call.op = "exit" => pc[running] = 18
         /\ call.op = "print" =>
              \/ call.what = "line" /\ pc[running] = 14
              \/ call = Do("print", "newline") /\ pc[running] = 15
              \/ call.what \in {"Argc", "argc", "Argv", "argv[0]", "newline"} /\ pc[running] \in 3 .. 8
<1>1. call # NoCall BY DEF NoCall, Do
<1>2. CASE phase = "on" /\ \E j \in {8, 10, 13, 14, 15, 17} : call = Code[j] /\ pc[running] = j + 1
  <2>1. PICK j \in {8, 10, 13, 14, 15, 17} : call = Code[j] /\ pc[running] = j + 1 BY <1>2
  <2>2. pc[running] \in Int BY <2>1
  <2>3. CASE j = 8 BY <1>1, <1>2, <2>1, <2>3, CodeAt DEF Do
  <2>4. CASE j = 10 BY <1>1, <1>2, <2>1, <2>4, CodeAt DEF Do
  <2>5. CASE j = 13 BY <1>1, <1>2, <2>1, <2>5, CodeAt DEF Do
  <2>6. CASE j = 14 BY <1>1, <1>2, <2>1, <2>6, CodeAt DEF Do
  <2>7. CASE j = 15 BY <1>1, <1>2, <2>1, <2>7, CodeAt DEF Do
  <2>8. CASE j = 17 BY <1>1, <1>2, <2>1, <2>8, CodeAt DEF Do
  <2> QED BY <2>1, <2>3, <2>4, <2>5, <2>6, <2>7, <2>8
<1>3. CASE phase = "on" /\ \E j \in 2 .. 7 : call = Code[j] /\ pc[running] \in 3 .. 8
  <2>1. PICK j \in 2 .. 7 : call = Code[j] /\ pc[running] \in 3 .. 8 BY <1>3
  <2>2. call.op = "print" /\ call.what \in {"Argc", "argc", "Argv", "argv[0]", "newline"}
    BY <2>1, CodeAt DEF Do
  <2> QED BY <1>1, <1>3, <2>1, <2>2
<1> QED BY <1>1, <1>2, <1>3 DEF CallInv

LEMMA NextLine ==
  ASSUME NEW n \in Nat
  PROVE  /\ IsSeq(LinesUpTo(n)) /\ Len(LinesUpTo(n)) = n
         /\ LinesUpTo(n + 1)
            = Append(LinesUpTo(n), IF (n + 1) % 2 = 1 THEN <<"parent", 1, 2>> ELSE <<"child", 2>>)
<1> DEFINE P == <<"parent", 1, 2>>
           C == <<"child", 2>>
           s == LinesUpTo(n)
           t == LinesUpTo(n + 1)
           e == IF (n + 1) % 2 = 1 THEN P ELSE C
<1>1. s = [k \in 1 .. n |-> IF k % 2 = 1 THEN P ELSE C] BY DEF LinesUpTo
<1>2. t = [k \in 1 .. n + 1 |-> IF k % 2 = 1 THEN P ELSE C] BY DEF LinesUpTo
<1> HIDE DEF P, C, s, t
<1>3. s \in Seq({P, C}) /\ Len(s) = n BY <1>1
<1>4. t \in Seq({P, C}) /\ Len(t) = n + 1 BY <1>2
<1>5. Append(s, e) \in Seq({P, C}) /\ Len(Append(s, e)) = n + 1 BY <1>3
<1>6. \A k \in 1 .. n + 1 : Append(s, e)[k] = t[k]
  <2>1. Append(s, e)[n + 1] = e BY <1>3
  <2>2. \A k \in 1 .. n : Append(s, e)[k] = s[k] BY <1>3
  <2> QED BY <1>1, <1>2, <2>1, <2>2
<1>7. t = Append(s, e) BY ONLY <1>4, <1>5, <1>6, SeqEqual
<1> QED BY <1>3, <1>7 DEF IsSeq, s, t, P, C

\* A step that answers a call, but for fork and exit.
LEMMA TurnsPrint ==
  ASSUME ProgramInv, TurnsInv, SysPrint
  PROVE  TurnsInv'
<1> DEFINE piece == Piece(running, call.what)
           j == pc[running]
<1>1. /\ phase = "on" /\ call.op = "print" /\ call' = NoCall /\ running \in live
      /\ UNCHANGED <<live, running, nextPid, phase, pc, result, memory>>
      /\ printed' = Append(printed, piece)
      /\ lines' = IF call.what = "line" THEN Append(lines, piece) ELSE lines
  BY DEF SysPrint, Called, ProgramInv, RingTypeOK, ringVars
<1>2. /\ call # NoCall
      /\ \/ call.what = "line" /\ j = 14
         \/ call = Do("print", "newline") /\ j = 15
         \/ call.what \in {"Argc", "argc", "Argv", "argv[0]", "newline"} /\ j \in 3 .. 8
  BY <1>1, CallPlaces DEF TurnsInv
<1>3. (Alone \/ Lockstep \/ ChildLeft) /\ PidsKnown BY <1>1 DEF TurnsInv
<1>4. \A p \in live : memory[p].i \in 0 .. Turns /\ (pc[p] <= 16 => memory[p].i < Turns)
  BY DEF ProgramInv, InCode
<1>5. /\ IsSeq(printed') /\ Len(printed) \in Nat /\ Len(printed') = Len(printed) + 1
      /\ \A k \in 1 .. Len(printed) : printed'[k] = printed[k]
      /\ printed'[Len(printed) + 1] = piece
  BY <1>1, AppendAny DEF TurnsInv, PrintedInv
<1> HIDE DEF j, piece
<1>6. CallInv' BY <1>1 DEF CallInv
<1>7. PidsKnown'
  <2>1. j # 11 BY <1>2
  <2>2. \A p \in live : pc[p] = 11 /\ call' = NoCall => p # running BY <2>1 DEF j
  <2>3. \A p \in live : pc[p] = 11 => p = running
    BY <1>1, <1>3 DEF Alone, Lockstep, ChildLeft
  <2>4. \A p \in live : pc[p] # 11 BY <1>1, <2>2, <2>3
  <2>5. \A p \in live : ForkReturned(p)' = ForkReturned(p) BY DEF ForkReturned
  <2> QED BY <1>1, <1>3, <2>4, <2>5 DEF PidsKnown
<1>8. ASSUME piece[1] \in {"parent", "child"} => LineOpen',
             LineOpen => piece = <<"newline">>
      PROVE  PrintedInv'
  <2> SUFFICES ASSUME NEW k \in 1 .. Len(printed'), printed'[k][1] \in {"parent", "child"}
               PROVE  IF k = Len(printed') THEN LineOpen' ELSE printed'[k + 1] = <<"newline">>
    BY <1>5 DEF PrintedInv
  <2>1. CASE k = Len(printed) + 1 BY <1>5, <1>8, <2>1
  <2>2. CASE k = Len(printed)
    <3>1. printed[k][1] \in {"parent", "child"} BY <1>5, <2>2
    <3>2. LineOpen BY <2>2, <3>1 DEF TurnsInv, PrintedInv
    <3> QED BY <1>5, <1>8, <2>2, <3>2
  <2>3. CASE k \in 1 .. Len(printed) - 1
    <3>1. printed[k][1] \in {"parent", "child"} BY <1>5, <2>3
    <3>2. printed[k + 1] = <<"newline">> BY <1>5, <2>3, <3>1 DEF TurnsInv, PrintedInv
    <3> QED BY <1>5, <2>3, <3>2
  <2> QED BY <1>5, <2>1, <2>2, <2>3
<1>9. CASE call.what = "line" /\ j = 14
  <2>1. LineOpen' BY <1>1, <1>9 DEF LineOpen, j
  <2>2. ~LineOpen BY <1>2, <1>9 DEF LineOpen, j
  <2>3. PrintedInv' BY <1>8, <2>1, <2>2
  <2>4. Lockstep BY <1>1, <1>3, <1>9 DEF Alone, ChildLeft, j
  <2>5. running \in {1, 2} BY <1>1, <2>4 DEF Lockstep
  <2>6. piece = IF running = 1 THEN <<"parent", 1, 2>> ELSE <<"child", 2>>
    <3>1. memory[running].res = ForkReturned(running) /\ memory[running].own = running
          /\ (running = 1 => memory[running].other = 2)
      BY <1>1, <1>3, <1>9 DEF PidsKnown, j
    <3> QED BY <1>9, <2>5, <3>1 DEF piece, Piece, ForkReturned
  <2>7. ~HasPrinted /\ HasPrinted' BY <1>1, <1>2, <1>9 DEF HasPrinted, j
  <2>8. /\ LinesOf(running) = memory[running].i /\ LinesOf(running)' = memory[running].i + 1
        /\ memory[running].i \in 0 .. Turns - 1
    <3>1. memory[running].i \in 0 .. Turns /\ memory[running].i < Turns BY <1>1, <1>4, <1>9 DEF j
    <3> QED BY <1>1, <1>2, <1>9, <3>1, Limits DEF LinesOf, j
  <2>9. \A p \in live \ {running} : LinesOf(p)' = LinesOf(p) /\ LinesOf(p) \in 0 .. Turns
    <3>1. \A p \in live \ {running} : pc[p] \in {9, 16} BY <1>1, <2>4 DEF Lockstep
    <3> QED BY <1>1, <1>4, <3>1, Limits DEF LinesOf
  <2>10. /\ LinesOf(1) = LinesOf(2) + IF running = 1 THEN 0 ELSE 1
         /\ Len(lines) = LinesOf(1) + LinesOf(2)
    BY <2>4, <2>5, <2>7 DEF Lockstep
  <2>11. live = {1, 2} BY <2>4 DEF Lockstep
  <2>12. PICK n \in 0 .. 2 * Turns : lines = LinesUpTo(n) BY DEF TurnsInv, LinesInv
  <2>13. Len(lines) = n BY <2>12, NextLine
  <2>14. n + 1 \in 0 .. 2 * Turns /\ ((n + 1) % 2 = 1 <=> running = 1)
    <3>1. CASE running = 1
      <4>1. n = 2 * memory[1].i BY <2>8, <2>9, <2>10, <2>11, <2>13, <3>1
      <4>2. PICK m \in 0 .. Turns - 1 : m = memory[1].i BY <2>8, <3>1
      <4>3. n = 2 * m BY <4>1, <4>2
      <4>4. n + 1 <= 2 * Turns /\ (n + 1) % 2 = 1 BY <4>2, <4>3, Limits
      <4> QED BY <3>1, <4>4, Limits
    <3>2. CASE running = 2
      <4>1. n = 2 * memory[2].i + 1 BY <2>8, <2>9, <2>10, <2>11, <2>13, <3>2
      <4>2. PICK m \in 0 .. Turns - 1 : m = memory[2].i BY <2>8, <3>2
      <4>3. n + 1 = 2 * (m + 1) BY <4>1, <4>2, Limits
      <4>4. n + 1 <= 2 * Turns /\ (n + 1) % 2 = 0 BY <4>2, <4>3, Limits
      <4> QED BY <3>2, <4>4, Limits
    <3> QED BY <2>5, <3>1, <3>2
  <2>15. lines' = LinesUpTo(n + 1) /\ Len(lines') = Len(lines) + 1
    <3>1. LinesUpTo(n + 1) = Append(LinesUpTo(n), piece)
      <4>1. n \in Nat BY <2>12, Limits
      <4>2. LinesUpTo(n + 1)
            = Append(LinesUpTo(n), IF (n + 1) % 2 = 1 THEN <<"parent", 1, 2>> ELSE <<"child", 2>>)
        BY <4>1, NextLine
      <4> QED BY <2>6, <2>14, <4>2
    <3>2. lines' = LinesUpTo(n + 1) BY <1>1, <1>9, <2>12, <3>1
    <3> QED BY <2>12, <2>13, <2>14, <3>2, NextLine
  <2>16. LinesInv' BY <2>14, <2>15 DEF LinesInv
  <2>17. /\ Len(lines') = LinesOf(1)' + LinesOf(2)'
         /\ LinesOf(1)' = LinesOf(2)' + IF (running' = 1) <=> HasPrinted' THEN 1 ELSE 0
    BY <1>1, <2>5, <2>7, <2>8, <2>9, <2>10, <2>11, <2>15
  <2>18. Lockstep' BY <1>1, <2>4, <2>17 DEF Lockstep
  <2> QED BY <1>1, <1>6, <1>7, <2>3, <2>16, <2>18 DEF TurnsInv
<1>10. CASE call.what # "line"
  <2>1. j \in 3 .. 8 \/ j = 15 BY <1>2, <1>10
  <2>2. piece[1] \notin {"parent", "child"}
    <3>1. call.what \in {"Argc", "argc", "Argv", "argv[0]", "newline"} BY <1>2, <1>10 DEF Do
    <3>2. CASE call.what = "argc" BY <3>2 DEF piece, Piece
    <3>3. CASE call.what = "argv[0]" BY <3>3 DEF piece, Piece, Argument
    <3>4. CASE call.what \in {"Argc", "Argv", "newline"} BY <3>4 DEF piece, Piece
    <3> QED BY <3>1, <3>2, <3>3, <3>4
  <2>3. LineOpen => piece = <<"newline">>
    <3>1. LineOpen => call = Do("print", "newline") BY <1>2 DEF LineOpen
    <3>2. call = Do("print", "newline") => piece = <<"newline">> BY DEF Do, piece, Piece
    <3> QED BY <3>1, <3>2
  <2>4. PrintedInv' BY <1>8, <2>2, <2>3
  <2>5. lines' = lines BY <1>1, <1>10
  <2>6. LinesInv' BY <2>5 DEF TurnsInv, LinesInv
  <2>7. CASE Alone
    <3>1. Alone' BY <1>1, <2>1, <2>5, <2>7 DEF Alone, j
    <3> QED BY <1>1, <1>6, <1>7, <2>4, <2>6, <3>1 DEF TurnsInv
  <2>8. CASE Lockstep
    <3>1. running \in {1, 2} /\ live = {1, 2} /\ pc[1] >= 9 /\ pc[2] >= 9 BY <1>1, <2>8 DEF Lockstep
    <3>2. j = 15 BY <2>1, <3>1 DEF j
    <3>3. HasPrinted /\ HasPrinted' BY <1>1, <3>2 DEF HasPrinted, j
    <3>4. \A p \in live : pc[p] # 14 BY <2>8, <3>1, <3>2 DEF Lockstep, j
    <3>5. LinesOf(1)' = LinesOf(1) /\ LinesOf(2)' = LinesOf(2) BY <1>1, <3>1, <3>4 DEF LinesOf
    <3>6. Lockstep' BY <1>1, <2>5, <2>8, <3>3, <3>5 DEF Lockstep
    <3> QED BY <1>1, <1>6, <1>7, <2>4, <2>6, <3>6 DEF TurnsInv
  <2>9. CASE ChildLeft BY <1>1, <2>1, <2>9 DEF ChildLeft, j
  <2> QED BY <1>3, <2>7, <2>8, <2>9
<1> QED BY <1>2, <1>9, <1>10 DEF Do

LEMMA PrintedKept ==
  ASSUME PrintedInv, UNCHANGED printed, LineOpen => LineOpen'
  PROVE  PrintedInv'
BY DEF PrintedInv

LEMMA TurnsGetPid ==
  ASSUME ProgramInv, TurnsInv, SysGetPid
  PROVE  TurnsInv'
<1>1. /\ phase = "on" /\ call.op = "get_pid" /\ call' = NoCall /\ running \in live
      /\ UNCHANGED <<live, running, nextPid, phase, pc, memory, printed, lines>>
      /\ result' = [result EXCEPT ![running] = running] /\ result \in [live -> 0 .. MaxPid]
  BY DEF SysGetPid, Called, PidOf, ProgramInv, RingTypeOK, ProgramTypeOK, ringVars, printVars
<1>2. call # NoCall /\ pc[running] = 11 BY <1>1, CallPlaces DEF TurnsInv
<1>3. Lockstep /\ PidsKnown BY <1>1, <1>2 DEF TurnsInv, Alone, ChildLeft
<1>4. PrintedInv' BY <1>1, <1>2, PrintedKept DEF TurnsInv, LineOpen
<1>5. LinesInv' /\ CallInv' BY <1>1 DEF TurnsInv, LinesInv, CallInv
<1>6. result'[running] = running /\ \A p \in live \ {running} : result'[p] = result[p] BY <1>1
<1>7. \A p \in live \ {running} : pc[p] \in {9, 16} BY <1>1, <1>3 DEF Lockstep
<1>8. PidsKnown' BY <1>1, <1>2, <1>3, <1>6, <1>7 DEF PidsKnown, ForkReturned
<1>9. ~HasPrinted /\ ~HasPrinted' BY <1>1, <1>2 DEF HasPrinted
<1>10. LinesOf(1)' = LinesOf(1) /\ LinesOf(2)' = LinesOf(2)
  <2>1. \A p \in live : pc[p] # 14 BY <1>2, <1>7
  <2>2. 1 \in live /\ 2 \in live BY <1>3 DEF Lockstep
  <2> QED BY <1>1, <2>1, <2>2 DEF LinesOf
<1>11. Lockstep' BY <1>1, <1>3, <1>9, <1>10 DEF Lockstep
<1> QED BY <1>1, <1>4, <1>5, <1>8, <1>11 DEF TurnsInv

LEMMA TurnsYield ==
  ASSUME ProgramInv, TurnsInv, SysYield
  PROVE  TurnsInv'
<1>1. /\ phase = "on" /\ call.op = "yield" /\ call' = NoCall /\ running \in live
      /\ UNCHANGED <<live, nextPid, phase, pc, memory, result, printed, lines>>
      /\ TurnAfter(running, running')
  BY DEF SysYield, Called, Yield, ProgramInv, RingTypeOK, printVars
<1>2. call # NoCall /\ pc[running] = 16 BY <1>1, CallPlaces DEF TurnsInv
<1>3. Lockstep /\ PidsKnown BY <1>1, <1>2 DEF TurnsInv, Alone, ChildLeft
<1>4. live = {1, 2} BY <1>3 DEF Lockstep
<1>5. running' = IF running = 1 THEN 2 ELSE 1 BY <1>1, <1>4 DEF TurnAfter
<1>6. pc[1] \in {9, 16} /\ pc[2] \in {9, 16} BY <1>1, <1>2, <1>3, <1>4 DEF Lockstep
<1>7. PrintedInv' BY <1>1, <1>2, PrintedKept DEF TurnsInv, LineOpen
<1>8. LinesInv' /\ CallInv' BY <1>1 DEF TurnsInv, LinesInv, CallInv
<1>9. PidsKnown' BY <1>1, <1>3, <1>4, <1>6 DEF PidsKnown, ForkReturned
<1>10. HasPrinted /\ ~HasPrinted'
  <2>1. HasPrinted BY <1>2 DEF HasPrinted
  <2>2. pc'[running'] \in {9, 16} BY <1>1, <1>5, <1>6
  <2> QED BY <1>1, <2>1, <2>2 DEF HasPrinted
<1>11. LinesOf(1)' = LinesOf(1) /\ LinesOf(2)' = LinesOf(2) BY <1>1, <1>6 DEF LinesOf
<1>12. Lockstep'
  <2>1. running \in {1, 2} BY <1>1, <1>4
  <2>2. /\ Len(lines') = LinesOf(1)' + LinesOf(2)'
        /\ LinesOf(1)' = LinesOf(2)' + IF (running' = 1) <=> HasPrinted' THEN 1 ELSE 0
    BY <1>1, <1>3, <1>5, <1>10, <1>11, <2>1 DEF Lockstep
  <2> QED BY <1>1, <1>2, <1>3, <1>5, <1>6, <2>1, <2>2 DEF Lockstep
<1> QED BY <1>1, <1>7, <1>8, <1>9, <1>12 DEF TurnsInv

LEMMA TurnsFork ==
  ASSUME ProgramInv, TurnsInv, SysFork
  PROVE  TurnsInv'
<1>1. /\ phase = "on" /\ call.op = "fork" /\ call' = NoCall
      /\ live' = live \cup {nextPid} /\ nextPid' = nextPid + 1
      /\ UNCHANGED <<running, phase, printed, lines>>
      /\ pc' = ChildPc /\ memory' = WithChild(memory) /\ result' = [p \in live' |-> Returned(p)]
  BY DEF SysFork, Called, Fork, printVars
<1>2. call # NoCall /\ pc[running] = 9 BY <1>1, CallPlaces DEF TurnsInv
<1>3. Alone BY <1>1, <1>2 DEF TurnsInv, Lockstep, ChildLeft
<1>4. live = {1} /\ running = 1 /\ nextPid = 2 /\ pc[1] = 9 /\ memory[1].i = 0 /\ lines = <<>>
  BY <1>2, <1>3 DEF Alone
<1>5. live' = {1, 2} /\ nextPid' = 3 /\ running' = 1 BY <1>1, <1>4
<1>6. /\ pc'[1] = 9 /\ pc'[2] = 9 /\ memory'[1].i = 0 /\ memory'[2].i = 0
      /\ result'[1] = 2 /\ result'[2] = 0
  BY <1>1, <1>4, <1>5 DEF ChildPc, WithChild, Returned
<1>7. PrintedInv' BY <1>1, <1>2, PrintedKept DEF TurnsInv, LineOpen
<1>8. LinesInv' /\ CallInv' BY <1>1 DEF TurnsInv, LinesInv, CallInv
<1>9. PidsKnown' BY <1>5, <1>6 DEF PidsKnown, ForkReturned
<1>10. LinesOf(1)' = 0 /\ LinesOf(2)' = 0 BY <1>6 DEF LinesOf
<1>11. ~HasPrinted' BY <1>5, <1>6 DEF HasPrinted
<1>12. Len(lines') = 0 BY <1>1, <1>4
<1>13. Lockstep' BY <1>1, <1>5, <1>6, <1>10, <1>11, <1>12 DEF Lockstep
<1> QED BY <1>1, <1>7, <1>8, <1>9, <1>13 DEF TurnsInv

LEMMA TurnsExit ==
  ASSUME ProgramInv, TurnsInv, SysExit
  PROVE  TurnsInv'
<1>1. /\ phase = "on" /\ call.op = "exit" /\ call' = NoCall /\ running \in live
      /\ UNCHANGED <<nextPid, printed, lines>>
      /\ Exit \/ Stop
      /\ pc' = [p \in live' |-> pc[p]] /\ memory' = [p \in live' |-> memory[p]]
      /\ result' = [p \in live' |-> result[p]]
  BY DEF SysExit, Called, Kept, Exit, Stop, ProgramInv, RingTypeOK, printVars
<1>2. call # NoCall /\ pc[running] = 18 BY <1>1, CallPlaces DEF TurnsInv
<1>3. (Lockstep \/ ChildLeft) /\ PidsKnown BY <1>1, <1>2 DEF TurnsInv, Alone
<1>4. PrintedInv' BY <1>1, <1>2, PrintedKept DEF TurnsInv, LineOpen
<1>5. LinesInv' /\ CallInv' BY <1>1 DEF TurnsInv, LinesInv, CallInv
<1>6. CASE Lockstep
  <2>1. live = {1, 2} /\ running = 1 /\ nextPid = 3 /\ pc[1] = 18 /\ pc[2] \in {9, 16}
    BY <1>1, <1>2, <1>6 DEF Lockstep
  <2>2. phase' = "on" /\ TurnAfter(running, running') /\ live' = live \ {running}
    BY <1>1, <2>1 DEF Exit, Stop
  <2>3. running' = 2 /\ live' = {2} BY <2>1, <2>2 DEF TurnAfter
  <2>4. pc[2] = 16 /\ memory[2].i + 1 = Turns
    <3>1. memory[1].i = Turns BY <1>3, <2>1 DEF PidsKnown
    <3>2. memory[2].i \in 0 .. Turns /\ memory[2].i < Turns BY <2>1 DEF ProgramInv, InCode
    <3>3. LinesOf(1) = Turns BY <2>1, <3>1, Limits DEF LinesOf
    <3>4. ~HasPrinted BY <2>1 DEF HasPrinted
    <3>5. LinesOf(1) = LinesOf(2) + 0 BY <1>6, <2>1, <3>4 DEF Lockstep
    <3>6. LinesOf(2) = memory[2].i + IF pc[2] = 16 THEN 1 ELSE 0 BY <2>1 DEF LinesOf
    <3> QED BY <2>1, <3>2, <3>3, <3>5, <3>6, Limits
  <2>5. pc'[2] = pc[2] /\ memory'[2] = memory[2] /\ result'[2] = result[2] BY <1>1, <2>3
  <2>6. ChildLeft' BY <1>1, <2>1, <2>3, <2>4, <2>5 DEF ChildLeft
  <2>7. PidsKnown' BY <1>1, <1>3, <2>1, <2>3, <2>4, <2>5 DEF PidsKnown, ForkReturned
  <2> QED BY <1>4, <1>5, <2>2, <2>6, <2>7 DEF TurnsInv
<1>7. CASE ChildLeft
  <2>1. phase' = "stopped" BY <1>1, <1>7 DEF ChildLeft, Exit, Stop
  <2> QED BY <1>4, <1>5, <2>1 DEF TurnsInv
<1> QED BY <1>3, <1>6, <1>7

LEMMA TurnsRunFirst ==
  ASSUME ProgramInv, TurnsInv, RunFirst
  PROVE  TurnsInv'
<1>1. /\ phase = "off" /\ nextPid = 1 /\ live' = {nextPid} /\ running' = nextPid /\ nextPid' = nextPid + 1
      /\ phase' = "on" /\ UNCHANGED <<call, printed, lines>>
      /\ pc' = [p \in live' |-> 1] /\ memory' = [p \in live' |-> [s \in Slots |-> 0]]
  BY DEF RunFirst, Start, ProgramInv, RingTypeOK, printVars
<1>2. call = NoCall /\ lines = <<>> /\ printed = <<>> BY <1>1 DEF TurnsInv, CallInv
<1>3. live' = {1} /\ running' = 1 /\ nextPid' = 2 BY <1>1
<1>4. pc'[1] = 1 /\ memory'[1].i = 0 BY <1>1, <1>3 DEF Slots
<1>5. PrintedInv' BY <1>1, <1>2, PrintedKept DEF TurnsInv, LineOpen
<1>6. LinesInv' /\ CallInv' BY <1>1, <1>2 DEF TurnsInv, LinesInv, CallInv
<1>7. Alone' BY <1>1, <1>2, <1>3, <1>4 DEF Alone
<1>8. PidsKnown' BY <1>3, <1>4 DEF PidsKnown
<1> QED BY <1>1, <1>5, <1>6, <1>7, <1>8 DEF TurnsInv

\* Printing a character and echoing a key.
LEMMA TurnsKept ==
  ASSUME TurnsInv, UNCHANGED <<ringVars, pc, result, memory, call, printed, lines>>
  PROVE  TurnsInv'
<1>1. UNCHANGED <<live, running, nextPid, phase, pc, result, memory, call, printed, lines>>
  BY DEF ringVars
<1>2. LineOpen' = LineOpen BY <1>1 DEF LineOpen
<1>3. PrintedInv' BY <1>1, <1>2, PrintedKept DEF TurnsInv
<1>4. LinesInv' /\ CallInv' BY <1>1 DEF TurnsInv, LinesInv, CallInv
<1>5. HasPrinted' = HasPrinted /\ LinesOf(1)' = LinesOf(1) /\ LinesOf(2)' = LinesOf(2)
  BY <1>1 DEF HasPrinted, LinesOf
<1>6. Alone' = Alone /\ Lockstep' = Lockstep /\ ChildLeft' = ChildLeft
  BY <1>1, <1>5 DEF Alone, Lockstep, ChildLeft
<1>7. PidsKnown' = PidsKnown BY <1>1 DEF PidsKnown, ForkReturned
<1> QED BY <1>1, <1>3, <1>4, <1>6, <1>7 DEF TurnsInv

LEMMA TurnsStep ==
  ASSUME ProgramInv, TurnsInv, [PNext]_programVars
  PROVE  TurnsInv'
<1>1. CASE RunFirst BY <1>1, TurnsRunFirst
<1>2. CASE Execute BY <1>2, TurnsExecute
<1>3. CASE SysPrintChar BY <1>3, TurnsKept DEF SysPrintChar
<1>4. CASE SysPrint BY <1>4, TurnsPrint
<1>5. CASE SysGetPid BY <1>5, TurnsGetPid
<1>6. CASE SysYield BY <1>6, TurnsYield
<1>7. CASE SysFork BY <1>7, TurnsFork
<1>8. CASE SysExit BY <1>8, TurnsExit
<1>9. CASE Key BY <1>9, TurnsKept DEF Key
<1>10. CASE UNCHANGED programVars BY <1>10, TurnsKept DEF programVars
<1> QED BY <1>1, <1>2, <1>3, <1>4, <1>5, <1>6, <1>7, <1>8, <1>9, <1>10 DEF PNext, Proceed

LEMMA InitTurns == PInit => TurnsInv
<1> SUFFICES ASSUME PInit PROVE TurnsInv OBVIOUS
<1>1. phase = "off" /\ call = NoCall /\ printed = <<>> /\ lines = <<>> BY DEF PInit, Init
<1>2. IsSeq(printed) /\ Len(printed) = 0
  <2>1. <<>> \in Seq({0}) /\ Len(<<>>) = 0 OBVIOUS
  <2> QED BY <1>1, <2>1 DEF IsSeq
<1>3. PrintedInv BY <1>2 DEF PrintedInv
<1>4. LinesInv
  <2>1. LinesUpTo(0) = <<>>
    <3>1. IsSeq(LinesUpTo(0)) /\ Len(LinesUpTo(0)) = 0 BY NextLine
    <3> QED BY <3>1 DEF IsSeq
  <2> QED BY <1>1, <2>1, Limits DEF LinesInv
<1> QED BY <1>1, <1>3, <1>4 DEF TurnsInv, CallInv

LEMMA TurnsInvTaken == TurnsInv => TurnsTaken
<1> SUFFICES ASSUME TurnsInv PROVE TurnsTaken OBVIOUS
<1> DEFINE all == 2 * Turns
<1>1. PICK n \in 0 .. all : lines = LinesUpTo(n) BY DEF TurnsInv, LinesInv
<1>2. n \in Nat /\ all \in Nat /\ n <= all BY <1>1, Limits
<1> HIDE DEF all
<1>3. Len(LinesUpTo(n)) = n /\ Len(LinesUpTo(all)) = all BY <1>2, NextLine
<1>4. \A k \in 1 .. n : LinesUpTo(n)[k] = LinesUpTo(all)[k] BY <1>2 DEF LinesUpTo
<1>5. SubSeq(LinesUpTo(n), 1, n) = SubSeq(LinesUpTo(all), 1, n)
  <2>1. PICK S : LinesUpTo(n) \in Seq(S) BY <1>2, NextLine DEF IsSeq
  <2>2. PICK T : LinesUpTo(all) \in Seq(T) BY <1>2, NextLine DEF IsSeq
  <2> QED BY <1>2, <1>3, <1>4, <2>1, <2>2
<1>6. IsPrefix(lines, LinesUpTo(all)) BY <1>1, <1>2, <1>3, <1>5 DEF IsPrefix
<1>7. ASSUME NEW k \in 1 .. Len(printed) - 1, printed[k][1] \in {"parent", "child"}
      PROVE  printed[k + 1] = <<"newline">>
  <2>1. IsSeq(printed) BY DEF TurnsInv, PrintedInv
  <2>2. Len(printed) \in Nat BY <2>1, AppendAny
  <2>3. k \in 1 .. Len(printed) /\ k # Len(printed) BY <1>7, <2>2
  <2> QED BY <1>7, <2>3 DEF TurnsInv, PrintedInv
<1> QED BY <1>6, <1>7 DEF TurnsTaken, all

\* However often main's loop runs, whatever the argument's page holds and whenever keys
\* are echoed: parent and child print their lines in turn, with the right pids, each
\* line whole before the other process prints.
THEOREM TakeTurns == PSpec => []TurnsTaken
<1>1. PInit => ProgramInv /\ TurnsInv BY InitProgram, InitTurns
<1>2. ProgramInv /\ TurnsInv /\ [PNext]_programVars => ProgramInv' /\ TurnsInv'
  BY ProgramStep, TurnsStep
<1> QED BY <1>1, <1>2, TurnsInvTaken, PTL DEF PSpec
===============================================================================
