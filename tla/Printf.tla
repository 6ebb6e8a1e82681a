--------------------------------- MODULE Printf -------------------------------
(***************************************************************************)
(* printf of libc/stdio/printf.c, in the kernel and in user programs: what *)
(* it prints for each of the pieces that it reads as Directives says, runs *)
(* of ordinary characters, and directives with their flags, field width,   *)
(* precision and argument.                                                 *)
(*                                                                         *)
(* A character of the output is what it is there for: a digit with its     *)
(* value, padding, a sign, a prefix, text.                                 *)
(***************************************************************************)
EXTENDS Directives

CONSTANT
    BoolValues      \* the values of the byte that print's result is in (256)

ASSUME BoolAssumption == BoolValues \in Nat /\ BoolValues > 1

VARIABLES
    library,        \* "libk", or "libc" for a user program
    written,        \* the variable written
    ret,            \* what printf returned, Running before
    out,            \* what has been printed
    piece, text     \* history: the latest piece, and what it printed

printfVars == <<readVars, library, written, ret, out, piece, text>>

UMod == 2 * (IntMax + 1)
Running == -2
Unsigned(i) == i % UMod

Char(kind, value) == [kind |-> kind, value |-> value]
Times(n, c) == [i \in 1 .. n |-> c]
Larger(i, j) == IF i > j THEN i ELSE j

\* print says whether it worked: in the kernel always, in a user program the
\* low byte of the register that held the length, read as a bool.
PrintWorks(chars) == library = "libk" \/ Len(chars) % BoolValues # 0

-------------------------------------------------------------------------------
(* The directives: the value the code gives width, and the print calls *)

\* An ordinary run, "%%" included.
Ordinary(p) == [width |-> Len(p.chars), prints |-> <<Times(Len(p.chars), Char("text", 0))>>]

\* Padding before or after, one character at a time.
Padded(p, n, chars) ==
    LET pad == Times(n, <<Char("pad", 0)>>)
    IN  IF "-" \in p.flags THEN chars \o pad ELSE pad \o chars

Character(p) ==
    LET width == Larger(p.width, 1)
    IN  [width |-> width, prints |-> Padded(p, width - 1, <<<<Char("text", 0)>>>>)]

\* The precision cuts the string, and also a larger field width.
String(p) ==
    LET wide == IF p.arg > Unsigned(p.width) THEN p.arg ELSE p.width
        cut  == IF p.precision >= 0 /\ p.precision < wide THEN p.precision ELSE wide
        short == p.precision >= 0 /\ p.precision < p.arg
        len  == IF short THEN p.precision ELSE p.arg
        width == Unsigned(IF short THEN p.precision ELSE cut)
    IN  [width |-> width,
         prints |-> Padded(p, IF width > IntMax THEN 0 ELSE width - len,
                           <<Times(len, Char("text", 0))>>)]

Base(p) == CASE p.conv = "o" -> 8 [] p.conv \in {"x", "X"} -> 16 [] OTHER -> 10

\* The loop that finds the divisor of the first digit, and counts the digits.
DigitCount(n, b) == CHOOSE k \in 1 .. UMod : n < Powers(b)[k] /\ (k > 1 => n >= Powers(b)[k - 1])

DigitsFromLast(n, b) ==
    [i \in 1 .. DigitCount(n, b) |-> Char("digit", (n \div Powers(b)[i - 1]) % b)]
Digits(n, b) ==
    LET k == DigitCount(n, b) IN [i \in 1 .. k |-> Char("digit", (n \div Powers(b)[k - i]) % b)]

\* A field of the given width of which used characters are not fill: spaces
\* before the sign, zeros after the prefix, or spaces behind.
Field(p, width, used, sign, prefix, digits) ==
    LET n == IF width > IntMax THEN 0 ELSE width - used
        Fill(kind) == Times(n, Char(kind, 0))
    IN  (IF "-" \notin p.flags /\ "0" \notin p.flags THEN Fill("pad") ELSE <<>>)
        \o sign \o prefix
        \o (IF "-" \notin p.flags /\ "0" \in p.flags THEN Fill("zero") ELSE <<>>)
        \o digits
        \o (IF "-" \in p.flags THEN Fill("pad") ELSE <<>>)

Sign(p) ==
    IF "+" \in p.flags THEN <<Char("sign", 1)>>
    ELSE IF " " \in p.flags THEN <<Char("sign", 0)>> ELSE <<>>

\* What the code counts as the sign's and the prefix's width.
SignWidthOfEach(p) == (IF "+" \in p.flags THEN 1 ELSE 0) + (IF " " \in p.flags THEN 1 ELSE 0)
SignWidth(p) == IF "+" \in p.flags \/ " " \in p.flags THEN 1 ELSE 0
PrefixWidthOne(p) == IF "#" \in p.flags THEN 1 ELSE 0
PrefixWidth(p) == IF "#" \in p.flags THEN 2 ELSE 0

\* The second character of the prefix: the conversion's for %x, but for %o and %u
\* the one that follows it in the format, which may be a digit.
PrefixEnd(p) ==
    IF p.conv \in {"o", "u"} /\ CharAt(at) \in Digit THEN Char("digit", DigitValue(CharAt(at)))
    ELSE Char("prefix", 0)
Prefix(p) == IF "#" \in p.flags THEN <<Char("digit", 0), PrefixEnd(p)>> ELSE <<>>

\* %o, %x and %u.
UnsignedNumber(p) ==
    LET num     == Unsigned(p.arg)
        len     == IF p.precision = 0 /\ num = 0 THEN 0 ELSE DigitCount(num, Base(p))
        lenPrec == Larger(p.precision, len)
        used    == lenPrec + SignWidth(p) + PrefixWidth(p)
        width   == Larger(Unsigned(p.width), used)
        digits  == Times(lenPrec - len, Char("digit", 0))
                   \o (IF num = 0 /\ p.precision = 0 THEN <<>> ELSE Digits(num, Base(p)))
    IN  [width |-> width, text |-> Field(p, width, used, Sign(p), Prefix(p), digits)]

\* %d and %i.  Neither "#" nor the precision matters; a negative number prints
\* a minus and then the digits of the unsigned one.
SignedNumber(p) ==
    LET negative == p.arg < 0
        n     == Unsigned(p.arg)
        used  == DigitCount(n, 10) + IF negative THEN 1 ELSE SignWidth(p)
        width == Larger(Unsigned(p.width), used)
        sign  == IF negative THEN <<Char("sign", -1)>> ELSE Sign(p)
    IN  [width |-> width, text |-> Field(p, width, used, sign, <<>>, Digits(n, 10))]

Signed == {"d", "i"}
Numbers == {"o", "x", "X", "u"} \cup Signed

Printed(p) ==
    IF p.conv \in Numbers
    THEN LET f == IF p.conv \in Signed THEN SignedNumber(p) ELSE UnsignedNumber(p)
         IN  [width |-> f.width, prints |-> [i \in DOMAIN f.text |-> <<f.text[i]>>]]
    ELSE CASE p.conv = "text" -> Ordinary(p)
           [] p.conv = "c" -> Character(p)
           [] p.conv = "s" -> String(p)

-------------------------------------------------------------------------------

NoPiece == Text(<<>>)

PrintfInit ==
    /\ ReadInit
    /\ library \in {"libk", "libc"}
    /\ written = 0 /\ ret = Running
    /\ out = <<>> /\ piece = NoPiece /\ text = <<>>

ReadPiece == ret = Running /\ Read /\ UNCHANGED <<library, written, ret, out, piece, text>>

Fits(width) == width <= IntMax - written

\* The piece does not fit in an int any more: nothing of it is printed.
Overflow ==
    /\ ret = Running /\ stage = "print"
    /\ ~Fits(Printed(Last(pieces)).width)
    /\ ret' = -1
    /\ UNCHANGED <<readVars, library, written, out, piece, text>>

\* The first print that does not work is the last.
PrintPiece ==
    /\ ret = Running /\ stage = "print"
    /\ LET f == Printed(Last(pieces))
           failed == {i \in DOMAIN f.prints : ~PrintWorks(f.prints[i])}
           done == IF failed = {} THEN f.prints
                   ELSE SubSeq(f.prints, 1, CHOOSE i \in failed : \A j \in failed : i <= j)
       IN  /\ Fits(f.width)
           /\ text' = FlattenSeq(done)
           /\ out' = out \o FlattenSeq(done)
           /\ ret' = IF failed = {} THEN Running ELSE -1
           /\ written' = IF failed = {} THEN written + f.width ELSE written
    /\ piece' = Last(pieces)
    /\ stage' = "piece"
    /\ UNCHANGED <<meaning, format, args, at, now, pieces, library>>

Finish ==
    /\ ret = Running /\ stage = "piece" /\ CharAt(at) = End
    /\ ret' = written
    /\ UNCHANGED <<readVars, library, written, out, piece, text>>

PrintfNext == ReadPiece \/ Overflow \/ PrintPiece \/ Finish

PrintfSpec == PrintfInit /\ [][PrintfNext]_printfVars

-------------------------------------------------------------------------------
(* Properties *)

\* The result is the number of characters printed, and an int.  printf counts
\* widths, not characters: the count is right only if every combination of flags,
\* width and precision fills its field exactly.
ReturnsLength ==
    /\ ret >= 0 => ret = Len(out) /\ ret <= IntMax
    /\ ret = Running => written = Len(out)

IsDigit(c) == c.kind \in {"digit", "zero"}
ValueOf(chars, b) ==
    LET value[k \in 0 .. Len(chars)] ==
            IF k = 0 THEN 0
            ELSE IF IsDigit(chars[k]) THEN value[k - 1] * b + chars[k].value ELSE value[k - 1]
    IN  value[Len(chars)]

\* What the code does not print the value of: a negative number, whose minus goes
\* before the digits of the unsigned one, and what has a prefix with a character of
\* the rest of the format in it.
Spoiled(p) ==
    \/ p.conv \in Signed /\ p.arg < 0
    \/ p.conv \in {"o", "u"} /\ "#" \in p.flags

\* Of all other numbers the digits printed, read back in the base of the
\* conversion, are the value passed, as an unsigned int for %o, %x and %u: neither
\* the precision nor a prefix nor zeros that fill the field change it.
ValuePrinted ==
    piece.conv \in Numbers /\ ~Spoiled(piece) =>
        ValueOf(text, Base(piece)) = IF piece.conv \in Signed THEN piece.arg ELSE Unsigned(piece.arg)

IsFill(c) == c.kind \in {"pad", "zero"}

\* A number fills its field, and one that is wider has no fill.
FieldFilled ==
    piece.conv \in Numbers =>
        \/ Len(text) = piece.width
        \/ Len(text) > piece.width /\ \A k \in DOMAIN text : ~IsFill(text[k])
===============================================================================
