------------------------------- MODULE Directives -----------------------------
(***************************************************************************)
(* How printf of libc/stdio/printf.c reads its format and its arguments:   *)
(* the loops that take the format apart, character by character, into the  *)
(* pieces that are printed.  A format is spelled, and its arguments are    *)
(* passed, from the pieces that its author meant.                          *)
(***************************************************************************)
EXTENDS Integers, SequencesExt

CONSTANTS
    IntMax,         \* INT_MAX (2^31 - 1 in the code)
    Meanings        \* bound: what the authors of formats mean, sequences of pieces

VARIABLES
    meaning,        \* what the author meant
    format,         \* the characters of the format
    args,           \* the arguments that are left, as va_arg takes them
    at,             \* the pointer format of the code, as an index
    stage,          \* which of the loops it is in, or "print"
    now,            \* the directive being read, and where it begins
    pieces          \* what has been read

readVars == <<meaning, format, args, at, stage, now, pieces>>

Numerals == <<"0", "1", "2", "3", "4", "5", "6", "7", "8", "9">>
Digit == ToSet(Numerals)
DigitValue(c) == CHOOSE d \in 0 .. 9 : Numerals[d + 1] = c
Flag == {"-", "+", " ", "#", "0"}
Conversions == {"c", "s", "o", "x", "X", "u", "d", "i"}
LastModifiers == {"j", "z", "t", "L"}
Absent == -1            \* the precision the code starts with
End == "end"            \* the terminator of a string

\* One, b, its square and so on: what is multiplied by b in a loop.
Powers(b) == LET power[k \in Nat] == IF k = 0 THEN 1 ELSE power[k - 1] * b IN power

-------------------------------------------------------------------------------
(* What formats look like.  A piece is a run of text, or a directive: its  *)
(* flags, its width, behind a point its precision, a modifier that says    *)
(* how long its value is, and its conversion.  The last piece of a format  *)
(* may be "bad", no directive: it is printed as it stands.                 *)

\* The number that digits are, the first digit first.
NumberOf(digits) ==
    LET number[k \in 0 .. Len(digits)] ==
            IF k = 0 THEN 0 ELSE 10 * number[k - 1] + DigitValue(digits[k])
    IN  number[Len(digits)]

IntRange == -IntMax - 1 .. IntMax
Starred(n) == n.spelled = <<"*">>

\* A number is spelled in digits, or passed as an argument.
IsNumber(n) ==
    /\ n.value \in IntRange
    /\ \/ Starred(n)
       \/ n.spelled \in Seq(Digit) /\ Len(n.spelled) < 256 /\ n.value = NumberOf(n.spelled)

Modifiers == {<<>>, <<"h">>, <<"h", "h">>, <<"l">>, <<"l", "l">>} \cup {<<c>> : c \in LastModifiers}

\* What would belong to a number, to a modifier, to the directive p, were it next.
OfNumber(n) == IF Starred(n) THEN {} ELSE IF n.spelled = <<>> THEN {"*"} \cup Digit ELSE Digit
OfModifier(m) ==
    IF ToSet(m) \cap LastModifiers # {} THEN {}
    ELSE {"l"} \cup LastModifiers \cup IF "l" \in ToSet(m) THEN {} ELSE {"h"}
Continues(p) ==
    OfModifier(p.modifier)
    \cup (IF p.modifier # <<>> THEN {}
          ELSE IF p.point THEN OfNumber(p.precision)
          ELSE {"."} \cup OfNumber(p.width)
               \cup (IF p.width.spelled = <<>> THEN Flag ELSE {})
               \cup IF p.flags \o p.width.spelled = <<>> THEN {"%"} ELSE {})

First(s) == IF s = <<>> THEN End ELSE s[1]

IsTextPiece(p) ==
    /\ p.conv = "text" /\ p.chars \in Seq(ToSet(p.chars)) /\ p.chars # <<>>
    /\ End \notin ToSet(p.chars)
    /\ \A k \in 2 .. Len(p.chars) : p.chars[k] # "%"

IsDirective(p) ==
    /\ p.flags \in Seq(Flag)
    /\ IsNumber(p.width) /\ First(p.width.spelled) # "0"
    /\ p.point \in BOOLEAN /\ IsNumber(p.precision)
    /\ p.modifier \in Modifiers
    /\ \/ p.conv \in Conversions /\ p.chars = <<p.conv>> /\ p.arg \in (IF p.conv = "s" THEN 0 .. IntMax ELSE IntRange)
       \/ /\ p.conv = "bad" /\ p.chars \in Seq(ToSet(p.chars)) /\ End \notin ToSet(p.chars)
          /\ First(p.chars) \notin Conversions \cup Continues(p)

Spell(p) ==
    IF p.conv = "text" THEN (IF p.chars[1] = "%" THEN <<"%">> ELSE <<>>) \o p.chars
    ELSE <<"%">> \o p.flags \o p.width.spelled
         \o (IF p.point THEN <<".">> \o p.precision.spelled ELSE <<>>)
         \o p.modifier \o p.chars

\* What is passed for it: numbers, and the value.
Passed(p) ==
    IF p.conv = "text" THEN <<>>
    ELSE (IF Starred(p.width) THEN <<p.width.value>> ELSE <<>>)
         \o (IF p.point /\ Starred(p.precision) THEN <<p.precision.value>> ELSE <<>>)
         \o (IF p.conv \in Conversions THEN <<p.arg>> ELSE <<>>)

\* Two runs of text are one, unless the second begins with a doubled percent sign.
Follows(q, p) == p.conv # "bad" /\ (p.conv = "text" => Spell(q)[1] = "%")

IsMeaning(m) ==
    /\ m \in Seq(ToSet(m))
    /\ \A k \in DOMAIN m : IsTextPiece(m[k]) \/ IsDirective(m[k])
    /\ \A k \in 2 .. Len(m) : Follows(m[k], m[k - 1])

ASSUME IntAssumption == IntMax \in Nat
ASSUME MeaningAssumption == \A m \in Meanings : IsMeaning(m)

Text(chars) ==
    [conv |-> "text", flags |-> {}, width |-> 0, precision |-> Absent, arg |-> 0, chars |-> chars]
Directive(d, conv, arg) ==
    [conv |-> conv, flags |-> d.flags, width |-> d.width, precision |-> d.precision, arg |-> arg, chars |-> <<>>]

Meant(p) ==
    CASE p.conv = "text" -> Text(p.chars)
      [] p.conv = "bad"  -> Text(Spell(p))
      [] OTHER -> Directive([flags |-> ToSet(p.flags), width |-> p.width.value,
                             precision |-> IF p.point THEN p.precision.value ELSE Absent], p.conv, p.arg)

-------------------------------------------------------------------------------
(* The loops *)

NoDirective == [begun |-> 0, flags |-> {}, width |-> 0, precision |-> Absent]

ReadInit ==
    /\ meaning \in Meanings
    /\ format = FlattenSeq([k \in DOMAIN meaning |-> Spell(meaning[k])])
    /\ args = FlattenSeq([k \in DOMAIN meaning |-> Passed(meaning[k])])
    /\ at = 1 /\ stage = "piece" /\ now = NoDirective /\ pieces = <<>>

CharAt(k) == IF k > Len(format) THEN End ELSE format[k]

\* The first place from k on whose character is not in set.
Behind(k, set) ==
    CHOOSE j \in k .. Len(format) + 1 : CharAt(j) \notin set /\ \A l \in k .. j - 1 : CharAt(l) \in set

\* parseInt: each digit times ten as often as digits follow it.
ParseInt(digits) ==
    LET n[i \in 0 .. Len(digits)] ==
            IF i = 0 THEN 0 ELSE n[i - 1] + DigitValue(digits[i]) * Powers(10)[Len(digits) - i]
    IN  n[Len(digits)]

\* A percent sign that is doubled is text.
IsText == CharAt(at) # "%" \/ CharAt(at + 1) = "%"

ReadText ==
    LET start == IF CharAt(at) = "%" THEN at + 1 ELSE at
        stop  == CHOOSE j \in start + 1 .. Len(format) + 1 :
                    CharAt(j) \in {"%", End} /\ \A l \in start + 1 .. j - 1 : CharAt(l) # "%"
    IN  /\ stage = "piece" /\ CharAt(at) # End /\ IsText
        /\ pieces' = Append(pieces, Text(SubSeq(format, start, stop - 1)))
        /\ at' = stop /\ stage' = "print"
        /\ UNCHANGED <<meaning, format, args, now>>

BeginDirective ==
    /\ stage = "piece" /\ ~IsText
    /\ stage' = "flags" /\ at' = at + 1
    /\ now' = [NoDirective EXCEPT !.begun = at]
    /\ UNCHANGED <<meaning, format, args, pieces>>

AtFlagNoZero == CharAt(at) \in Flag \ {"0"}
AtFlag == CharAt(at) \in Flag

ReadFlag ==
    /\ stage = "flags" /\ AtFlag
    /\ now' = [now EXCEPT !.flags = @ \cup {CharAt(at)}]
    /\ at' = at + 1
    /\ UNCHANGED <<meaning, format, args, stage, pieces>>

\* The number at k, or the next argument, into a field of the directive.
ReadNumber(k, field) ==
    IF CharAt(k) = "*"
    THEN now' = [now EXCEPT ![field] = Head(args)] /\ args' = Tail(args) /\ at' = k + 1
    ELSE LET stop == Behind(k, Digit)
         IN  now' = [now EXCEPT ![field] = ParseInt(SubSeq(format, k, stop - 1))] /\ at' = stop /\ UNCHANGED args

ReadWidth ==
    /\ stage = "flags" /\ ~AtFlag
    /\ ReadNumber(at, "width")
    /\ stage' = "precision"
    /\ UNCHANGED <<meaning, format, pieces>>

ReadPrecision ==
    /\ stage = "precision"
    /\ IF CharAt(at) = "." THEN ReadNumber(at + 1, "precision") ELSE UNCHANGED <<now, args, at>>
    /\ stage' = "modifiers"
    /\ UNCHANGED <<meaning, format, pieces>>

\* Any number of h, then of l, then one of the others; what they say is not used.
SkipModifiers ==
    LET k == Behind(Behind(at, {"h"}), {"l"})
    IN  /\ stage = "modifiers"
        /\ at' = IF CharAt(k) \in LastModifiers THEN k + 1 ELSE k
        /\ stage' = "conversion"
        /\ UNCHANGED <<meaning, format, args, now, pieces>>

Convert ==
    /\ stage = "conversion" /\ CharAt(at) \in Conversions
    /\ pieces' = Append(pieces, Directive(now, CharAt(at), Head(args)))
    /\ args' = Tail(args) /\ at' = at + 1 /\ stage' = "print" /\ now' = NoDirective
    /\ UNCHANGED <<meaning, format>>

\* The rest of the format, from the percent sign on, is printed as it stands.
ConvertNothing ==
    /\ stage = "conversion" /\ CharAt(at) \notin Conversions
    /\ pieces' = Append(pieces, Text(SubSeq(format, now.begun, Len(format))))
    /\ at' = Len(format) + 1 /\ stage' = "print" /\ now' = NoDirective
    /\ UNCHANGED <<meaning, format, args>>

Read ==
    \/ ReadText
    \/ BeginDirective \/ ReadFlag \/ ReadWidth \/ ReadPrecision \/ SkipModifiers
    \/ Convert \/ ConvertNothing

-------------------------------------------------------------------------------
(* Properties *)

\* printf reads a format, and takes its arguments, as was meant: the zero of a
\* width is not a flag nor the other way round, a point without a number is the
\* precision 0, a doubled percent sign is one, a width that is an argument comes
\* before the value, and what is no directive, or breaks off, loses no character.
ReadAsMeant ==
    LET meant == [k \in DOMAIN meaning |-> Meant(meaning[k])]
    IN  IsPrefix(pieces, meant) /\ (stage = "piece" /\ CharAt(at) = End => pieces = meant /\ args = <<>>)
===============================================================================
