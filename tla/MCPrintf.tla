-------------------------------- MODULE MCPrintf ------------------------------
(* Printf with an int of six bits: the formats that are tried. *)
EXTENDS Printf

Numeral(n) == IF n < 10 THEN <<Numerals[n + 1]>> ELSE <<Numerals[(n \div 10) + 1], Numerals[(n % 10) + 1]>>
Spelled(n) == [spelled |-> Numeral(n), value |-> n]
Passing(n) == [spelled |-> <<"*">>, value |-> n]
Nothing == [spelled |-> <<>>, value |-> 0]
Width(n) == IF n = 0 THEN Nothing ELSE Spelled(n)

Piece(conv, flags, width, precision, value) ==
    [conv |-> conv, flags |-> flags, width |-> width,
     point |-> precision.point, precision |-> precision.number,
     modifier |-> <<>>, chars |-> <<conv>>, arg |-> value]
Pieces(convs, flags, widths, precisions, values) ==
    {Piece(c, f, w, r, v) : c \in convs, f \in flags, w \in widths, r \in precisions, v \in values}
Widths(ns) == {Width(n) : n \in ns}
None == [point |-> FALSE, number |-> Nothing]
Point(n) == [point |-> TRUE, number |-> n]
Precisions(ns) == {Point(Spelled(n)) : n \in ns}

EveryFlags == {SetToSeq(flags) : flags \in SUBSET Flag}
Left == {<<>>, <<"-">>}

\* What is printed: every flag with the number conversions, and numbers around
\* their limits.
Values ==
    Pieces({"o", "x", "u"}, EveryFlags, Widths({0, 1, 6}), {None, Point(Nothing)} \cup Precisions({1, 4}),
           {0, 7, 8, 15, 16, -1})
    \cup Pieces({"d"}, EveryFlags, Widths({0, 6}), {None, Point(Spelled(0))}, {-32, -1, 0, 9, 10, 31})

\* A width that fills an int, and one that is negative, which only an argument can be.
Wide == Pieces({"u"}, {<<>>}, {Spelled(31), Passing(-1)}, {None}, {7})

Runs == {Text(Times(n, "a")) : n \in {1, 4, 28}} \cup {Text(<<"%">>), Text(<<"%", "d", "0">>)}
Chosen(widths) ==
    Pieces({"c"}, Left, widths, {None}, {0})
    \cup Pieces({"s"}, Left, widths, {None} \cup Precisions({0, 2, 5}), {0, 4, 5})
Texts == Runs \cup Chosen(Widths({0, 3, 6})) \cup Chosen({Passing(-1), Passing(3)})
Both == Runs \cup Wide \cup {p \in Texts : p.conv = "s" /\ p.arg = 5}

\* How it is spelled: numbers of one and two digits or arguments, flags twice and in
\* any order, and modifiers.
Spellings ==
    Pieces({"X", "i"}, {<<>>, <<"-">>, <<"0">>, <<"0", "-">>, <<"-", "0", "0">>},
           Widths({0, 1, 10, 25}) \cup {Passing(0), Passing(10)},
           {None, Point(Nothing)} \cup Precisions({0, 12}) \cup {Point(Passing(-1)), Point(Passing(12))}, {5})
    \cup {[p EXCEPT !.modifier = m] :
             m \in Modifiers, p \in Pieces({"u"}, {<<>>, <<"0">>}, Widths({0, 4}), {None, Point(Spelled(3))}, {5})}

\* Directives that break off, or have no conversion.
Bad(flags, width, precision, modifier, chars) ==
    [Piece("bad", flags, width, precision, 0) EXCEPT !.modifier = modifier, !.chars = chars]
BadEnds ==
    {Bad(<<>>, Nothing, None, <<>>, chars) : chars \in {<<>>, <<"y", "%", "d">>}}
    \cup {Bad(flags, Nothing, None, <<>>, <<"!">>) : flags \in {<<"-">>, <<"-", "-">>}}
    \cup {Bad(<<"-">>, Nothing, None, <<>>, chars) : chars \in {<<>>, <<"%">>}}
    \cup {Bad(<<"0">>, Spelled(5), None, <<>>, <<>>), Bad(<<>>, Spelled(5), None, <<>>, <<"%", "%">>),
          Bad(<<>>, Spelled(5), None, <<>>, <<"-", "d">>)}
    \cup {Bad(<<>>, Nothing, r, <<>>, <<>>) : r \in {Point(Nothing), Point(Passing(2))}}
    \cup {Bad(<<>>, Nothing, Point(Spelled(5)), <<>>, <<".", "3", "d">>)}
    \cup {Bad(<<>>, Passing(3), None, <<>>, chars) : chars \in {<<>>, <<"*", "d">>, <<"5", "d">>}}
    \cup {Bad(<<>>, Passing(3), Point(Passing(2)), <<>>, <<"%">>)}
    \cup {Bad(<<>>, Nothing, None, <<"h">>, <<>>), Bad(<<>>, Nothing, None, <<"l">>, <<"q">>),
          Bad(<<>>, Nothing, None, <<"j">>, <<"h", "d">>), Bad(<<>>, Nothing, None, <<"l">>, <<"h", "d">>)}

\* Prefixes, and a digit in the format behind the conversion.
Prefixed == Pieces({"o", "x", "u"}, {<<"#">>, <<"#", "0">>}, Widths({0, 6}), {None}, {0, 8, -1})
DigitBehind == {<<p, Text(<<c>>)>> : p \in Prefixed, c \in {"0", "7", "9"}}

MCMeanings ==
    {<<p>> : p \in Values \cup Wide \cup Texts \cup Spellings \cup BadEnds}
    \cup DigitBehind \cup UNION {{<<p, q>> : q \in {r \in Both \cup BadEnds : Follows(r, p)}} : p \in Both}
===============================================================================
