------------------------------ MODULE MCProgram1 ------------------------------
(* Program1 on a screen of three columns: short spellings of its pieces, one *)
(* of which fills a row.                                                     *)
EXTENDS Program1

CONSTANTS a, b

MCSpelling(piece) ==
    CASE piece[1] = "newline" -> <<Newline>>
      [] piece[1] = "argv[0]" -> IF piece[2] = 0 THEN <<b>> ELSE <<b, a>>
      [] piece[1] = "parent"  -> <<a, b, a>>
      [] piece[1] = "child"   -> <<b, b>>
      [] OTHER                -> <<a>>
===============================================================================
