--------------------------------- MODULE MCLibc --------------------------------
(* The string functions and printf, which share no state: calls of either, in  *)
(* any order, beside the least call of the other.                              *)
EXTENDS MCPrintf, Strings

\* Values for memset: bytes, and ints on both sides of them.
MCSetValues == {-1, 2, 4}

Formats == MCMeanings \cup {<<>>}

CopiesNothing ==
    /\ call = [op |-> "memmove", a |-> 0, b |-> 0, value |-> 0, size |-> 0]
    /\ mem = [a \in C!Addresses |-> 0]

LibcInit ==
    \/ PrintfInit /\ meaning = <<>> /\ Init
    \/ CopiesNothing /\ Init /\ PrintfInit

LibcNext ==
    \/ Next /\ UNCHANGED printfVars
    \/ PrintfNext /\ UNCHANGED svars

LibcSpec == LibcInit /\ [][LibcNext]_<<svars, printfVars>>
===============================================================================
