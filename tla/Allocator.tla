------------------------------- MODULE Allocator ------------------------------
(***************************************************************************)
(* What malloc, malloc_pages and free promise the kernel: memory that is   *)
(* mapped, that no one else has until it is freed, and that starts at a    *)
(* page boundary when pages were asked for.  There are no blocks here.     *)
(***************************************************************************)
EXTENDS Integers

CONSTANT PageSize

VARIABLES
    live,           \* what is allocated: [ptr, size, aligned] records
    mapped          \* how many bytes of the heap are mapped

vars == <<live, mapped>>

Bytes(r) == r.ptr .. r.ptr + r.size - 1

Init == live = {} /\ mapped = 0

\* One new region, which is mapped and which nobody has.
Allocate ==
    /\ mapped' >= mapped
    /\ \E r \in live' \ live :
        /\ live' = live \cup {r}
        /\ r.size > 0 /\ Bytes(r) \subseteq 0 .. mapped' - 1
        /\ \A q \in live : Bytes(q) \cap Bytes(r) = {}
        /\ r.aligned => r.ptr % PageSize = 0 /\ r.size % PageSize = 0

Free == \E r \in live : live' = live \ {r} /\ mapped' = mapped

Next == Allocate \/ Free

Spec == Init /\ [][Next]_vars
===============================================================================
