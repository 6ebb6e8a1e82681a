-------------------------------- MODULE CString -------------------------------
(***************************************************************************)
(* What a caller of the string functions counts on, each call one step:    *)
(* memcpy and memmove bring the bytes the source had before the call to    *)
(* the destination, memset fills it, memcmp orders two blocks by their     *)
(* first difference, strlen finds the first byte 0.  Nothing else changes. *)
(***************************************************************************)
EXTENDS Integers

CONSTANTS
    MaxAddress,     \* bound: the last byte of memory
    ByteValues,     \* what an unsigned char can hold (256 in the code)
    SetValues       \* bound: the ints memset is called with

VARIABLES
    call,           \* the function, its pointers, its value and its size
    mem,            \* address -> byte
    done,           \* whether it has returned
    answer          \* what it returned

vars == <<call, mem, done, answer>>

Addresses == 0 .. MaxAddress
Bytes == 0 .. ByteValues - 1
Functions == {"memcpy", "memmove", "memset", "memcmp", "strlen"}

\* Two pointers, of which memset and strlen take one, to what is memory; a value
\* for memset, a size for all but strlen.
Calls ==
    {c \in [op : Functions, a : 0 .. MaxAddress + 1, b : 0 .. MaxAddress + 1,
            value : SetValues \cup {0}, size : 0 .. MaxAddress + 1] :
        /\ c.a + c.size <= MaxAddress + 1 /\ c.b + c.size <= MaxAddress + 1
        /\ c.op \in {"memset", "strlen"} => c.b = 0
        /\ c.op # "memset" => c.value = 0
        /\ c.op = "strlen" => c.size = 0}

Block(start, size) == start .. start + size - 1

\* What a caller has to see to: memcpy's blocks do not overlap (they are
\* restrict), and strlen's string ends.
Allowed(c, m) ==
    /\ c.op = "memcpy" => Block(c.a, c.size) \cap Block(c.b, c.size) = {}
    /\ c.op = "strlen" => \E x \in Addresses : x >= c.a /\ m[x] = 0

Moved(c, m) == [x \in Addresses |-> IF x \in Block(c.a, c.size) THEN m[c.b + (x - c.a)] ELSE m[x]]
Filled(c, m) == [x \in Addresses |-> IF x \in Block(c.a, c.size) THEN c.value % ByteValues ELSE m[x]]

\* r is the order of the two blocks, as unsigned bytes.
IsOrder(c, m, r) ==
    \/ r = 0 /\ \A k \in 0 .. c.size - 1 : m[c.a + k] = m[c.b + k]
    \/ \E k \in 0 .. c.size - 1 :
        /\ \A j \in 0 .. k - 1 : m[c.a + j] = m[c.b + j]
        /\ \/ m[c.a + k] < m[c.b + k] /\ r = -1
           \/ m[c.b + k] < m[c.a + k] /\ r = 1

IsLength(c, m, r) == r \in Nat /\ m[c.a + r] = 0 /\ \A k \in 0 .. r - 1 : m[c.a + k] # 0

Init ==
    /\ call \in Calls /\ mem \in [Addresses -> Bytes] /\ Allowed(call, mem)
    /\ done = FALSE /\ answer = 0

Return ==
    /\ ~done /\ done' = TRUE /\ UNCHANGED call
    /\ \/ call.op \in {"memcpy", "memmove"} /\ mem' = Moved(call, mem) /\ answer' = call.a
       \/ call.op = "memset" /\ mem' = Filled(call, mem) /\ answer' = call.a
       \/ call.op = "memcmp" /\ UNCHANGED mem /\ IsOrder(call, mem, answer')
       \/ call.op = "strlen" /\ UNCHANGED mem /\ IsLength(call, mem, answer')

Spec == Init /\ [][Return]_vars
===============================================================================
