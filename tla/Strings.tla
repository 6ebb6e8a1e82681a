-------------------------------- MODULE Strings -------------------------------
(***************************************************************************)
(* libc/string: memcpy, memmove, memset, memcmp and strlen as the loops    *)
(* they are, one byte a step, on the memory they read and write.           *)
(***************************************************************************)
EXTENDS Integers

CONSTANTS MaxAddress, ByteValues, SetValues

ASSUME MemoryAssumption == MaxAddress \in Nat /\ ByteValues \in Nat \ {0} /\ SetValues \subseteq Int

VARIABLES
    call, mem, done, answer,    \* as in CString
    i,                          \* the loop counter; len in strlen
    before                      \* the memory as the call found it

svars == <<call, mem, done, answer, i, before>>

\* The call as its caller sees it: until it returns, nothing has happened.
C == INSTANCE CString WITH mem <- IF done THEN mem ELSE before

ForwardAlways(c) == TRUE
\* The order in which bytes are copied; pointers compare as addresses.
Forward(c) == c.op = "memcpy" \/ c.a < c.b

Init ==
    /\ call \in C!Calls /\ mem \in [C!Addresses -> C!Bytes] /\ C!Allowed(call, mem)
    /\ i = IF call.op = "memmove" /\ ~Forward(call) THEN call.size ELSE 0
    /\ before = mem /\ done = FALSE /\ answer = 0

Looping(ops) == ~done /\ call.op \in ops
Turn == UNCHANGED <<call, done, answer, before>>
Answer(r) == done' = TRUE /\ answer' = r /\ UNCHANGED <<call, mem, i, before>>

Copies == {"memcpy", "memmove"}

CopyForward ==
    /\ Looping(Copies) /\ Forward(call) /\ i < call.size
    /\ mem' = [mem EXCEPT ![call.a + i] = mem[call.b + i]]
    /\ i' = i + 1 /\ Turn

CopyBackward ==
    /\ Looping(Copies) /\ ~Forward(call) /\ i # 0
    /\ mem' = [mem EXCEPT ![call.a + i - 1] = mem[call.b + i - 1]]
    /\ i' = i - 1 /\ Turn

CopyReturns ==
    /\ Looping(Copies) /\ i = IF Forward(call) THEN call.size ELSE 0
    /\ Answer(call.a)

StoredUncast(value) == value
Stored(value) == value % ByteValues

Fill ==
    /\ Looping({"memset"}) /\ i < call.size
    /\ mem' = [mem EXCEPT ![call.a + i] = Stored(call.value)]
    /\ i' = i + 1 /\ Turn

FillReturns == Looping({"memset"}) /\ i = call.size /\ Answer(call.a)

\* As a char that is signed has it: the upper half of the values is negative.
SignedLess(x, y) ==
    LET Signed(v) == IF 2 * v < ByteValues THEN v ELSE v - ByteValues IN Signed(x) < Signed(y)
Less(x, y) == x < y

CompareNext ==
    /\ Looping({"memcmp"}) /\ i < call.size /\ mem[call.a + i] = mem[call.b + i]
    /\ i' = i + 1 /\ UNCHANGED mem /\ Turn

CompareReturns ==
    /\ Looping({"memcmp"})
    /\ \/ i < call.size /\ Less(mem[call.a + i], mem[call.b + i]) /\ Answer(-1)
       \/ i < call.size /\ Less(mem[call.b + i], mem[call.a + i]) /\ Answer(1)
       \/ i = call.size /\ Answer(0)

Counted(len) == len + 1
Count ==
    /\ Looping({"strlen"}) /\ mem[call.a + i] # 0
    /\ i' = Counted(i) /\ UNCHANGED mem /\ Turn

CountReturns == Looping({"strlen"}) /\ mem[call.a + i] = 0 /\ Answer(i)

Next ==
    \/ CopyForward \/ CopyBackward \/ CopyReturns
    \/ Fill \/ FillReturns
    \/ CompareNext \/ CompareReturns
    \/ Count \/ CountReturns

Spec == Init /\ [][Next]_svars

-------------------------------------------------------------------------------
(* Properties *)

\* Memory holds bytes, and every address the loops use is one of memory: the
\* counter stays within the size, and strlen's at or before the first 0.
TypeOK ==
    /\ call \in C!Calls
    /\ mem \in [C!Addresses -> C!Bytes] /\ before \in [C!Addresses -> C!Bytes]
    /\ done \in BOOLEAN /\ answer \in Int /\ i \in 0 .. MaxAddress + 1
    /\ call.op # "strlen" => i <= call.size
    /\ call.op = "strlen" => call.a + i <= MaxAddress

\* The part of the destination that has been written, from the counter on or up
\* to it.
Written ==
    IF call.op \in Copies /\ ~Forward(call) THEN {x \in C!Block(call.a, call.size) : x >= call.a + i}
    ELSE C!Block(call.a, i)

\* However source and destination overlap, a byte is copied before it is
\* overwritten: what has been written is what the source had before the call,
\* and everything else, the rest of the source too, is as it was.
CopiedBeforeOverwritten ==
    call.op \in Copies =>
        \A x \in C!Addresses :
            mem[x] = IF x \in Written THEN before[call.b + (x - call.a)] ELSE before[x]

\* Each function does what CString says its callers count on.
CStringSpec == C!Spec

===============================================================================
