------------------------------ MODULE LibcProofs -------------------------------
(***************************************************************************)
(* Theorems about the C library: about Strings, for every memory, every    *)
(* call and every number of values a byte has, and about Directives and    *)
(* Printf, for every INT_MAX and every format that spells what its author  *)
(* meant.                                                                  *)
(***************************************************************************)
EXTENDS Strings, Printf, SequenceTheorems, WellFoundedInduction, TLAPS

-------------------------------------------------------------------------------
(* The functions of string.h: the inductive invariant *)

\* What memset has written, and nothing else.
FilledSoFar ==
    call.op = "memset" =>
        \A x \in C!Addresses :
            mem[x] = IF x \in C!Block(call.a, i) THEN Stored(call.value) ELSE before[x]

\* memcmp and strlen write nothing, and have found nothing before the counter.
SearchedSoFar ==
    /\ call.op \in {"memcmp", "strlen"} => mem = before
    /\ call.op = "memcmp" => \A k \in 0 .. i - 1 : before[call.a + k] = before[call.b + k]
    /\ call.op = "strlen" => \A k \in 0 .. i - 1 : before[call.a + k] # 0

IInv ==
    /\ TypeOK
    /\ C!Allowed(call, before)
    /\ CopiedBeforeOverwritten
    /\ FilledSoFar
    /\ SearchedSoFar

\* What membership in Calls says, as numbers.
LEMMA CallTypes ==
  ASSUME call \in C!Calls
  PROVE  /\ call.op \in {"memcpy", "memmove", "memset", "memcmp", "strlen"}
         /\ call.a \in Nat /\ call.b \in Nat /\ call.size \in Nat /\ call.value \in Int
         /\ call.a + call.size <= MaxAddress + 1 /\ call.b + call.size <= MaxAddress + 1
<1> DEFINE R == [op : C!Functions, a : 0 .. MaxAddress + 1, b : 0 .. MaxAddress + 1,
                 value : SetValues \cup {0}, size : 0 .. MaxAddress + 1]
<1>1. call \in R /\ call.a + call.size <= MaxAddress + 1 /\ call.b + call.size <= MaxAddress + 1
  BY DEF C!Calls
<1>2. /\ call.op \in C!Functions /\ call.value \in SetValues \cup {0}
      /\ call.a \in 0 .. MaxAddress + 1 /\ call.b \in 0 .. MaxAddress + 1
      /\ call.size \in 0 .. MaxAddress + 1
  BY <1>1
<1>3. call.value \in Int
  <2>1. SetValues \cup {0} \subseteq Int
    BY MemoryAssumption
  <2>2. call.value \in SetValues \cup {0}
    BY <1>2
  <2> QED BY <2>1, <2>2, Zenon
<1>4. call.a \in Nat /\ call.b \in Nat /\ call.size \in Nat
  BY <1>2, MemoryAssumption
<1> HIDE DEF R
<1> QED BY <1>1, <1>2, <1>3, <1>4 DEF C!Functions

\* What memset stores is a byte.
LEMMA StoredIsByte ==
  ASSUME NEW v \in Int
  PROVE  Stored(v) \in C!Bytes
  BY MemoryAssumption, SMT DEF Stored, C!Bytes

\* At first nothing has been written or searched.
LEMMA InitInv == ASSUME Init PROVE IInv
<1> USE MemoryAssumption
<1>1. /\ call \in C!Calls /\ mem \in [C!Addresses -> C!Bytes] /\ before = mem
      /\ C!Allowed(call, before) /\ done = FALSE /\ answer = 0
      /\ i = IF call.op = "memmove" /\ ~Forward(call) THEN call.size ELSE 0
  BY DEF Init
<1>2. call.op = "memcpy" => Forward(call)
  BY DEF Forward
<1>3. i \in 0 .. MaxAddress + 1 /\ (call.op # "strlen" => i <= call.size)
  BY <1>1, CallTypes
<1>4. call.op = "strlen" => call.a + i <= MaxAddress
  BY <1>1, CallTypes DEF C!Allowed, C!Addresses
<1>5. TypeOK
  <2>1. mem \in [C!Addresses -> C!Bytes] /\ before \in [C!Addresses -> C!Bytes]
    BY <1>1
  <2>2. done \in BOOLEAN
    BY <1>1, Zenon
  <2>3. answer \in Int
    BY <1>1
  <2> QED BY <2>1, <2>2, <2>3, <1>1, <1>3, <1>4 DEF TypeOK
<1>6. call.op \in Copies => Written = {}
  <2>1. CASE Forward(call)
    BY <2>1, <1>1, CallTypes DEF Written, C!Block
  <2>2. CASE ~Forward(call)
    BY <2>2, <1>1, <1>2, CallTypes DEF Written, C!Block, Copies
  <2> QED BY <2>1, <2>2
<1>7. CopiedBeforeOverwritten
  BY <1>1, <1>6 DEF CopiedBeforeOverwritten
<1>8. call.op \in {"memset", "memcmp", "strlen"} => i = 0
  BY <1>1
<1>9. FilledSoFar
  BY <1>1, <1>8, CallTypes DEF FilledSoFar, C!Block
<1>10. SearchedSoFar
  BY <1>1, <1>8 DEF SearchedSoFar
<1> QED BY <1>1, <1>5, <1>7, <1>9, <1>10 DEF IInv

\* A call that returns leaves everything but done and answer as it is.
LEMMA AnswerInv ==
  ASSUME IInv, NEW r \in Int, Answer(r)
  PROVE  IInv'
<1>1. UNCHANGED <<call, mem, i, before>> /\ done' = TRUE /\ answer' = r
  BY DEF Answer
<1>2. TypeOK'
  BY <1>1 DEF IInv, TypeOK
<1>3. /\ CopiedBeforeOverwritten' /\ FilledSoFar' /\ SearchedSoFar'
      /\ C!Allowed(call, before)'
  BY <1>1 DEF IInv, CopiedBeforeOverwritten, Written, Forward, Copies, FilledSoFar, SearchedSoFar,
              C!Allowed, C!Block, C!Addresses, Stored
<1> QED BY <1>2, <1>3 DEF IInv

\* The source is ahead of the counter: it is read before it is written.
LEMMA CopyForwardInv == ASSUME IInv, CopyForward PROVE IInv'
<1> USE MemoryAssumption
<1>1. /\ call.op \in Copies /\ Forward(call) /\ i < call.size
      /\ mem' = [mem EXCEPT ![call.a + i] = mem[call.b + i]] /\ i' = i + 1
      /\ call' = call /\ done' = done /\ answer' = answer /\ before' = before
  BY DEF CopyForward, Looping, Turn
<1>2. TypeOK /\ CopiedBeforeOverwritten /\ C!Allowed(call, before)
  BY DEF IInv
<1>3. /\ call.a \in Nat /\ call.b \in Nat /\ call.size \in Nat /\ i \in Nat
      /\ call.a + call.size <= MaxAddress + 1 /\ call.b + call.size <= MaxAddress + 1
  BY <1>2, CallTypes DEF TypeOK
<1>4. call.a + i \in C!Addresses /\ call.b + i \in C!Addresses
  BY <1>1, <1>3 DEF C!Addresses
<1>5. TypeOK'
  <2>1. mem' \in [C!Addresses -> C!Bytes]
    BY <1>1, <1>2, <1>4 DEF TypeOK
  <2>2. i' \in 0 .. MaxAddress + 1 /\ i' <= call.size
    BY <1>1, <1>3
  <2> QED BY <2>1, <2>2, <1>1, <1>2 DEF TypeOK, Copies, C!Addresses, C!Bytes, C!Calls, C!Functions
<1>6. Written = C!Block(call.a, i) /\ Written' = C!Block(call.a, i + 1)
  BY <1>1 DEF Written, Forward, C!Block
<1>7. call.b + i \notin C!Block(call.a, i)
  <2>1. CASE call.a < call.b
    BY <2>1, <1>3 DEF C!Block
  <2>2. CASE call.op = "memcpy"
    <3>1. C!Block(call.a, call.size) \cap C!Block(call.b, call.size) = {}
      BY <2>2, <1>2 DEF C!Allowed
    <3>2. call.b + i \in C!Block(call.b, call.size)
      BY <1>1, <1>3 DEF C!Block
    <3>3. call.b + i \in C!Block(call.a, i) => call.b + i \in C!Block(call.a, call.size)
      BY <1>1, <1>3 DEF C!Block
    <3> QED BY <3>1, <3>2, <3>3
  <2> QED BY <2>1, <2>2, <1>1 DEF Forward
<1>8. mem[call.b + i] = before[call.b + i]
  BY <1>1, <1>2, <1>4, <1>6, <1>7 DEF CopiedBeforeOverwritten
<1>9. CopiedBeforeOverwritten'
  <2> SUFFICES ASSUME NEW x \in C!Addresses
               PROVE  mem'[x] = IF x \in Written' THEN before[call.b + (x - call.a)] ELSE before[x]
    BY <1>1 DEF CopiedBeforeOverwritten, C!Addresses
  <2>1. CASE x = call.a + i
    <3>1. x \in Written' /\ call.b + (x - call.a) = call.b + i
      <4>1. x - call.a = i BY <2>1, <1>3
      <4>2. x \in C!Block(call.a, i + 1) BY <2>1, <1>3 DEF C!Block
      <4> QED BY <4>1, <4>2, <1>6
    <3>2. mem'[x] = mem[call.b + i]
      BY <2>1, <1>1, <1>2, <1>4 DEF TypeOK
    <3> QED BY <3>1, <3>2, <1>8
  <2>2. CASE x # call.a + i
    <3>1. x \in Written' <=> x \in Written
      BY <2>2, <1>3, <1>6 DEF C!Block, C!Addresses
    <3>2. mem'[x] = mem[x]
      BY <2>2, <1>1, <1>2 DEF TypeOK
    <3> QED BY <3>1, <3>2, <1>1, <1>2 DEF CopiedBeforeOverwritten
  <2> QED BY <2>1, <2>2
<1>10. FilledSoFar' /\ SearchedSoFar'
  BY <1>1 DEF FilledSoFar, SearchedSoFar, Copies
<1>11. C!Allowed(call, before)'
  BY <1>1, <1>2 DEF C!Allowed, C!Block, C!Addresses
<1> QED BY <1>5, <1>9, <1>10, <1>11 DEF IInv

\* Backwards, the destination is at or behind the source.
LEMMA CopyBackwardInv == ASSUME IInv, CopyBackward PROVE IInv'
<1> USE MemoryAssumption
<1>1. /\ call.op \in Copies /\ ~Forward(call) /\ i # 0
      /\ mem' = [mem EXCEPT ![call.a + i - 1] = mem[call.b + i - 1]] /\ i' = i - 1
      /\ call' = call /\ done' = done /\ answer' = answer /\ before' = before
  BY DEF CopyBackward, Looping, Turn
<1>2. TypeOK /\ CopiedBeforeOverwritten /\ C!Allowed(call, before)
  BY DEF IInv
<1>3. /\ call.a \in Nat /\ call.b \in Nat /\ call.size \in Nat /\ i \in Nat
      /\ call.a + call.size <= MaxAddress + 1 /\ call.b + call.size <= MaxAddress + 1
  BY <1>2, CallTypes DEF TypeOK
<1>4. i <= call.size /\ call.b <= call.a
  BY <1>1, <1>2, <1>3 DEF TypeOK, Forward, Copies
<1>5. call.a + i - 1 \in C!Addresses /\ call.b + i - 1 \in C!Addresses
  BY <1>1, <1>3, <1>4 DEF C!Addresses
<1>6. TypeOK'
  <2>1. mem' \in [C!Addresses -> C!Bytes]
    BY <1>1, <1>2, <1>5 DEF TypeOK
  <2>2. i' \in 0 .. MaxAddress + 1 /\ i' <= call.size
    BY <1>1, <1>3, <1>4
  <2> QED BY <2>1, <2>2, <1>1, <1>2 DEF TypeOK, Copies, C!Addresses, C!Bytes, C!Calls, C!Functions
<1>7. /\ Written = {x \in C!Block(call.a, call.size) : x >= call.a + i}
      /\ Written' = {x \in C!Block(call.a, call.size) : x >= call.a + i - 1}
  BY <1>1, <1>3 DEF Written, Forward, C!Block, Copies
<1>8. call.b + i - 1 \notin Written
  BY <1>1, <1>3, <1>4, <1>7
<1>9. mem[call.b + i - 1] = before[call.b + i - 1]
  BY <1>1, <1>2, <1>5, <1>8 DEF CopiedBeforeOverwritten
<1>10. CopiedBeforeOverwritten'
  <2> SUFFICES ASSUME NEW x \in C!Addresses
               PROVE  mem'[x] = IF x \in Written' THEN before[call.b + (x - call.a)] ELSE before[x]
    BY <1>1 DEF CopiedBeforeOverwritten, C!Addresses
  <2>1. CASE x = call.a + i - 1
    <3>1. x \in Written' /\ call.b + (x - call.a) = call.b + i - 1
      BY <2>1, <1>1, <1>3, <1>4, <1>7 DEF C!Block
    <3>2. mem'[x] = mem[call.b + i - 1]
      BY <2>1, <1>1, <1>2, <1>5 DEF TypeOK
    <3> QED BY <3>1, <3>2, <1>9
  <2>2. CASE x # call.a + i - 1
    <3>1. x \in Written' <=> x \in Written
      BY <2>2, <1>3, <1>7 DEF C!Block, C!Addresses
    <3>2. mem'[x] = mem[x]
      BY <2>2, <1>1, <1>2 DEF TypeOK
    <3> QED BY <3>1, <3>2, <1>1, <1>2 DEF CopiedBeforeOverwritten
  <2> QED BY <2>1, <2>2
<1>11. FilledSoFar' /\ SearchedSoFar'
  BY <1>1 DEF FilledSoFar, SearchedSoFar, Copies
<1>12. C!Allowed(call, before)'
  BY <1>1, <1>2 DEF C!Allowed, C!Block, C!Addresses
<1> QED BY <1>6, <1>10, <1>11, <1>12 DEF IInv

\* One more byte is the value.
LEMMA FillInv == ASSUME IInv, Fill PROVE IInv'
<1> USE MemoryAssumption
<1>1. /\ call.op = "memset" /\ i < call.size
      /\ mem' = [mem EXCEPT ![call.a + i] = Stored(call.value)] /\ i' = i + 1
      /\ call' = call /\ done' = done /\ answer' = answer /\ before' = before
  BY DEF Fill, Looping, Turn
<1>2. TypeOK /\ FilledSoFar /\ C!Allowed(call, before)
  BY DEF IInv
<1>3. /\ call.a \in Nat /\ call.size \in Nat /\ i \in Nat /\ call.value \in Int
      /\ call.a + call.size <= MaxAddress + 1
  BY <1>2, CallTypes DEF TypeOK
<1>4. call.a + i \in C!Addresses
  BY <1>1, <1>3 DEF C!Addresses
<1>5. TypeOK'
  <2>1. mem' \in [C!Addresses -> C!Bytes]
    BY <1>1, <1>2, <1>3, StoredIsByte DEF TypeOK
  <2>2. i' \in 0 .. MaxAddress + 1 /\ i' <= call.size
    BY <1>1, <1>3
  <2> QED BY <2>1, <2>2, <1>1, <1>2 DEF TypeOK, C!Addresses, C!Bytes, C!Calls, C!Functions
<1>6. FilledSoFar'
  <2> SUFFICES ASSUME NEW x \in C!Addresses
               PROVE  mem'[x] = IF x \in C!Block(call.a, i + 1) THEN Stored(call.value) ELSE before[x]
    BY <1>1 DEF FilledSoFar, C!Addresses, C!Block, Stored
  <2>1. CASE x = call.a + i
    BY <2>1, <1>1, <1>2, <1>3 DEF C!Block, TypeOK
  <2>2. CASE x # call.a + i
    <3>1. x \in C!Block(call.a, i + 1) <=> x \in C!Block(call.a, i)
      BY <2>2, <1>3 DEF C!Block, C!Addresses
    <3>2. mem'[x] = mem[x]
      BY <2>2, <1>1, <1>2 DEF TypeOK
    <3> QED BY <3>1, <3>2, <1>1, <1>2 DEF FilledSoFar
  <2> QED BY <2>1, <2>2
<1>7. CopiedBeforeOverwritten' /\ SearchedSoFar'
  BY <1>1 DEF CopiedBeforeOverwritten, SearchedSoFar, Copies
<1>8. C!Allowed(call, before)'
  BY <1>1, <1>2 DEF C!Allowed, C!Block, C!Addresses
<1> QED BY <1>5, <1>6, <1>7, <1>8 DEF IInv

\* One more byte is the same in both blocks.
LEMMA CompareInv == ASSUME IInv, CompareNext PROVE IInv'
<1> USE MemoryAssumption
<1>1. /\ call.op = "memcmp" /\ i < call.size /\ mem[call.a + i] = mem[call.b + i] /\ i' = i + 1
      /\ mem' = mem /\ call' = call /\ done' = done /\ answer' = answer /\ before' = before
  BY DEF CompareNext, Looping, Turn
<1>2. TypeOK /\ SearchedSoFar /\ C!Allowed(call, before)
  BY DEF IInv
<1>3. /\ call.a \in Nat /\ call.size \in Nat /\ i \in Nat
      /\ call.a + call.size <= MaxAddress + 1
  BY <1>2, CallTypes DEF TypeOK
<1>4. TypeOK'
  <2>1. i' \in 0 .. MaxAddress + 1 /\ i' <= call.size
    BY <1>1, <1>3
  <2> QED BY <2>1, <1>1, <1>2 DEF TypeOK, C!Addresses, C!Bytes, C!Calls, C!Functions
<1>5. \A k \in 0 .. i : before[call.a + k] = before[call.b + k]
  <2> TAKE k \in 0 .. i
  <2>1. CASE k = i
    BY <2>1, <1>1, <1>2 DEF SearchedSoFar
  <2>2. CASE k # i
    BY <2>2, <1>1, <1>2, <1>3 DEF SearchedSoFar
  <2> QED BY <2>1, <2>2
<1>6. SearchedSoFar'
  BY <1>1, <1>2, <1>3, <1>5 DEF SearchedSoFar
<1>7. CopiedBeforeOverwritten' /\ FilledSoFar'
  BY <1>1 DEF CopiedBeforeOverwritten, FilledSoFar, Copies
<1>8. C!Allowed(call, before)'
  BY <1>1, <1>2 DEF C!Allowed, C!Block, C!Addresses
<1> QED BY <1>4, <1>6, <1>7, <1>8 DEF IInv

\* The first 0 is still ahead, within memory.
LEMMA CountInv == ASSUME IInv, Count PROVE IInv'
<1> USE MemoryAssumption
<1>1. /\ call.op = "strlen" /\ mem[call.a + i] # 0 /\ i' = i + 1
      /\ mem' = mem /\ call' = call /\ done' = done /\ answer' = answer /\ before' = before
  BY DEF Count, Counted, Looping, Turn
<1>2. TypeOK /\ SearchedSoFar /\ C!Allowed(call, before)
  BY DEF IInv
<1>3. call.a \in Nat /\ i \in Nat /\ call.a + i <= MaxAddress
  BY <1>1, <1>2, CallTypes DEF TypeOK
<1>4. \A k \in 0 .. i : before[call.a + k] # 0
  <2> TAKE k \in 0 .. i
  <2>1. CASE k = i
    BY <2>1, <1>1, <1>2 DEF SearchedSoFar
  <2>2. CASE k # i
    BY <2>2, <1>1, <1>2, <1>3 DEF SearchedSoFar
  <2> QED BY <2>1, <2>2
<1>5. call.a + i' <= MaxAddress
  <2>1. PICK x \in C!Addresses : x >= call.a /\ before[x] = 0
    BY <1>1, <1>2 DEF C!Allowed
  <2>2. x \in Nat /\ x <= MaxAddress
    BY <2>1 DEF C!Addresses
  <2>3. x = call.a + (x - call.a) /\ x - call.a \in Nat
    BY <2>1, <2>2, <1>3
  <2>4. ~(x - call.a <= i)
    BY <2>1, <2>3, <1>3, <1>4
  <2> QED BY <2>2, <2>3, <2>4, <1>1, <1>3
<1>6. TypeOK'
  <2>1. i' \in 0 .. MaxAddress + 1
    BY <1>1, <1>3
  <2> QED BY <2>1, <1>1, <1>2, <1>5 DEF TypeOK, C!Addresses, C!Bytes, C!Calls, C!Functions
<1>7. SearchedSoFar'
  BY <1>1, <1>2, <1>3, <1>4 DEF SearchedSoFar
<1>8. CopiedBeforeOverwritten' /\ FilledSoFar'
  BY <1>1 DEF CopiedBeforeOverwritten, FilledSoFar, Copies
<1>9. C!Allowed(call, before)'
  BY <1>1, <1>2 DEF C!Allowed, C!Block, C!Addresses
<1> QED BY <1>6, <1>7, <1>8, <1>9 DEF IInv

\* Every step keeps the invariant.
LEMMA NextInv == ASSUME IInv, [Next]_svars PROVE IInv'
<1> USE MemoryAssumption
<1>1. /\ TypeOK
      /\ call.a \in Int /\ i \in Int
  BY CallTypes DEF IInv, TypeOK
<1>2. CASE CopyForward BY <1>2, CopyForwardInv
<1>3. CASE CopyBackward BY <1>3, CopyBackwardInv
<1>4. CASE CopyReturns BY <1>1, <1>4, AnswerInv DEF CopyReturns
<1>5. CASE Fill BY <1>5, FillInv
<1>6. CASE FillReturns BY <1>1, <1>6, AnswerInv DEF FillReturns
<1>7. CASE CompareNext BY <1>7, CompareInv
<1>8. CASE CompareReturns
  <2>1. -1 \in Int /\ 1 \in Int /\ 0 \in Int
    OBVIOUS
  <2> QED BY <2>1, <1>8, AnswerInv DEF CompareReturns
<1>9. CASE Count BY <1>9, CountInv
<1>10. CASE CountReturns BY <1>1, <1>10, AnswerInv DEF CountReturns
<1>11. CASE UNCHANGED svars
  BY <1>11 DEF svars, IInv, TypeOK, CopiedBeforeOverwritten, Written, Forward, Copies, FilledSoFar,
               SearchedSoFar, Stored, C!Allowed, C!Block, C!Addresses
<1> QED BY <1>2, <1>3, <1>4, <1>5, <1>6, <1>7, <1>8, <1>9, <1>10, <1>11 DEF Next

LEMMA Invariant == Spec => []IInv
  BY InitInv, NextInv, PTL DEF Spec

-------------------------------------------------------------------------------
(* The theorems *)

\* The types are kept: no loop of the string functions reads or writes outside
\* the blocks it was given, or runs past the end of a string.
THEOREM TypeCorrect == Spec => []TypeOK
  BY Invariant, PTL DEF IInv

\* memcpy and memmove copy every byte before it is overwritten, whatever the
\* overlap of the blocks memmove is given.
THEOREM CopyCorrect == Spec => []CopiedBeforeOverwritten
  BY Invariant, PTL DEF IInv

\* The loops start as CString does.
LEMMA RefinesInit == ASSUME Init PROVE C!Init
<1>1. /\ call \in C!Calls /\ mem \in [C!Addresses -> C!Bytes] /\ C!Allowed(call, mem)
      /\ before = mem /\ done = FALSE /\ answer = 0
  BY DEF Init
<1>2. (IF done THEN mem ELSE before) = mem
  BY <1>1
<1> QED BY <1>1, <1>2 DEF C!Init

\* A copy that has reached its end has moved the block.
LEMMA CopyReturnsRefines == ASSUME IInv, CopyReturns PROVE C!Return
<1> USE MemoryAssumption
<1>1. /\ ~done /\ call.op \in Copies /\ i = IF Forward(call) THEN call.size ELSE 0
      /\ done' = TRUE /\ answer' = call.a /\ call' = call /\ mem' = mem
  BY DEF CopyReturns, Looping, Answer
<1>2. TypeOK /\ CopiedBeforeOverwritten
  BY DEF IInv
<1>3. call.a \in Nat /\ call.size \in Nat
  BY <1>2, CallTypes DEF TypeOK
<1>4. Written = C!Block(call.a, call.size)
  <2>1. CASE Forward(call)
    BY <2>1, <1>1 DEF Written
  <2>2. CASE ~Forward(call)
    BY <2>2, <1>1, <1>3 DEF Written, C!Block
  <2> QED BY <2>1, <2>2
<1>5. mem = C!Moved(call, before)
  <2>1. mem = [x \in C!Addresses |-> mem[x]]
    BY <1>2 DEF TypeOK
  <2> QED BY <2>1, <1>1, <1>2, <1>4 DEF CopiedBeforeOverwritten, C!Moved
<1> QED BY <1>1, <1>5 DEF C!Return, Copies

\* A memset that has reached its end has filled the block.
LEMMA FillReturnsRefines == ASSUME IInv, FillReturns PROVE C!Return
<1>1. /\ ~done /\ call.op = "memset" /\ i = call.size
      /\ done' = TRUE /\ answer' = call.a /\ call' = call /\ mem' = mem
  BY DEF FillReturns, Looping, Answer
<1>2. mem = C!Filled(call, before)
  <2>1. mem = [x \in C!Addresses |-> mem[x]]
    BY DEF IInv, TypeOK
  <2> QED BY <2>1, <1>1 DEF IInv, FilledSoFar, C!Filled, Stored
<1> QED BY <1>1, <1>2 DEF C!Return

\* memcmp returns the order of the bytes at which the blocks first differ.
LEMMA CompareReturnsRefines == ASSUME IInv, CompareReturns PROVE C!Return
<1>1. ~done /\ call.op = "memcmp" /\ mem = before /\ i \in Nat /\ i <= call.size /\ call.size \in Nat
  BY CallTypes, MemoryAssumption DEF CompareReturns, Looping, IInv, TypeOK, SearchedSoFar
<1>2. done' = TRUE /\ call' = call /\ mem' = mem
  BY DEF CompareReturns, Answer
<1>3. \A k \in 0 .. i - 1 : before[call.a + k] = before[call.b + k]
  BY <1>1 DEF IInv, SearchedSoFar
<1>4. C!IsOrder(call, before, answer')
  <2>1. CASE i < call.size /\ Less(mem[call.a + i], mem[call.b + i]) /\ Answer(-1)
    <3>1. i \in 0 .. call.size - 1 /\ before[call.a + i] < before[call.b + i] /\ answer' = -1
      BY <1>1, <2>1 DEF Less, Answer
    <3> QED BY <3>1, <1>3 DEF C!IsOrder
  <2>2. CASE i < call.size /\ Less(mem[call.b + i], mem[call.a + i]) /\ Answer(1)
    <3>1. i \in 0 .. call.size - 1 /\ before[call.b + i] < before[call.a + i] /\ answer' = 1
      BY <1>1, <2>2 DEF Less, Answer
    <3> QED BY <3>1, <1>3 DEF C!IsOrder
  <2>3. CASE i = call.size /\ Answer(0)
    BY <2>3, <1>3 DEF C!IsOrder, Answer
  <2> QED BY <2>1, <2>2, <2>3 DEF CompareReturns
<1> QED BY <1>1, <1>2, <1>4 DEF C!Return

\* strlen returns where the first 0 is.
LEMMA CountReturnsRefines == ASSUME IInv, CountReturns PROVE C!Return
<1>1. /\ ~done /\ call.op = "strlen" /\ mem[call.a + i] = 0
      /\ done' = TRUE /\ answer' = i /\ call' = call /\ mem' = mem
  BY DEF CountReturns, Looping, Answer
<1>2. mem = before /\ i \in Nat /\ \A k \in 0 .. i - 1 : before[call.a + k] # 0
  BY <1>1, MemoryAssumption DEF IInv, TypeOK, SearchedSoFar
<1>3. C!IsLength(call, before, answer')
  BY <1>1, <1>2 DEF C!IsLength
<1> QED BY <1>1, <1>2, <1>3 DEF C!Return

\* A turn of a loop is nothing to the caller.
LEMMA TurnRefines ==
  ASSUME CopyForward \/ CopyBackward \/ Fill \/ CompareNext \/ Count
  PROVE  UNCHANGED C!vars
<1>1. ~done /\ call' = call /\ done' = done /\ answer' = answer /\ before' = before
  BY DEF CopyForward, CopyBackward, Fill, CompareNext, Count, Looping, Turn
<1>2. (IF done THEN mem ELSE before)' = (IF done THEN mem ELSE before)
  BY <1>1
<1> QED BY <1>1, <1>2 DEF C!vars

\* The loops implement what callers count on: every call behaves as one step
\* that has the whole effect.
THEOREM StringsImplement == Spec => CStringSpec
<1>1. Init => C!Init
  BY RefinesInit
<1>2. IInv /\ [Next]_svars => [C!Return]_(C!vars)
  <2> SUFFICES ASSUME IInv, [Next]_svars PROVE [C!Return]_(C!vars)
    OBVIOUS
  <2>1. CASE CopyForward \/ CopyBackward \/ Fill \/ CompareNext \/ Count
    BY <2>1, TurnRefines
  <2>2. CASE CopyReturns BY <2>2, CopyReturnsRefines
  <2>3. CASE FillReturns BY <2>3, FillReturnsRefines
  <2>4. CASE CompareReturns BY <2>4, CompareReturnsRefines
  <2>5. CASE CountReturns BY <2>5, CountReturnsRefines
  <2>6. CASE UNCHANGED svars
    BY <2>6 DEF svars, C!vars
  <2> QED BY <2>1, <2>2, <2>3, <2>4, <2>5, <2>6 DEF Next
<1> QED BY <1>1, <1>2, Invariant, PTL DEF Spec, CStringSpec, C!Spec

-------------------------------------------------------------------------------
(* printf: induction, and functions that are defined by recursion *)

\* Induction, said of the set of the numbers for which something holds.
LEMMA Induct ==
  ASSUME NEW T, 0 \in T, \A k \in Nat : k \in T => k + 1 \in T
  PROVE  Nat \subseteq T
<1> SUFFICES ASSUME Nat \ T # {} PROVE FALSE OBVIOUS
<1>1. PICK m \in Nat \ T : \A y \in Nat \ T : ~(y < m)
  <2> DEFINE R == OpToRel(<, Nat)
  <2>1. IsWellFoundedOn(R, Nat) BY NatLessThanWellFounded
  <2>2. \A x, y \in Nat : y < x => <<y, x>> \in R BY DEF OpToRel
  <2> HIDE DEF R
  <2>3. PICK m \in Nat \ T : \A y \in Nat \ T : ~(<<y, m>> \in R) BY <2>1, WFMin
  <2> QED BY <2>2, <2>3
<1>2. m # 0 /\ m - 1 \in Nat OBVIOUS
<1>3. m - 1 \in T BY <1>1, <1>2
<1> QED BY <1>2, <1>3

\* The same up to a bound.
LEMMA InductUpTo ==
  ASSUME NEW n \in Nat, NEW T, 0 \in T, \A k \in 1 .. n : k - 1 \in T => k \in T
  PROVE  0 .. n \subseteq T
<1> DEFINE U == {k \in Nat : k <= n => k \in T}
<1>1. 0 \in U OBVIOUS
<1>2. ASSUME NEW k \in Nat, k \in U PROVE k + 1 \in U
  <2>1. CASE k + 1 <= n
    <3>1. k + 1 \in 1 .. n /\ (k + 1) - 1 = k /\ k \in T BY <1>2, <2>1
    <3> QED BY <3>1
  <2> QED BY <2>1
<1>3. Nat \subseteq U
  <2> HIDE DEF U
  <2> QED BY <1>1, <1>2, Induct
<1> QED BY <1>3

\* What computes a value from the place, in A, and the value before it.
Steps(A, S) == [A \X S -> S]

\* Where each value of a sequence is computed from the one before it, there is such
\* a sequence.
LEMMA RecursionExists ==
  ASSUME NEW S, NEW first \in S, NEW step \in Steps(Nat, S)
  PROVE  \E f \in [Nat -> S] : f[0] = first /\ \A k \in Nat : f[k + 1] = step[<<k, f[k]>>]
<1> DEFINE UpTo(m, g) == /\ g \in [0 .. m -> S] /\ g[0] = first
                         /\ \A k \in 0 .. m - 1 : g[k + 1] = step[<<k, g[k]>>]
           T == {m \in Nat : \E g : UpTo(m, g)}
<1>1. Nat \subseteq T
  <2>1. 0 \in T
    <3>1. UpTo(0, [k \in 0 .. 0 |-> first]) OBVIOUS
    <3> QED BY <3>1
  <2>2. ASSUME NEW m \in Nat, m \in T PROVE m + 1 \in T
    <3>1. PICK g : UpTo(m, g) BY <2>2
    <3> HIDE DEF T
    <3> DEFINE h == [k \in 0 .. m + 1 |-> IF k = m + 1 THEN step[<<m, g[m]>>] ELSE g[k]]
    <3>2. g[m] \in S /\ step[<<m, g[m]>>] \in S BY <3>1 DEF Steps
    <3>3. h \in [0 .. m + 1 -> S] BY <3>1, <3>2
    <3>4. ASSUME NEW k \in 0 .. m PROVE h[k + 1] = step[<<k, h[k]>>]
      <4>1. CASE k = m
        <5>1. h[m + 1] = step[<<m, g[m]>>] /\ h[m] = g[m] OBVIOUS
        <5> QED BY <4>1, <5>1
      <4>2. CASE k # m
        <5>1. k \in 0 .. m - 1 /\ k + 1 \in 0 .. m BY <4>2
        <5>2. h[k + 1] = g[k + 1] /\ h[k] = g[k] BY <5>1
        <5> QED BY <5>1, <5>2, <3>1
      <4> QED BY <4>1, <4>2
    <3>5. h[0] = first BY <3>1
    <3>6. UpTo(m + 1, h)
      <4> HIDE DEF h
      <4> QED BY <3>3, <3>4, <3>5
    <3> HIDE DEF UpTo, h
    <3> QED BY <3>6 DEF T
  <2> HIDE DEF T
  <2> QED BY <2>1, <2>2, Induct
<1>2. ASSUME NEW m \in Nat, NEW n \in Nat, NEW g, NEW h, UpTo(m, g), UpTo(n, h), NEW k \in Nat, k <= m, k <= n
      PROVE  g[k] = h[k]
  <2> HIDE DEF T
  <2> DEFINE A == {j \in Nat : j <= m /\ j <= n => g[j] = h[j]}
  <2>1. 0 \in A BY <1>2
  <2>2. ASSUME NEW j \in Nat, j \in A PROVE j + 1 \in A
    <3>1. CASE j + 1 <= m /\ j + 1 <= n
      <4>1. g[j] = h[j] /\ j \in 0 .. m - 1 /\ j \in 0 .. n - 1 BY <2>2, <3>1
      <4>2. g[j + 1] = step[<<j, g[j]>>] /\ h[j + 1] = step[<<j, h[j]>>] BY <4>1, <1>2
      <4> QED BY <4>1, <4>2
    <3> QED BY <3>1
  <2>3. Nat \subseteq A
    <3> HIDE DEF A
    <3> QED BY <2>1, <2>2, Induct
  <2> QED BY <2>3, <1>2
<1> DEFINE G(m) == CHOOSE g : UpTo(m, g)
           f == [m \in Nat |-> G(m)[m]]
<1>3. \A m \in Nat : UpTo(m, G(m)) BY <1>1
<1>4. \A m \in Nat : f[m] = G(m)[m]
  <2> HIDE DEF G
  <2> QED OBVIOUS
<1>5. f[0] = first BY <1>3
<1>6. ASSUME NEW k \in Nat PROVE f[k + 1] = step[<<k, f[k]>>]
  <2>1. UpTo(k, G(k)) /\ UpTo(k + 1, G(k + 1))
    <3> HIDE DEF UpTo, G
    <3> QED BY <1>3
  <2>2. G(k + 1)[k + 1] = step[<<k, G(k + 1)[k]>>]
    <3> HIDE DEF G
    <3> QED BY <2>1
  <2>3. G(k + 1)[k] = G(k)[k]
    <3> HIDE DEF G, UpTo
    <3> QED BY <2>1, <1>2
  <2>4. f[k] = G(k)[k] /\ f[k + 1] = G(k + 1)[k + 1]
    <3> HIDE DEF G, UpTo, f
    <3>1. k + 1 \in Nat OBVIOUS
    <3> QED BY <3>1, <1>4
  <2> HIDE DEF G, f
  <2> QED BY <2>2, <2>3, <2>4
<1>7. f \in [Nat -> S]
  <2> SUFFICES ASSUME NEW k \in Nat PROVE G(k)[k] \in S OBVIOUS
  <2>1. UpTo(k, G(k)) BY <1>3
  <2> HIDE DEF G
  <2> QED BY <2>1
<1> HIDE DEF f
<1> QED BY <1>5, <1>6, <1>7

\* The function of the powers of b is what its recursion says.
LEMMA PowersComputed ==
  ASSUME NEW b \in Nat \ {0}
  PROVE  /\ Powers(b) \in [Nat -> Nat \ {0}] /\ Powers(b)[0] = 1
         /\ \A k \in Nat : Powers(b)[k + 1] = Powers(b)[k] * b
<1> DEFINE S == Nat \ {0}
           step == [p \in Nat \X S |-> p[2] * b]
<1>1. step \in Steps(Nat, S)
  <2> SUFFICES ASSUME NEW v \in S PROVE v * b \in S BY DEF Steps
  <2> QED OBVIOUS
<1>2. PICK f \in [Nat -> S] : f[0] = 1 /\ \A k \in Nat : f[k + 1] = step[<<k, f[k]>>]
  <2>1. 1 \in S OBVIOUS
  <2> HIDE DEF step, S
  <2> QED BY <1>1, <2>1, RecursionExists
<1>3. \A k \in Nat : f[k + 1] = f[k] * b
  <2> SUFFICES ASSUME NEW k \in Nat PROVE f[k + 1] = f[k] * b OBVIOUS
  <2>1. f[k] \in S OBVIOUS
  <2>2. step[<<k, f[k]>>] = f[k] * b BY <2>1
  <2> QED BY <1>2, <2>2
<1>4. f = [k \in Nat |-> IF k = 0 THEN 1 ELSE f[k - 1] * b]
  <2> HIDE DEF step
  <2>1. \A k \in Nat : f[k] = IF k = 0 THEN 1 ELSE f[k - 1] * b
    <3> SUFFICES ASSUME NEW k \in Nat, k # 0 PROVE f[k] = f[k - 1] * b BY <1>2
    <3>1. k - 1 \in Nat /\ (k - 1) + 1 = k OBVIOUS
    <3> QED BY <3>1, <1>3
  <2> QED BY <2>1
<1>5. PICK g : Powers(b) = g /\ g = CHOOSE h : h = [k \in Nat |-> IF k = 0 THEN 1 ELSE h[k - 1] * b]
  BY DEF Powers
<1>6. g = [k \in Nat |-> IF k = 0 THEN 1 ELSE g[k - 1] * b] BY <1>4, <1>5
<1> HIDE DEF step
<1>7. g[0] = 1 /\ \A k \in Nat : g[k + 1] = g[k] * b BY <1>6
<1>8. \A k \in Nat : g[k] \in S
  <2> DEFINE T == {k \in Nat : g[k] \in S}
  <2>1. 0 \in T BY <1>7
  <2>2. \A k \in Nat : k \in T => k + 1 \in T BY <1>7
  <2>3. Nat \subseteq T
    <3> HIDE DEF T
    <3> QED BY <2>1, <2>2, Induct
  <2> QED BY <2>3
<1>9. g \in [Nat -> S] BY <1>6, <1>8
<1> QED BY <1>5, <1>7, <1>9

\* The same over a finite range.
LEMMA BoundedRecursion ==
  ASSUME NEW S, NEW n \in Nat, NEW first \in S, NEW step \in Steps(1 .. n, S)
  PROVE  \E f \in [0 .. n -> S] : f[0] = first /\ \A k \in 1 .. n : f[k] = step[<<k, f[k - 1]>>]
<1> DEFINE more == [p \in Nat \X S |-> IF p[1] + 1 \in 1 .. n THEN step[<<p[1] + 1, p[2]>>] ELSE first]
<1>1. more \in Steps(Nat, S) BY DEF Steps
<1>2. PICK g \in [Nat -> S] : g[0] = first /\ \A k \in Nat : g[k + 1] = more[<<k, g[k]>>]
  <2> HIDE DEF more
  <2> QED BY <1>1, RecursionExists
<1>3. ASSUME NEW k \in 1 .. n PROVE g[k] = step[<<k, g[k - 1]>>]
  <2>1. k - 1 \in Nat /\ (k - 1) + 1 = k OBVIOUS
  <2>2. g[k - 1] \in S BY <2>1
  <2>3. more[<<k - 1, g[k - 1]>>] = step[<<k, g[k - 1]>>] BY <2>1, <2>2
  <2>4. g[k] = more[<<k - 1, g[k - 1]>>]
    <3> HIDE DEF more
    <3> QED BY <2>1, <1>2
  <2> QED BY <2>3, <2>4
<1> DEFINE f == [k \in 0 .. n |-> g[k]]
<1>4. f \in [0 .. n -> S] /\ f[0] = first BY <1>2
<1>5. \A k \in 1 .. n : f[k] = step[<<k, f[k - 1]>>]
  <2> SUFFICES ASSUME NEW k \in 1 .. n PROVE f[k] = step[<<k, f[k - 1]>>] OBVIOUS
  <2>1. f[k] = g[k] /\ f[k - 1] = g[k - 1] OBVIOUS
  <2> HIDE DEF f
  <2> QED BY <2>1, <1>3
<1> HIDE DEF f
<1> QED BY <1>4, <1>5

-------------------------------------------------------------------------------
(* Numbers of a format *)

\* A digit is worth 0 to 9.
LEMMA DigitIsValue == \A c \in Digit : DigitValue(c) \in 0 .. 9
<1> SUFFICES ASSUME NEW c \in Digit PROVE DigitValue(c) \in 0 .. 9 OBVIOUS
<1>1. PICK k \in DOMAIN Numerals : c = Numerals[k] BY DEF Digit, ToSet
<1>2. DOMAIN Numerals = 1 .. 10 BY DEF Numerals
<1>3. k - 1 \in 0 .. 9 /\ Numerals[(k - 1) + 1] = c BY <1>1, <1>2
<1>4. \E d \in 0 .. 9 : Numerals[d + 1] = c BY <1>3
<1> QED BY <1>4 DEF DigitValue

\* The number of digits, from the first one on.
LEMMA NumberComputed ==
  ASSUME NEW digits \in Seq(Digit)
  PROVE  \E f \in [0 .. Len(digits) -> Int] :
            /\ NumberOf(digits) = f[Len(digits)] /\ f[0] = 0
            /\ \A k \in 1 .. Len(digits) : f[k] = 10 * f[k - 1] + DigitValue(digits[k])
<1> DEFINE n == Len(digits)
           S == Int
           step == [p \in (1 .. n) \X S |-> 10 * p[2] + DigitValue(digits[p[1]])]
<1>1. n \in Nat /\ \A k \in 1 .. n : DigitValue(digits[k]) \in Int BY DigitIsValue
<1>2. step \in Steps(1 .. n, S)
  <2> HIDE DEF n
  <2> QED BY <1>1 DEF Steps
<1>3. PICK f \in [0 .. n -> S] : f[0] = 0 /\ \A k \in 1 .. n : f[k] = step[<<k, f[k - 1]>>]
  <2>1. n \in Nat /\ 0 \in S OBVIOUS
  <2> HIDE DEF step, n, S
  <2> QED BY <1>2, <2>1, BoundedRecursion
<1>4. \A k \in 1 .. n : f[k] = 10 * f[k - 1] + DigitValue(digits[k])
  <2> SUFFICES ASSUME NEW k \in 1 .. n PROVE f[k] = 10 * f[k - 1] + DigitValue(digits[k]) OBVIOUS
  <2>1. k - 1 \in 0 .. n BY <1>1
  <2>2. f[k - 1] \in Int BY <2>1
  <2>3. step[<<k, f[k - 1]>>] = 10 * f[k - 1] + DigitValue(digits[k]) BY <2>2
  <2> HIDE DEF step
  <2> QED BY <1>3, <2>3
<1> HIDE DEF step
<1>5. f = [k \in 0 .. n |-> IF k = 0 THEN 0 ELSE 10 * f[k - 1] + DigitValue(digits[k])]
  <2>1. \A k \in 0 .. n : f[k] = IF k = 0 THEN 0 ELSE 10 * f[k - 1] + DigitValue(digits[k]) BY <1>1, <1>3, <1>4
  <2> QED BY <2>1
<1>6. PICK g : /\ NumberOf(digits) = g[n]
               /\ g = CHOOSE h : h = [k \in 0 .. n |-> IF k = 0 THEN 0 ELSE 10 * h[k - 1] + DigitValue(digits[k])]
  BY DEF NumberOf
<1>7. g = [k \in 0 .. n |-> IF k = 0 THEN 0 ELSE 10 * g[k - 1] + DigitValue(digits[k])] BY <1>5, <1>6
<1>8. g[0] = 0 /\ \A k \in 1 .. n : g[k] = 10 * g[k - 1] + DigitValue(digits[k]) BY <1>1, <1>7
<1>9. \A k \in 0 .. n : g[k] \in Int
  <2> DEFINE T == {k \in 0 .. n : g[k] \in Int}
  <2>1. 0 \in T BY <1>1, <1>8
  <2>2. ASSUME NEW k \in 1 .. n, k - 1 \in T PROVE k \in T BY <2>2, <1>1, <1>8
  <2>3. 0 .. n \subseteq T
    <3> HIDE DEF T, n
    <3> QED BY <2>1, <2>2, <1>1, InductUpTo
  <2> QED BY <2>3
<1>10. g \in [0 .. n -> Int] BY <1>1, <1>7, <1>9
<1> QED BY <1>6, <1>8, <1>10

LEMMA Distributed == \A a, d, q \in Int : (10 * a + d) * q = a * (q * 10) + d * q
  BY SMTT(30)

\* parseInt computes the number that digits are.
LEMMA ParsedIsNumber ==
  ASSUME NEW digits \in Seq(Digit)
  PROVE  ParseInt(digits) = NumberOf(digits)
<1> DEFINE n == Len(digits)
           P == Powers(10)
<1>1. n \in Nat /\ \A k \in 1 .. n : DigitValue(digits[k]) \in Int BY DigitIsValue
<1>2. P \in [Nat -> Nat \ {0}] /\ P[0] = 1 /\ \A k \in Nat : P[k + 1] = P[k] * 10
  <2>1. 10 \in Nat \ {0} OBVIOUS
  <2> QED BY <2>1, PowersComputed
<1>3. PICK f \in [0 .. n -> Int] :
            /\ NumberOf(digits) = f[n] /\ f[0] = 0
            /\ \A k \in 1 .. n : f[k] = 10 * f[k - 1] + DigitValue(digits[k])
  BY NumberComputed
<1> HIDE DEF P
<1> DEFINE h == [k \in 0 .. n |-> f[k] * P[n - k]]
           Reads(g) == g = [k \in 0 .. n |-> IF k = 0 THEN 0 ELSE g[k - 1] + DigitValue(digits[k]) * P[n - k]]
<1>4. ASSUME NEW k \in 1 .. n PROVE h[k] = h[k - 1] + DigitValue(digits[k]) * P[n - k]
  <2> DEFINE a == f[k - 1]
             d == DigitValue(digits[k])
             q == P[n - k]
  <2>1. k - 1 \in 0 .. n /\ n - k \in Nat /\ n - (k - 1) = (n - k) + 1 BY <1>1
  <2>2. a \in Int /\ d \in Int /\ q \in Int
    <3>1. a \in Int BY <2>1
    <3>2. d \in Int BY <1>1
    <3>3. q \in Int
      <4> HIDE DEF h
      <4> QED BY <2>1, <1>2
    <3> QED BY <3>1, <3>2, <3>3
  <2>3. h[k - 1] = a * P[n - (k - 1)] /\ h[k] = f[k] * q BY <2>1
  <2>4. P[n - (k - 1)] = q * 10 BY <2>1, <1>2
  <2>5. f[k] = 10 * a + d BY <1>3
  <2> HIDE DEF a, d, q, h
  <2>6. h[k] = a * (q * 10) + d * q BY <2>2, <2>3, <2>5, Distributed
  <2>7. h[k] = h[k - 1] + d * q BY <2>3, <2>4, <2>6
  <2> QED BY <2>7 DEF d, q
<1>5. h[0] = 0
  <2>1. P[n - 0] \in Int /\ f[0] = 0 BY <1>1, <1>2, <1>3
  <2> QED BY <2>1, <1>1
<1>6. Reads(h)
  <2>1. \A k \in 0 .. n : h[k] = IF k = 0 THEN 0 ELSE h[k - 1] + DigitValue(digits[k]) * P[n - k]
    <3> HIDE DEF h
    <3> QED BY <1>1, <1>4, <1>5
  <2>2. h = [k \in 0 .. n |-> h[k]] OBVIOUS
  <2> HIDE DEF h
  <2> QED BY <2>1, <2>2
<1>7. PICK g : /\ ParseInt(digits) = g[n]
               /\ g = CHOOSE e : e = [k \in 0 .. n |->
                         IF k = 0 THEN 0 ELSE e[k - 1] + DigitValue(digits[k]) * Powers(10)[n - k]]
  BY DEF ParseInt
<1>8. Reads(g)
  <2> HIDE DEF h
  <2> QED BY <1>6, <1>7 DEF P
<1> HIDE DEF h
<1>9. g[n] = h[n]
  <2> DEFINE T == {k \in 0 .. n : g[k] = h[k]}
  <2>1. 0 \in T BY <1>1, <1>5, <1>8
  <2>2. ASSUME NEW k \in 1 .. n, k - 1 \in T PROVE k \in T BY <2>2, <1>1, <1>4, <1>8
  <2>3. 0 .. n \subseteq T
    <3> HIDE DEF T, n
    <3> QED BY <2>1, <2>2, <1>1, InductUpTo
  <2> QED BY <2>3, <1>1
<1>10. h[n] = f[n]
  <2>1. h[n] = f[n] * P[0] BY <1>1 DEF h
  <2>2. f[n] \in Int BY <1>1
  <2> QED BY <2>1, <2>2, <1>2
<1> QED BY <1>3, <1>7, <1>9, <1>10

-------------------------------------------------------------------------------
(* Sequences put together *)

\* Where each of them ends in the whole.
Ends(ss) == LET place[k \in 0 .. Len(ss)] == IF k = 0 THEN 0 ELSE place[k - 1] + Len(ss[k]) IN place

\* The places where sequences end are what their recursion says.
LEMMA EndsComputed ==
  ASSUME NEW ss, Len(ss) \in Nat, \A k \in 1 .. Len(ss) : Len(ss[k]) \in Nat
  PROVE  /\ Ends(ss) \in [0 .. Len(ss) -> Nat] /\ Ends(ss)[0] = 0
         /\ \A k \in 1 .. Len(ss) : Ends(ss)[k] = Ends(ss)[k - 1] + Len(ss[k])
<1> DEFINE n == Len(ss)
           S == Nat
           step == [p \in (1 .. n) \X S |-> p[2] + Len(ss[p[1]])]
           Reads(g) == g = [k \in 0 .. n |-> IF k = 0 THEN 0 ELSE g[k - 1] + Len(ss[k])]
<1>1. n \in Nat /\ \A k \in 1 .. n : Len(ss[k]) \in Nat OBVIOUS
<1> HIDE DEF n
<1>2. step \in Steps(1 .. n, S) BY <1>1 DEF Steps
<1>3. PICK f \in [0 .. n -> S] : f[0] = 0 /\ \A k \in 1 .. n : f[k] = step[<<k, f[k - 1]>>]
  <2>1. 0 \in S OBVIOUS
  <2> HIDE DEF step, S
  <2> QED BY <1>1, <1>2, <2>1, BoundedRecursion
<1>4. ASSUME NEW k \in 1 .. n PROVE f[k] = f[k - 1] + Len(ss[k])
  <2>1. k - 1 \in 0 .. n BY <1>1
  <2>2. f[k - 1] \in S BY <2>1
  <2>3. step[<<k, f[k - 1]>>] = f[k - 1] + Len(ss[k]) BY <2>2
  <2> HIDE DEF step
  <2> QED BY <1>3, <2>3
<1> HIDE DEF step
<1>5. Reads(f)
  <2>1. \A k \in 0 .. n : f[k] = IF k = 0 THEN 0 ELSE f[k - 1] + Len(ss[k]) BY <1>1, <1>3, <1>4
  <2> QED BY <2>1
<1>6. PICK g : /\ Ends(ss) = g
               /\ g = CHOOSE h : h = [k \in 0 .. n |-> IF k = 0 THEN 0 ELSE h[k - 1] + Len(ss[k])]
  BY DEF Ends, n
<1>7. Reads(g) BY <1>5, <1>6
<1>8. g[0] = 0 /\ \A k \in 1 .. n : g[k] = g[k - 1] + Len(ss[k]) BY <1>1, <1>7
<1>9. \A k \in 0 .. n : g[k] \in Nat
  <2> DEFINE T == {k \in 0 .. n : g[k] \in Nat}
  <2>1. 0 \in T BY <1>1, <1>8
  <2>2. ASSUME NEW k \in 1 .. n, k - 1 \in T PROVE k \in T
    <3>1. g[k - 1] \in Nat /\ k \in 0 .. n BY <2>2, <1>1
    <3>2. g[k] = g[k - 1] + Len(ss[k]) BY <1>8
    <3>3. Len(ss[k]) \in Nat BY <1>1
    <3>4. g[k] \in Nat
      <4> HIDE DEF T
      <4> QED BY <3>1, <3>2, <3>3
    <3> QED BY <3>1, <3>4
  <2>3. 0 .. n \subseteq T
    <3> HIDE DEF T
    <3> QED BY <2>1, <2>2, <1>1, InductUpTo
  <2> QED BY <2>3
<1>10. g \in [0 .. n -> Nat] BY <1>1, <1>7, <1>9
<1> QED BY <1>6, <1>8, <1>10 DEF n

\* A sequence ends behind the ones before it.
LEMMA EndsOrdered ==
  ASSUME NEW ss, Len(ss) \in Nat, \A k \in 1 .. Len(ss) : Len(ss[k]) \in Nat,
         NEW m \in 0 .. Len(ss)
  PROVE  \A k \in 0 .. m : Ends(ss)[k] <= Ends(ss)[m]
<1> DEFINE n == Len(ss)
           o == Ends(ss)
           T == {j \in 0 .. n : \A k \in 0 .. j : o[k] <= o[j]}
<1>1. /\ o \in [0 .. n -> Nat] /\ o[0] = 0
      /\ \A k \in 1 .. n : o[k] = o[k - 1] + Len(ss[k])
  BY EndsComputed
<1>2. n \in Nat /\ \A k \in 1 .. n : Len(ss[k]) \in Nat OBVIOUS
<1> HIDE DEF n, o
<1>3. 0 \in T BY <1>1, <1>2
<1>4. ASSUME NEW j \in 1 .. n, j - 1 \in T PROVE j \in T
  <2>1. j - 1 \in 0 .. n /\ o[j - 1] \in Nat /\ o[j] \in Nat /\ o[j - 1] <= o[j]
    <3> HIDE DEF T
    <3>1. j - 1 \in 0 .. n /\ j \in 0 .. n BY <1>2
    <3>2. o[j - 1] \in Nat /\ o[j] \in Nat BY <3>1, <1>1
    <3>3. o[j] = o[j - 1] + Len(ss[j]) /\ Len(ss[j]) \in Nat BY <1>1, <1>2
    <3> QED BY <3>1, <3>2, <3>3
  <2>2. ASSUME NEW k \in 0 .. j PROVE o[k] <= o[j]
    <3>1. CASE k = j BY <3>1, <2>1
    <3>2. CASE k # j
      <4>1. k \in 0 .. j - 1 BY <3>2
      <4>2. o[k] <= o[j - 1] /\ o[k] \in Nat BY <4>1, <1>4, <1>1, <1>2
      <4> QED BY <4>2, <2>1
    <3> QED BY <3>1, <3>2
  <2> QED BY <2>2
<1>5. 0 .. n \subseteq T
  <2> HIDE DEF T
  <2> QED BY <1>2, <1>3, <1>4, InductUpTo
<1> QED BY <1>5 DEF n, o

\* Joined, two sequences stand one behind the other.
LEMMA JoinedAt ==
  ASSUME NEW S, NEW s \in Seq(S), NEW t \in Seq(S)
  PROVE  /\ s \o t \in Seq(S) /\ Len(s) \in Nat /\ Len(t) \in Nat /\ Len(s \o t) = Len(s) + Len(t)
         /\ \A k \in 1 .. Len(s) : (s \o t)[k] = s[k]
         /\ \A k \in 1 .. Len(t) : (s \o t)[Len(s) + k] = t[k]
  OBVIOUS

\* Every character of the whole is one of its sequence.
LEMMA Flattened ==
  ASSUME NEW S, NEW ss \in Seq(Seq(S))
  PROVE  /\ FlattenSeq(ss) \in Seq(S)
         /\ Len(FlattenSeq(ss)) = Ends(ss)[Len(ss)]
         /\ \A k \in 1 .. Len(ss) : \A j \in 1 .. Len(ss[k]) : FlattenSeq(ss)[Ends(ss)[k - 1] + j] = ss[k][j]
<1> DEFINE n == Len(ss)
           o == Ends(ss)
<1>1. n \in Nat /\ \A k \in 1 .. n : ss[k] \in Seq(S) /\ Len(ss[k]) \in Nat OBVIOUS
<1>2. /\ o \in [0 .. n -> Nat] /\ o[0] = 0
      /\ \A k \in 1 .. n : o[k] = o[k - 1] + Len(ss[k])
  BY <1>1, EndsComputed
<1>3. CASE n = 0
  <2>1. ss = <<>> /\ FlattenSeq(ss) = ss BY <1>3 DEF FlattenSeq
  <2> QED BY <2>1, <1>2, <1>3
<1>4. CASE n # 0
  <2> DEFINE SS == Seq(S)
             step == [p \in (1 .. n) \X SS |-> p[2] \o ss[p[1]]]
             Reads(g) == g = [k \in 1 .. n |-> IF k = 1 THEN ss[k] ELSE g[k - 1] \o ss[k]]
  <2> HIDE DEF n, o
  <2>1. step \in Steps(1 .. n, SS) BY <1>1 DEF Steps
  <2>2. PICK f \in [0 .. n -> SS] : f[0] = <<>> /\ \A k \in 1 .. n : f[k] = step[<<k, f[k - 1]>>]
    <3>1. <<>> \in SS /\ n \in Nat BY <1>1
    <3> HIDE DEF step, SS
    <3> QED BY <2>1, <3>1, BoundedRecursion
  <2>3. ASSUME NEW k \in 1 .. n PROVE f[k] = f[k - 1] \o ss[k]
    <3>1. k - 1 \in 0 .. n BY <1>1
    <3>2. f[k - 1] \in SS BY <3>1
    <3>3. step[<<k, f[k - 1]>>] = f[k - 1] \o ss[k] BY <3>2
    <3> HIDE DEF step
    <3> QED BY <2>2, <3>3
  <2> HIDE DEF step
  <2> DEFINE e == [k \in 1 .. n |-> f[k]]
  <2>4. Reads(e)
    <3>1. ASSUME NEW k \in 1 .. n PROVE e[k] = IF k = 1 THEN ss[k] ELSE e[k - 1] \o ss[k]
      <4>1. CASE k = 1
        <5>1. f[1] = f[0] \o ss[1]
          <6>1. f[k] = f[k - 1] \o ss[k] BY <2>3
          <6>2. k - 1 = 0 BY <4>1
          <6> QED BY <6>1, <6>2, <4>1
        <5>2. <<>> \o ss[1] = ss[1] BY <4>1, <1>1
        <5> QED BY <4>1, <5>1, <5>2, <2>2
      <4>2. CASE k # 1
        <5>1. k - 1 \in 1 .. n BY <4>2, <1>1
        <5> QED BY <4>2, <5>1, <2>3
      <4> QED BY <4>1, <4>2
    <3>2. e = [k \in 1 .. n |-> e[k]] OBVIOUS
    <3> HIDE DEF e
    <3> QED BY <3>1, <3>2
  <2>5. PICK g : /\ FlattenSeq(ss) = g[n]
                 /\ g = CHOOSE h : h = [k \in 1 .. n |-> IF k = 1 THEN ss[k] ELSE h[k - 1] \o ss[k]]
    BY <1>4 DEF FlattenSeq, n
  <2>6. Reads(g)
    <3> HIDE DEF e
    <3> QED BY <2>4, <2>5
  <2> DEFINE Fits1(k) == /\ g[k] \in Seq(S) /\ Len(g[k]) = o[k]
                         /\ \A m \in 1 .. k : \A j \in 1 .. Len(ss[m]) : g[k][o[m - 1] + j] = ss[m][j]
             T == {k \in 0 .. n : k # 0 => Fits1(k)}
  <2>7. 0 \in T BY <1>1
  <2>8. ASSUME NEW k \in 1 .. n, k - 1 \in T PROVE k \in T
    <3>1. CASE k = 1
      <4>1. g[1] = ss[1] /\ o[1] = Len(ss[1]) BY <3>1, <2>6, <1>1, <1>2
      <4>2. ss[1] \in Seq(S) BY <3>1, <1>1
      <4>3. \A m \in 1 .. 1 : \A j \in 1 .. Len(ss[m]) : g[1][o[m - 1] + j] = ss[m][j]
        <5> SUFFICES ASSUME NEW j \in 1 .. Len(ss[1]) PROVE g[1][o[1 - 1] + j] = ss[1][j] OBVIOUS
        <5>1. o[1 - 1] + j = j BY <1>2, <4>2
        <5> QED BY <4>1, <5>1
      <4>4. Fits1(1) BY <4>1, <4>2, <4>3
      <4>5. k \in 0 .. n BY <1>1
      <4> HIDE DEF Fits1
      <4> QED BY <3>1, <4>4, <4>5
    <3>2. CASE k # 1
      <4>1. k - 1 \in 1 .. n /\ Fits1(k - 1) BY <2>8, <3>2, <1>1
      <4>2. g[k] = g[k - 1] \o ss[k] BY <2>6, <3>2
      <4>3. g[k - 1] \in Seq(S) /\ Len(g[k - 1]) = o[k - 1] /\ ss[k] \in Seq(S) BY <4>1, <1>1
      <4>4. /\ g[k] \in Seq(S) /\ Len(g[k]) = o[k - 1] + Len(ss[k])
            /\ \A j \in 1 .. o[k - 1] : g[k][j] = g[k - 1][j]
            /\ \A j \in 1 .. Len(ss[k]) : g[k][o[k - 1] + j] = ss[k][j]
        <5> HIDE DEF T, Reads, Fits1
        <5>1. PICK s \in Seq(S) : s = g[k - 1] BY <4>3
        <5>2. PICK t \in Seq(S) : t = ss[k] BY <4>3
        <5>3. /\ s \o t \in Seq(S) /\ Len(s) \in Nat /\ Len(t) \in Nat /\ Len(s \o t) = Len(s) + Len(t)
              /\ \A x \in 1 .. Len(s) : (s \o t)[x] = s[x]
              /\ \A x \in 1 .. Len(t) : (s \o t)[Len(s) + x] = t[x]
          BY JoinedAt
        <5>4. Len(s) = o[k - 1] /\ g[k] = s \o t BY <4>2, <4>3, <5>1, <5>2
        <5>5. \A x \in 1 .. o[k - 1] : g[k][x] = s[x] BY <5>3, <5>4
        <5>6. \A x \in 1 .. Len(t) : g[k][o[k - 1] + x] = t[x] BY <5>3, <5>4
        <5> QED BY <5>1, <5>2, <5>3, <5>4, <5>5, <5>6
      <4>5. ASSUME NEW m \in 1 .. k, NEW j \in 1 .. Len(ss[m]) PROVE g[k][o[m - 1] + j] = ss[m][j]
        <5>1. CASE m = k BY <5>1, <4>4
        <5>2. CASE m # k
          <6>1. m \in 1 .. k - 1 /\ m \in 1 .. n /\ m \in 0 .. n /\ m - 1 \in 0 .. n /\ k - 1 \in 0 .. n
            BY <5>2, <1>1
          <6>2. o[m] <= o[k - 1] /\ o[m] = o[m - 1] + Len(ss[m]) /\ o[m - 1] \in Nat /\ o[k - 1] \in Nat
            <7>1. \A x \in 0 .. k - 1 : o[x] <= o[k - 1] BY <6>1, <1>1, EndsOrdered DEF o, n
            <7>2. o[m] <= o[k - 1]
              <8> HIDE DEF T, Fits1, Reads
              <8>1. m \in 0 .. k - 1 BY <6>1
              <8> QED BY <7>1, <8>1
            <7>3. o[m] = o[m - 1] + Len(ss[m]) BY <6>1, <1>2
            <7>4. o[m - 1] \in Nat /\ o[k - 1] \in Nat
              <8> HIDE DEF T, Fits1, Reads
              <8> QED BY <6>1, <1>2
            <7> QED BY <7>2, <7>3, <7>4
          <6>3. o[m - 1] + j \in 1 .. o[k - 1]
            <7> HIDE DEF T, Fits1, Reads
            <7> DEFINE a == o[m - 1]
                       b == o[k - 1]
                       l == Len(ss[m])
            <7>1. l \in Nat BY <6>1, <1>1
            <7>2. j \in Nat /\ 1 <= j /\ j <= l BY <7>1
            <7>3. a \in Nat /\ b \in Nat /\ a + l <= b BY <6>2
            <7> HIDE DEF a, b, l
            <7>4. a + j \in 1 .. b BY <7>1, <7>2, <7>3
            <7> QED BY <7>4 DEF a, b
          <6>4. g[k - 1][o[m - 1] + j] = ss[m][j] BY <4>1, <6>1
          <6> HIDE DEF T, Reads, Fits1
          <6> QED BY <4>4, <6>3, <6>4
        <5> QED BY <5>1, <5>2
      <4>6. Len(g[k]) = o[k] BY <4>4, <1>2
      <4> QED BY <4>4, <4>5, <4>6
    <3> QED BY <3>1, <3>2
  <2>9. 0 .. n \subseteq T
    <3> HIDE DEF T
    <3> QED BY <2>7, <2>8, <1>1, InductUpTo
  <2>10. Fits1(n) BY <2>9, <1>1, <1>4
  <2> HIDE DEF Reads, T
  <2> QED BY <2>5, <2>10 DEF n, o
<1> QED BY <1>3, <1>4

-------------------------------------------------------------------------------
(* How a directive is spelled *)

\* How many of its characters come before its width, its point and so on.
BeforeWidth(p) == 1 + Len(p.flags)
BeforePoint(p) == BeforeWidth(p) + Len(p.width.spelled)
BeforePrecision(p) == BeforePoint(p) + IF p.point THEN 1 ELSE 0
BeforeModifier(p) == BeforePrecision(p) + IF p.point THEN Len(p.precision.spelled) ELSE 0
BeforeEnd(p) == BeforeModifier(p) + Len(p.modifier)

CharsOf(p) ==
    {"%", ".", "*", "h", "l"} \cup LastModifiers \cup Flag \cup Digit \cup ToSet(p.chars)

\* What spells a number, or a modifier, are characters of its directive.
LEMMA NumberTyped ==
  ASSUME NEW n, IsNumber(n), NEW S, Digit \cup {"*"} \subseteq S
  PROVE  n.spelled \in Seq(S) /\ n.value \in IntRange
<1>1. CASE Starred(n)
  <2>1. n.spelled = <<"*">> /\ "*" \in S BY <1>1 DEF Starred
  <2> QED BY <2>1 DEF IsNumber
<1>2. CASE ~Starred(n)
  <2>1. n.spelled \in Seq(Digit) BY <1>2 DEF IsNumber
  <2> QED BY <2>1 DEF IsNumber
<1> QED BY <1>1, <1>2

LEMMA ModifierTyped ==
  ASSUME NEW m \in Modifiers, NEW S, {"h", "l"} \cup LastModifiers \subseteq S
  PROVE  m \in Seq(S)
<1>1. CASE m \in {<<c>> : c \in LastModifiers}
  <2>1. PICK c \in LastModifiers : m = <<c>> BY <1>1
  <2>2. c \in S OBVIOUS
  <2> QED BY <2>1, <2>2
<1>2. CASE m \in {<<>>, <<"h">>, <<"h", "h">>, <<"l">>, <<"l", "l">>}
  <2>1. "h" \in S /\ "l" \in S OBVIOUS
  <2>2. <<>> \in Seq(S) OBVIOUS
  <2>3. <<"h">> \in Seq(S) /\ <<"l">> \in Seq(S) BY <2>1
  <2>4. <<"h", "h">> \in Seq(S) BY <2>1
  <2>5. <<"l", "l">> \in Seq(S) BY <2>1
  <2> QED BY <1>2, <2>2, <2>3, <2>4, <2>5
<1> QED BY <1>1, <1>2 DEF Modifiers

\* A directive's parts are sequences, and none has the terminator.
LEMMA DirectiveTyped ==
  ASSUME NEW p, IsDirective(p)
  PROVE  LET S == CharsOf(p) IN
         /\ p.flags \in Seq(S) /\ p.width.spelled \in Seq(S) /\ p.precision.spelled \in Seq(S)
         /\ p.modifier \in Seq(S) /\ p.chars \in Seq(S) /\ "%" \in S /\ "." \in S /\ End \notin S
<1> DEFINE S == CharsOf(p)
<1>1. /\ Flag \subseteq S /\ Digit \cup {"*"} \subseteq S /\ {"h", "l"} \cup LastModifiers \subseteq S
      /\ ToSet(p.chars) \subseteq S /\ "%" \in S /\ "." \in S
  BY DEF CharsOf
<1> HIDE DEF S
<1>2. p.flags \in Seq(S) BY <1>1 DEF IsDirective
<1>3. p.width.spelled \in Seq(S) /\ p.precision.spelled \in Seq(S)
  BY <1>1, NumberTyped DEF IsDirective
<1>4. p.modifier \in Seq(S) BY <1>1, ModifierTyped DEF IsDirective
<1>5. p.chars \in Seq(S) /\ End \notin ToSet(p.chars)
  <2>1. CASE p.conv \in Conversions /\ p.chars = <<p.conv>>
    <3>1. ToSet(p.chars) = {p.conv} BY <2>1 DEF ToSet
    <3>2. p.conv \in S BY <1>1, <3>1
    <3> QED BY <2>1, <3>1, <3>2 DEF Conversions, End
  <2>2. CASE p.chars \in Seq(ToSet(p.chars)) /\ End \notin ToSet(p.chars) BY <2>2, <1>1
  <2> QED BY <2>1, <2>2 DEF IsDirective
<1>6. End \notin Digit BY DEF End, Digit, Numerals, ToSet
<1>7. End \notin S BY <1>5, <1>6 DEF S, CharsOf, End, LastModifiers, Flag
<1> QED BY <1>1, <1>2, <1>3, <1>4, <1>5, <1>7 DEF S

\* Where the parts of a directive stand in it.
LEMMA SpelledAt ==
  ASSUME NEW p, IsDirective(p), p.conv # "text"
  PROVE  /\ Spell(p) \in Seq(CharsOf(p)) /\ Len(Spell(p)) = BeforeEnd(p) + Len(p.chars)
         /\ Spell(p)[1] = "%"
         /\ \A k \in 1 .. Len(p.flags) : Spell(p)[1 + k] = p.flags[k]
         /\ \A k \in 1 .. Len(p.width.spelled) : Spell(p)[BeforeWidth(p) + k] = p.width.spelled[k]
         /\ p.point => /\ Spell(p)[BeforePoint(p) + 1] = "."
                       /\ \A k \in 1 .. Len(p.precision.spelled) :
                             Spell(p)[BeforePrecision(p) + k] = p.precision.spelled[k]
         /\ \A k \in 1 .. Len(p.modifier) : Spell(p)[BeforeModifier(p) + k] = p.modifier[k]
         /\ \A k \in 1 .. Len(p.chars) : Spell(p)[BeforeEnd(p) + k] = p.chars[k]
<1> DEFINE S == CharsOf(p)
           f == p.flags
           w == p.width.spelled
           d == p.precision.spelled
           m == p.modifier
           c == p.chars
           r == IF p.point THEN <<".">> \o d ELSE <<>>
           s1 == <<"%">> \o f
           s2 == s1 \o w
           s3 == s2 \o r
           s4 == s3 \o m
           s == s4 \o c
<1>1. f \in Seq(S) /\ w \in Seq(S) /\ d \in Seq(S) /\ m \in Seq(S) /\ c \in Seq(S) /\ "%" \in S /\ "." \in S
  BY DirectiveTyped
<1>2. s = Spell(p) BY DEF Spell
<1>3. p.point \in BOOLEAN BY DEF IsDirective
<1> HIDE DEF S, f, w, d, m, c, s1, s2, s3, s4, s
<1>4. /\ r \in Seq(S) /\ Len(r) = IF p.point THEN 1 + Len(d) ELSE 0
      /\ p.point => r[1] = "." /\ \A k \in 1 .. Len(d) : r[1 + k] = d[k]
  <2>1. CASE p.point
    <3>1. <<".">> \in Seq(S) /\ Len(<<".">>) = 1 /\ <<".">>[1] = "." BY <1>1
    <3>2. r = <<".">> \o d BY <2>1
    <3> HIDE DEF r
    <3> QED BY <1>1, <2>1, <3>1, <3>2
  <2>2. CASE ~p.point BY <2>2
  <2> QED BY <2>1, <2>2, <1>3
<1> HIDE DEF r
<1>5. /\ s1 \in Seq(S) /\ Len(s1) = 1 + Len(f) /\ s1[1] = "%" /\ \A k \in 1 .. Len(f) : s1[1 + k] = f[k]
  <2>1. <<"%">> \in Seq(S) /\ Len(<<"%">>) = 1 /\ <<"%">>[1] = "%" BY <1>1
  <2> QED BY <1>1, <2>1 DEF s1
<1>6. /\ s2 \in Seq(S) /\ Len(s2) = Len(s1) + Len(w) /\ \A k \in 1 .. Len(s1) : s2[k] = s1[k]
      /\ \A k \in 1 .. Len(w) : s2[Len(s1) + k] = w[k]
  <2>1. s1 \in Seq(S) /\ w \in Seq(S) BY <1>1, <1>5
  <2>2. /\ s1 \o w \in Seq(S) /\ Len(s1 \o w) = Len(s1) + Len(w)
        /\ \A k \in 1 .. Len(s1) : (s1 \o w)[k] = s1[k]
        /\ \A k \in 1 .. Len(w) : (s1 \o w)[Len(s1) + k] = w[k]
    BY <2>1
  <2> QED BY <2>2 DEF s2
<1>7. /\ s3 \in Seq(S) /\ Len(s3) = Len(s2) + Len(r) /\ \A k \in 1 .. Len(s2) : s3[k] = s2[k]
      /\ \A k \in 1 .. Len(r) : s3[Len(s2) + k] = r[k]
  <2>1. s2 \in Seq(S) /\ r \in Seq(S) BY <1>4, <1>6
  <2>2. /\ s2 \o r \in Seq(S) /\ Len(s2 \o r) = Len(s2) + Len(r)
        /\ \A k \in 1 .. Len(s2) : (s2 \o r)[k] = s2[k]
        /\ \A k \in 1 .. Len(r) : (s2 \o r)[Len(s2) + k] = r[k]
    BY <2>1
  <2> QED BY <2>2 DEF s3
<1>8. /\ s4 \in Seq(S) /\ Len(s4) = Len(s3) + Len(m) /\ \A k \in 1 .. Len(s3) : s4[k] = s3[k]
      /\ \A k \in 1 .. Len(m) : s4[Len(s3) + k] = m[k]
  <2>1. s3 \in Seq(S) /\ m \in Seq(S) BY <1>1, <1>7
  <2>2. /\ s3 \o m \in Seq(S) /\ Len(s3 \o m) = Len(s3) + Len(m)
        /\ \A k \in 1 .. Len(s3) : (s3 \o m)[k] = s3[k]
        /\ \A k \in 1 .. Len(m) : (s3 \o m)[Len(s3) + k] = m[k]
    BY <2>1
  <2> QED BY <2>2 DEF s4
<1>9. /\ s \in Seq(S) /\ Len(s) = Len(s4) + Len(c) /\ \A k \in 1 .. Len(s4) : s[k] = s4[k]
      /\ \A k \in 1 .. Len(c) : s[Len(s4) + k] = c[k]
  <2>1. s4 \in Seq(S) /\ c \in Seq(S) BY <1>1, <1>8
  <2>2. /\ s4 \o c \in Seq(S) /\ Len(s4 \o c) = Len(s4) + Len(c)
        /\ \A k \in 1 .. Len(s4) : (s4 \o c)[k] = s4[k]
        /\ \A k \in 1 .. Len(c) : (s4 \o c)[Len(s4) + k] = c[k]
    BY <2>1
  <2> QED BY <2>2 DEF s
<1>10. Len(f) \in Nat /\ Len(w) \in Nat /\ Len(d) \in Nat /\ Len(m) \in Nat /\ Len(c) \in Nat /\ Len(r) \in Nat
  BY <1>1, <1>4
<1>11. /\ Len(s1) = BeforeWidth(p) /\ Len(s2) = BeforePoint(p) /\ Len(s3) = BeforeModifier(p)
       /\ Len(s4) = BeforeEnd(p)
  <2>1. Len(s1) = 1 + Len(f) /\ Len(s2) = Len(s1) + Len(w) BY <1>5, <1>6
  <2>2. Len(s3) = Len(s2) + (IF p.point THEN 1 + Len(d) ELSE 0) BY <1>4, <1>7
  <2>3. Len(s4) = Len(s3) + Len(m) BY <1>8
  <2>4. BeforeWidth(p) = Len(s1) BY <2>1 DEF BeforeWidth, f
  <2>5. BeforePoint(p) = Len(s2) BY <2>1, <2>4 DEF BeforePoint, w
  <2>6. BeforeModifier(p) = Len(s3)
    <3>1. Len(s2) \in Nat BY <1>10, <2>1
    <3>2. BeforePrecision(p) = Len(s2) + IF p.point THEN 1 ELSE 0 BY <2>5 DEF BeforePrecision
    <3>3. BeforeModifier(p) = BeforePrecision(p) + IF p.point THEN Len(d) ELSE 0 BY DEF BeforeModifier, d
    <3> QED BY <1>3, <1>10, <2>2, <3>1, <3>2, <3>3
  <2>7. BeforeEnd(p) = Len(s4) BY <2>3, <2>6 DEF BeforeEnd, m
  <2> QED BY <2>4, <2>5, <2>6, <2>7
<1>12. \A k \in 1 .. Len(s3) : s[k] = s3[k] BY <1>8, <1>9, <1>10
<1>13. \A k \in 1 .. Len(s2) : s[k] = s2[k] BY <1>7, <1>10, <1>12
<1>14. \A k \in 1 .. Len(s1) : s[k] = s1[k] BY <1>6, <1>10, <1>13
<1>15. s[1] = "%" /\ \A k \in 1 .. Len(f) : s[1 + k] = f[k] BY <1>5, <1>10, <1>14
<1>16. \A k \in 1 .. Len(w) : s[Len(s1) + k] = w[k]
  <2> SUFFICES ASSUME NEW k \in 1 .. Len(w) PROVE s[Len(s1) + k] = w[k] OBVIOUS
  <2>1. Len(s1) + k \in 1 .. Len(s2) BY <1>10, <1>5, <1>6
  <2>2. s[Len(s1) + k] = s2[Len(s1) + k] BY <2>1, <1>13
  <2> QED BY <2>2, <1>6
<1>17. \A k \in 1 .. Len(r) : s[Len(s2) + k] = r[k]
  <2> SUFFICES ASSUME NEW k \in 1 .. Len(r) PROVE s[Len(s2) + k] = r[k] OBVIOUS
  <2>1. Len(s2) + k \in 1 .. Len(s3) BY <1>10, <1>6, <1>7
  <2>2. s[Len(s2) + k] = s3[Len(s2) + k] BY <2>1, <1>12
  <2> QED BY <2>2, <1>7
<1>18. \A k \in 1 .. Len(m) : s[Len(s3) + k] = m[k]
  <2> SUFFICES ASSUME NEW k \in 1 .. Len(m) PROVE s[Len(s3) + k] = m[k] OBVIOUS
  <2>1. Len(s3) + k \in 1 .. Len(s4) BY <1>10, <1>7, <1>8
  <2>2. s[Len(s3) + k] = s4[Len(s3) + k] BY <2>1, <1>9
  <2> QED BY <2>2, <1>8
<1>19. ASSUME p.point
       PROVE  s[Len(s2) + 1] = "." /\ \A k \in 1 .. Len(d) : s[BeforePrecision(p) + k] = d[k]
  <2>1. r[1] = "." /\ Len(r) = 1 + Len(d) /\ \A k \in 1 .. Len(d) : r[1 + k] = d[k] BY <1>4, <1>19
  <2>2. s[Len(s2) + 1] = r[1] BY <1>10, <1>17, <2>1
  <2>3. ASSUME NEW k \in 1 .. Len(d) PROVE s[BeforePrecision(p) + k] = d[k]
    <3>1. 1 + k \in 1 .. Len(r) BY <2>1, <1>10
    <3>2. s[Len(s2) + (1 + k)] = r[1 + k] BY <3>1, <1>17
    <3>3. Len(s2) + (1 + k) = BeforePrecision(p) + k
      <4>1. BeforePrecision(p) = Len(s2) + 1 BY <1>11, <1>19 DEF BeforePrecision
      <4>2. Len(s2) \in Nat BY <1>5, <1>6, <1>10
      <4> QED BY <4>1, <4>2
    <3> QED BY <2>1, <3>2, <3>3
  <2> QED BY <2>1, <2>2, <2>3
<1>20. s \in Seq(S) /\ Len(s) = BeforeEnd(p) + Len(c) BY <1>9, <1>11
<1> QED BY <1>2, <1>9, <1>11, <1>15, <1>16, <1>18, <1>19, <1>20 DEF S, f, w, d, m, c

CharOf(s, k) == IF k > Len(s) THEN End ELSE s[k]

LEMMA DigitsAre == Digit = {"0", "1", "2", "3", "4", "5", "6", "7", "8", "9"}
<1>1. DOMAIN Numerals = 1 .. 10 BY DEF Numerals
<1>2. /\ Numerals[1] = "0" /\ Numerals[2] = "1" /\ Numerals[3] = "2" /\ Numerals[4] = "3"
      /\ Numerals[5] = "4" /\ Numerals[6] = "5" /\ Numerals[7] = "6" /\ Numerals[8] = "7"
      /\ Numerals[9] = "8" /\ Numerals[10] = "9"
  BY DEF Numerals
<1>3. Digit = {Numerals[k] : k \in 1 .. 10} BY <1>1 DEF Digit, ToSet
<1>4. \A k \in 1 .. 10 : k \in {1, 2, 3, 4, 5, 6, 7, 8, 9, 10} OBVIOUS
<1> QED BY <1>2, <1>3, <1>4

\* What follows a directive's last modifier is no character its loops would take.
LEMMA EndsThere ==
  ASSUME NEW p, IsDirective(p), p.conv # "text"
  PROVE  /\ First(p.chars) \notin Continues(p)
         /\ p.conv \in Conversions => First(p.chars) = p.conv
         /\ p.conv \notin Conversions => p.conv = "bad" /\ First(p.chars) \notin Conversions
<1>1. CASE p.conv \in Conversions /\ p.chars = <<p.conv>>
  <2>1. First(p.chars) = p.conv BY <1>1 DEF First
  <2>2. Continues(p) \subseteq {"h", "l", "*", ".", "%"} \cup LastModifiers \cup Digit \cup Flag
    <3>1. OfModifier(p.modifier) \subseteq {"h", "l"} \cup LastModifiers BY DEF OfModifier
    <3>2. OfNumber(p.precision) \subseteq {"*"} \cup Digit BY DEF OfNumber
    <3>3. OfNumber(p.width) \subseteq {"*"} \cup Digit BY DEF OfNumber
    <3> QED BY <3>1, <3>2, <3>3 DEF Continues
  <2>3. p.conv \notin {"h", "l", "*", ".", "%"} \cup LastModifiers \cup Digit \cup Flag
    BY <1>1, DigitsAre DEF Conversions, LastModifiers, Flag
  <2> QED BY <1>1, <2>1, <2>2, <2>3
<1>2. CASE p.conv = "bad" /\ First(p.chars) \notin Conversions \cup Continues(p)
  BY <1>2 DEF Conversions
<1> QED BY <1>1, <1>2 DEF IsDirective

\* The first of characters of S is one of them, if there is one.
LEMMA FirstOf ==
  ASSUME NEW S, NEW s \in Seq(S)
  PROVE  /\ s # <<>> => Len(s) >= 1 /\ First(s) = s[1] /\ s[1] \in S
         /\ s = <<>> => Len(s) = 0 /\ First(s) = End
  BY DEF First

Letters == {"h", "l"} \cup LastModifiers

\* Which character comes first where a part of a directive begins.
LEMMA FirstAt ==
  ASSUME NEW p, IsDirective(p), p.conv # "text"
  PROVE  LET Ch(k) == CharOf(Spell(p), k + 1) IN
         /\ Ch(BeforeEnd(p)) = First(p.chars)
         /\ Ch(BeforeModifier(p)) = IF p.modifier = <<>> THEN First(p.chars) ELSE p.modifier[1]
         /\ p.point => Ch(BeforePrecision(p)) =
               IF p.precision.spelled = <<>> THEN Ch(BeforeModifier(p)) ELSE p.precision.spelled[1]
         /\ Ch(BeforePoint(p)) = IF p.point THEN "." ELSE Ch(BeforeModifier(p))
         /\ Ch(BeforeWidth(p)) = IF p.width.spelled = <<>> THEN Ch(BeforePoint(p)) ELSE p.width.spelled[1]
         /\ Ch(1) = IF p.flags = <<>> THEN Ch(BeforeWidth(p)) ELSE p.flags[1]
<1> DEFINE S == CharsOf(p)
           s == Spell(p)
           f == p.flags
           w == p.width.spelled
           d == p.precision.spelled
           m == p.modifier
           c == p.chars
           Ch(k) == CharOf(s, k + 1)
<1>1. f \in Seq(S) /\ w \in Seq(S) /\ d \in Seq(S) /\ m \in Seq(S) /\ c \in Seq(S)
  BY DirectiveTyped
<1>2. /\ Len(s) = BeforeEnd(p) + Len(c)
      /\ \A k \in 1 .. Len(f) : s[1 + k] = f[k]
      /\ \A k \in 1 .. Len(w) : s[BeforeWidth(p) + k] = w[k]
      /\ p.point => /\ s[BeforePoint(p) + 1] = "."
                    /\ \A k \in 1 .. Len(d) : s[BeforePrecision(p) + k] = d[k]
      /\ \A k \in 1 .. Len(m) : s[BeforeModifier(p) + k] = m[k]
      /\ \A k \in 1 .. Len(c) : s[BeforeEnd(p) + k] = c[k]
  BY SpelledAt
<1>3. p.point \in BOOLEAN BY DEF IsDirective
<1>4. Len(f) \in Nat /\ Len(w) \in Nat /\ Len(d) \in Nat /\ Len(m) \in Nat /\ Len(c) \in Nat
  BY <1>1
<1>5. /\ BeforeWidth(p) = 1 + Len(f) /\ BeforePoint(p) = BeforeWidth(p) + Len(w)
      /\ p.point => BeforePrecision(p) = BeforePoint(p) + 1 /\ BeforeModifier(p) = BeforePrecision(p) + Len(d)
      /\ ~p.point => BeforeModifier(p) = BeforePoint(p)
      /\ BeforeEnd(p) = BeforeModifier(p) + Len(m)
  <2>1. BeforeWidth(p) = 1 + Len(f) /\ BeforePoint(p) = BeforeWidth(p) + Len(w) /\ BeforeEnd(p) = BeforeModifier(p) + Len(m)
    BY DEF BeforeWidth, BeforePoint, BeforeEnd
  <2>2. BeforePoint(p) \in Nat
    <3> HIDE DEF f, w, d, m, c
    <3> QED BY <2>1, <1>4
  <2>3. p.point => BeforePrecision(p) = BeforePoint(p) + 1 /\ BeforeModifier(p) = BeforePrecision(p) + Len(d)
    BY DEF BeforePrecision, BeforeModifier
  <2>4. ~p.point => BeforeModifier(p) = BeforePoint(p)
    BY <2>2 DEF BeforePrecision, BeforeModifier
  <2> QED BY <2>1, <2>3, <2>4
<1>6. /\ f # <<>> => Len(f) >= 1
      /\ w # <<>> => Len(w) >= 1
      /\ d # <<>> => Len(d) >= 1
      /\ m # <<>> => Len(m) >= 1
      /\ c # <<>> => Len(c) >= 1 /\ First(c) = c[1]
      /\ c = <<>> => First(c) = End
  BY <1>1, FirstOf
<1>7. /\ f = <<>> => Len(f) = 0
      /\ w = <<>> => Len(w) = 0
      /\ d = <<>> => Len(d) = 0
      /\ m = <<>> => Len(m) = 0
      /\ c = <<>> => Len(c) = 0
  OBVIOUS
<1> HIDE DEF S, s, f, w, d, m, c
<1>8. BeforeWidth(p) \in Nat /\ BeforePoint(p) \in Nat /\ BeforeModifier(p) \in Nat /\ BeforeEnd(p) \in Nat
  BY <1>3, <1>4, <1>5
<1>9. Ch(BeforeEnd(p)) = First(c)
  <2>1. CASE c = <<>> BY <2>1, <1>2, <1>6, <1>7, <1>8 DEF CharOf
  <2>2. CASE c # <<>> BY <2>2, <1>2, <1>4, <1>6, <1>8 DEF CharOf
  <2> QED BY <2>1, <2>2
<1>10. Ch(BeforeModifier(p)) = IF m = <<>> THEN First(c) ELSE m[1]
  <2>1. CASE m = <<>> BY <2>1, <1>5, <1>7, <1>8, <1>9
  <2>2. CASE m # <<>> BY <2>2, <1>2, <1>4, <1>5, <1>6, <1>8 DEF CharOf
  <2> QED BY <2>1, <2>2
<1>11. p.point => Ch(BeforePrecision(p)) = IF d = <<>> THEN Ch(BeforeModifier(p)) ELSE d[1]
  <2> SUFFICES ASSUME p.point PROVE Ch(BeforePrecision(p)) = IF d = <<>> THEN Ch(BeforeModifier(p)) ELSE d[1]
    OBVIOUS
  <2>1. BeforePrecision(p) \in Nat BY <1>5, <1>8
  <2>2. CASE d = <<>>
    <3>1. BeforeModifier(p) = BeforePrecision(p) BY <2>1, <2>2, <1>5, <1>7
    <3> QED BY <2>2, <3>1
  <2>3. CASE d # <<>> BY <2>1, <2>3, <1>2, <1>4, <1>5, <1>6 DEF CharOf
  <2> QED BY <2>2, <2>3
<1>12. Ch(BeforePoint(p)) = IF p.point THEN "." ELSE Ch(BeforeModifier(p))
  <2>1. CASE p.point BY <2>1, <1>2, <1>4, <1>5, <1>8 DEF CharOf
  <2>2. CASE ~p.point BY <2>2, <1>5
  <2> QED BY <2>1, <2>2
<1>13. BeforePoint(p) <= BeforeEnd(p) BY <1>3, <1>4, <1>5, <1>8
<1>14. Ch(BeforeWidth(p)) = IF w = <<>> THEN Ch(BeforePoint(p)) ELSE w[1]
  <2>1. CASE w = <<>> BY <2>1, <1>5, <1>7, <1>8
  <2>2. CASE w # <<>> BY <2>2, <1>2, <1>4, <1>5, <1>6, <1>8, <1>13 DEF CharOf
  <2> QED BY <2>1, <2>2
<1>15. Ch(1) = IF f = <<>> THEN Ch(BeforeWidth(p)) ELSE f[1]
  <2>1. CASE f = <<>> BY <2>1, <1>5, <1>7
  <2>2. CASE f # <<>> BY <2>2, <1>2, <1>4, <1>5, <1>6, <1>8, <1>13 DEF CharOf
  <2> QED BY <2>1, <2>2
<1> QED BY <1>9, <1>10, <1>11, <1>12, <1>14, <1>15 DEF s, f, w, d, m, c

\* A number begins with the star of an argument, or with a digit.
LEMMA NumberBegins ==
  ASSUME NEW n, IsNumber(n)
  PROVE  /\ Starred(n) => n.spelled # <<>> /\ n.spelled[1] = "*"
         /\ ~Starred(n) /\ n.spelled # <<>> => n.spelled[1] \in Digit
  <1>1. CASE Starred(n) BY <1>1 DEF Starred
  <1>2. CASE ~Starred(n)
    <2>1. n.spelled \in Seq(Digit) BY <1>2 DEF IsNumber
    <2> QED BY <1>2, <2>1, FirstOf
  <1> QED BY <1>1, <1>2

\* No character that follows a part is one that its loop would take for its own.
LEMMA NotReadOn ==
  ASSUME NEW p, IsDirective(p), p.conv # "text"
  PROVE  LET Ch(k) == CharOf(Spell(p), k + 1) IN
         /\ Ch(1) # "%"
         /\ Ch(BeforeWidth(p)) \notin Flag
         /\ Starred(p.width) => Ch(BeforeWidth(p)) = "*"
         /\ ~Starred(p.width) => Ch(BeforeWidth(p)) # "*" /\ Ch(BeforePoint(p)) \notin Digit
         /\ p.point => Ch(BeforePoint(p)) = "."
         /\ ~p.point => Ch(BeforePoint(p)) # "."
         /\ p.point /\ Starred(p.precision) => Ch(BeforePrecision(p)) = "*"
         /\ p.point /\ ~Starred(p.precision) =>
               Ch(BeforePrecision(p)) # "*" /\ Ch(BeforeModifier(p)) \notin Digit
         /\ Ch(BeforeEnd(p)) = First(p.chars)
         /\ First(p.chars) \notin OfModifier(p.modifier)
<1> DEFINE Ch(k) == CharOf(Spell(p), k + 1)
           e == First(p.chars)
           f == p.flags
           w == p.width.spelled
           d == p.precision.spelled
           m == p.modifier
<1>1. /\ Ch(BeforeEnd(p)) = e
      /\ Ch(BeforeModifier(p)) = IF m = <<>> THEN e ELSE m[1]
      /\ p.point => Ch(BeforePrecision(p)) = IF d = <<>> THEN Ch(BeforeModifier(p)) ELSE d[1]
      /\ Ch(BeforePoint(p)) = IF p.point THEN "." ELSE Ch(BeforeModifier(p))
      /\ Ch(BeforeWidth(p)) = IF w = <<>> THEN Ch(BeforePoint(p)) ELSE w[1]
      /\ Ch(1) = IF f = <<>> THEN Ch(BeforeWidth(p)) ELSE f[1]
  BY FirstAt
<1>2. e \notin Continues(p) BY EndsThere
<1>3. /\ IsNumber(p.width) /\ First(w) # "0" /\ IsNumber(p.precision) /\ p.point \in BOOLEAN
      /\ f \in Seq(Flag) /\ m \in Modifiers
  BY DEF IsDirective
<1>4. /\ Starred(p.width) => w # <<>> /\ w[1] = "*"
      /\ ~Starred(p.width) /\ w # <<>> => w[1] \in Digit
      /\ Starred(p.precision) => d # <<>> /\ d[1] = "*"
      /\ ~Starred(p.precision) /\ d # <<>> => d[1] \in Digit
  BY <1>3, NumberBegins
<1>5. w # <<>> => w[1] # "0" BY <1>3 DEF First
<1>6. f # <<>> => f[1] \in Flag BY <1>3, FirstOf
<1>7. m # <<>> => m[1] \in Letters
  <2>1. CASE m \in {<<c>> : c \in LastModifiers} BY <2>1 DEF Letters
  <2>2. CASE m \in {<<>>, <<"h">>, <<"h", "h">>, <<"l">>, <<"l", "l">>} BY <2>2 DEF Letters
  <2> QED BY <1>3, <2>1, <2>2 DEF Modifiers
<1>8. /\ e \notin OfModifier(m)
      /\ m = <<>> /\ p.point => e \notin OfNumber(p.precision)
      /\ m = <<>> /\ ~p.point => /\ e # "." /\ e \notin OfNumber(p.width) /\ (w = <<>> => e \notin Flag)
                                 /\ (f = <<>> /\ w = <<>> => e # "%")
  <2>1. f = <<>> /\ w = <<>> => f \o w = <<>> OBVIOUS
  <2> QED BY <1>2, <2>1 DEF Continues
<1>9. /\ Starred(p.width) \/ e \notin OfNumber(p.width) => e \notin Digit \/ Starred(p.width)
      /\ ~Starred(p.width) /\ w = <<>> /\ e \notin OfNumber(p.width) => e # "*"
      /\ ~Starred(p.precision) /\ e \notin OfNumber(p.precision) => e \notin Digit
      /\ ~Starred(p.precision) /\ d = <<>> /\ e \notin OfNumber(p.precision) => e # "*"
  BY DEF OfNumber
<1>10. /\ \A c \in Letters : c \notin Flag /\ c \notin Digit /\ c \notin {"*", ".", "%"}
       /\ \A c \in Digit : c \in Flag => c = "0"
       /\ \A c \in Digit \cup Flag : c \notin {"*", ".", "%"}
       /\ "*" \notin Flag /\ "." \notin Flag /\ "." \notin Digit
  BY DigitsAre DEF Letters, LastModifiers, Flag
<1>11. Ch(BeforeModifier(p)) # "%" \/ (m = <<>> /\ e = "%") BY <1>1, <1>7, <1>10
<1> HIDE DEF Ch, e, f, w, d, m
<1>12. Ch(1) # "%"
  <2>1. CASE f # <<>> BY <2>1, <1>1, <1>6, <1>10
  <2>2. CASE f = <<>> /\ w # <<>> BY <2>2, <1>1, <1>4, <1>10
  <2>3. CASE f = <<>> /\ w = <<>>
    <3>1. CASE p.point BY <2>3, <3>1, <1>1
    <3>2. CASE ~p.point BY <2>3, <3>2, <1>1, <1>8, <1>11
    <3> QED BY <3>1, <3>2
  <2> QED BY <2>1, <2>2, <2>3
<1>13. Ch(BeforeWidth(p)) \notin Flag
  <2>1. CASE w # <<>> BY <2>1, <1>1, <1>4, <1>5, <1>10
  <2>2. CASE w = <<>>
    <3>1. CASE p.point BY <2>2, <3>1, <1>1, <1>10
    <3>2. CASE ~p.point BY <2>2, <3>2, <1>1, <1>7, <1>8, <1>10
    <3> QED BY <3>1, <3>2
  <2> QED BY <2>1, <2>2
<1>14. Starred(p.width) => Ch(BeforeWidth(p)) = "*" BY <1>1, <1>4
<1>15. ~p.point => Ch(BeforePoint(p)) # "." BY <1>1, <1>7, <1>8, <1>10
<1>16. ASSUME ~Starred(p.width) PROVE Ch(BeforeWidth(p)) # "*" /\ Ch(BeforePoint(p)) \notin Digit
  <2>1. Ch(BeforePoint(p)) \notin Digit BY <1>1, <1>7, <1>8, <1>9, <1>10, <1>16
  <2>2. CASE w # <<>> BY <2>1, <2>2, <1>1, <1>4, <1>10, <1>16
  <2>3. CASE w = <<>>
    <3>1. CASE p.point BY <2>1, <2>3, <3>1, <1>1
    <3>2. CASE ~p.point BY <2>1, <2>3, <3>2, <1>1, <1>7, <1>8, <1>9, <1>10, <1>16
    <3> QED BY <3>1, <3>2
  <2> QED BY <2>2, <2>3
<1>17. p.point => Ch(BeforePoint(p)) = "." BY <1>1
<1>18. p.point /\ Starred(p.precision) => Ch(BeforePrecision(p)) = "*" BY <1>1, <1>4
<1>19. ASSUME p.point, ~Starred(p.precision)
       PROVE  Ch(BeforePrecision(p)) # "*" /\ Ch(BeforeModifier(p)) \notin Digit
  <2>1. Ch(BeforeModifier(p)) \notin Digit BY <1>1, <1>7, <1>8, <1>9, <1>10, <1>19
  <2>2. CASE d # <<>> BY <2>1, <2>2, <1>1, <1>4, <1>10, <1>19
  <2>3. CASE d = <<>> BY <2>1, <2>3, <1>1, <1>7, <1>8, <1>9, <1>10, <1>19
  <2> QED BY <2>2, <2>3
<1> QED BY <1>1, <1>8, <1>12, <1>13, <1>14, <1>15, <1>16, <1>17, <1>18, <1>19 DEF Ch, e, m

-------------------------------------------------------------------------------
(* The invariant of the reading *)

SpellsOf(m) == [k \in DOMAIN m |-> Spell(m[k])]
PassingsOf(m) == [k \in DOMAIN m |-> Passed(m[k])]

\* What has been read, and the piece that is next or being read.
ReadTo == Ends(SpellsOf(meaning))[Len(pieces)]
Current == meaning[Len(pieces) + 1]

\* The arguments from the one behind those of the pieces read, and given more, on.
ArgsFrom(given) ==
    LET all == FlattenSeq(PassingsOf(meaning))
    IN  SubSeq(all, Ends(PassingsOf(meaning))[Len(pieces)] + given + 1, Len(all))

Given(n) == IF Starred(n) THEN 1 ELSE 0
GivenNumbers(q) == Given(q.width) + IF q.point THEN Given(q.precision) ELSE 0

\* The directive q as far as it has been read.
FlagsRead(q) ==
    stage = "flags" =>
        \E k \in 0 .. Len(q.flags) :
            /\ at = ReadTo + 1 + k + 1 /\ args = ArgsFrom(0)
            /\ now = [begun |-> ReadTo + 1, flags |-> {q.flags[j] : j \in 1 .. k}, width |-> 0, precision |-> Absent]
WidthRead(q) ==
    stage = "precision" =>
        /\ at = ReadTo + BeforePoint(q) + 1 /\ args = ArgsFrom(Given(q.width))
        /\ now = [begun |-> ReadTo + 1, flags |-> ToSet(q.flags), width |-> q.width.value, precision |-> Absent]
NumbersRead(q) ==
    stage \in {"modifiers", "conversion"} =>
        /\ at = ReadTo + (IF stage = "modifiers" THEN BeforeModifier(q) ELSE BeforeEnd(q)) + 1
        /\ args = ArgsFrom(GivenNumbers(q))
        /\ now = [begun |-> ReadTo + 1, flags |-> ToSet(q.flags), width |-> q.width.value,
                  precision |-> IF q.point THEN q.precision.value ELSE Absent]

Between == {"piece", "print"}
Within == {"flags", "precision", "modifiers", "conversion"}

PiecesRead ==
    /\ Len(pieces) \in 0 .. Len(meaning)
    /\ pieces = [k \in 1 .. Len(pieces) |-> Meant(meaning[k])]

ReadInv ==
    /\ meaning \in Meanings /\ format = FlattenSeq(SpellsOf(meaning))
    /\ stage \in Between \cup Within
    /\ PiecesRead
    /\ stage = "print" => Len(pieces) > 0
    /\ stage \in Between => at = ReadTo + 1 /\ args = ArgsFrom(0)
    /\ stage \in Within =>
        /\ Len(pieces) < Len(meaning) /\ Current.conv # "text"
        /\ FlagsRead(Current) /\ WidthRead(Current) /\ NumbersRead(Current)

-------------------------------------------------------------------------------
(* The format, and the arguments *)

\* The characters of a run of text, behind a percent sign if it begins with one.
Doubled(p) == IF p.chars[1] = "%" THEN 1 ELSE 0

\* Text is spelled as it stands, behind one more percent sign if it begins with one.
LEMMA TextSpelled ==
  ASSUME NEW p, IsTextPiece(p)
  PROVE  /\ Spell(p) \in Seq({"%"} \cup ToSet(p.chars)) /\ Len(p.chars) \in Nat \ {0}
         /\ Len(Spell(p)) = Doubled(p) + Len(p.chars)
         /\ Doubled(p) = 1 => Spell(p)[1] = "%"
         /\ \A k \in 1 .. Len(p.chars) : Spell(p)[Doubled(p) + k] = p.chars[k]
<1> DEFINE S == {"%"} \cup ToSet(p.chars)
           c == p.chars
<1>1. c \in Seq(S) /\ Len(c) \in Nat \ {0}
  <2>1. c \in Seq(ToSet(c)) /\ c # <<>> BY DEF IsTextPiece
  <2>2. Len(c) >= 1 BY <2>1, FirstOf
  <2> QED BY <2>1, <2>2
<1>2. Spell(p) = (IF c[1] = "%" THEN <<"%">> ELSE <<>>) \o c BY DEF Spell, IsTextPiece
<1> HIDE DEF c
<1>3. CASE c[1] = "%"
  <2>1. <<"%">> \in Seq(S) /\ Len(<<"%">>) = 1 /\ <<"%">>[1] = "%" OBVIOUS
  <2>2. Doubled(p) = 1 BY <1>3 DEF Doubled, c
  <2>3. Spell(p) = <<"%">> \o c BY <1>2, <1>3
  <2> HIDE DEF S
  <2>4. /\ <<"%">> \o c \in Seq(S) /\ Len(<<"%">> \o c) = 1 + Len(c) /\ (<<"%">> \o c)[1] = "%"
        /\ \A k \in 1 .. Len(c) : (<<"%">> \o c)[1 + k] = c[k]
    BY <1>1, <2>1
  <2> QED BY <1>1, <2>2, <2>3, <2>4 DEF S, c
<1>4. CASE c[1] # "%"
  <2>1. Doubled(p) = 0 BY <1>4 DEF Doubled, c
  <2>2. Spell(p) = <<>> \o c BY <1>2, <1>4
  <2> HIDE DEF S
  <2>3. <<>> \o c = c BY <1>1
  <2> QED BY <1>1, <2>1, <2>2, <2>3 DEF S, c
<1> QED BY <1>3, <1>4

\* The parts of a directive stand one behind the other.
LEMMA PartsOrdered ==
  ASSUME NEW p, IsDirective(p)
  PROVE  /\ BeforeWidth(p) \in Nat /\ BeforePoint(p) \in Nat /\ BeforePrecision(p) \in Nat
         /\ BeforeModifier(p) \in Nat /\ BeforeEnd(p) \in Nat
         /\ Len(p.flags) \in Nat /\ Len(p.width.spelled) \in Nat /\ Len(p.precision.spelled) \in Nat
         /\ Len(p.modifier) \in Nat /\ Len(p.chars) \in Nat
         /\ BeforeWidth(p) = 1 + Len(p.flags) /\ BeforePoint(p) = BeforeWidth(p) + Len(p.width.spelled)
         /\ p.point => /\ BeforePrecision(p) = BeforePoint(p) + 1
                       /\ BeforeModifier(p) = BeforePrecision(p) + Len(p.precision.spelled)
         /\ ~p.point => BeforeModifier(p) = BeforePoint(p)
         /\ BeforeEnd(p) = BeforeModifier(p) + Len(p.modifier)
         /\ 1 <= BeforeWidth(p) /\ BeforeWidth(p) <= BeforePoint(p) /\ BeforePoint(p) <= BeforeModifier(p)
         /\ BeforeModifier(p) <= BeforeEnd(p)
<1> DEFINE S == CharsOf(p)
           f == Len(p.flags)
           w == Len(p.width.spelled)
           d == Len(p.precision.spelled)
           m == Len(p.modifier)
           c == Len(p.chars)
<1>1. /\ p.flags \in Seq(S) /\ p.width.spelled \in Seq(S) /\ p.precision.spelled \in Seq(S)
      /\ p.modifier \in Seq(S) /\ p.chars \in Seq(S)
  BY DirectiveTyped
<1>2. f \in Nat /\ w \in Nat /\ d \in Nat /\ m \in Nat /\ c \in Nat
  <2> HIDE DEF S
  <2> QED BY <1>1
<1>3. p.point \in BOOLEAN BY DEF IsDirective
<1>4. /\ BeforeWidth(p) = 1 + f /\ BeforePoint(p) = BeforeWidth(p) + w
      /\ BeforePrecision(p) = BeforePoint(p) + (IF p.point THEN 1 ELSE 0)
      /\ BeforeModifier(p) = BeforePrecision(p) + (IF p.point THEN d ELSE 0)
      /\ BeforeEnd(p) = BeforeModifier(p) + m
  BY DEF BeforeWidth, BeforePoint, BeforePrecision, BeforeModifier, BeforeEnd
<1> HIDE DEF f, w, d, m, c
<1>5. BeforeWidth(p) \in Nat /\ BeforePoint(p) \in Nat BY <1>2, <1>4
<1>6. /\ BeforePrecision(p) \in Nat /\ BeforeModifier(p) \in Nat
      /\ p.point => BeforePrecision(p) = BeforePoint(p) + 1 /\ BeforeModifier(p) = BeforePrecision(p) + d
      /\ ~p.point => BeforeModifier(p) = BeforePoint(p)
  <2>1. CASE p.point BY <2>1, <1>2, <1>4, <1>5
  <2>2. CASE ~p.point BY <2>2, <1>2, <1>4, <1>5
  <2> QED BY <1>3, <2>1, <2>2
<1>7. BeforeEnd(p) \in Nat BY <1>2, <1>4, <1>6
<1>8. /\ 1 <= BeforeWidth(p) /\ BeforeWidth(p) <= BeforePoint(p) /\ BeforePoint(p) <= BeforeModifier(p)
      /\ BeforeModifier(p) <= BeforeEnd(p)
  <2>1. BeforePoint(p) <= BeforeModifier(p)
    <3>1. CASE p.point BY <3>1, <1>2, <1>5, <1>6
    <3>2. CASE ~p.point BY <3>2, <1>5, <1>6
    <3> QED BY <1>3, <3>1, <3>2
  <2> QED BY <2>1, <1>2, <1>4, <1>5, <1>6
<1> QED BY <1>2, <1>4, <1>5, <1>6, <1>7, <1>8, Zenon DEF f, w, d, m, c

\* A sequence of characters of its own is one of those of every larger set.
LEMMA CharsOfSeq ==
  ASSUME NEW S, NEW s \in Seq(S), End \notin S, Len(s) >= 1
  PROVE  /\ s \in Seq(ToSet(s)) /\ Len(s) \in Nat \ {0}
         /\ \A k \in 1 .. Len(s) : s[k] # End
<1>1. Len(s) \in Nat /\ \A k \in 1 .. Len(s) : s[k] \in S OBVIOUS
<1>2. \A k \in 1 .. Len(s) : s[k] \in ToSet(s) BY DEF ToSet
<1>3. s \in Seq(ToSet(s)) BY <1>2
<1> QED BY <1>1, <1>3

\* A piece is spelled by at least one character, and never by the terminator.
LEMMA PieceSpelled ==
  ASSUME NEW p, IsTextPiece(p) \/ IsDirective(p)
  PROVE  /\ Spell(p) \in Seq(ToSet(Spell(p))) /\ Len(Spell(p)) \in Nat \ {0}
         /\ \A k \in 1 .. Len(Spell(p)) : Spell(p)[k] # End
<1>1. CASE IsTextPiece(p)
  <2> DEFINE S == {"%"} \cup ToSet(p.chars)
  <2>1. Spell(p) \in Seq(S) /\ Len(Spell(p)) >= 1
    <3>1. Len(p.chars) \in Nat \ {0} /\ Len(Spell(p)) = Doubled(p) + Len(p.chars) /\ Spell(p) \in Seq(S)
      BY <1>1, TextSpelled
    <3>2. Doubled(p) \in {0, 1} BY DEF Doubled
    <3> HIDE DEF S
    <3> QED BY <3>1, <3>2
  <2>2. End \notin S BY <1>1 DEF IsTextPiece, End
  <2> HIDE DEF S
  <2> QED BY <2>1, <2>2, CharsOfSeq
<1>2. CASE IsDirective(p) /\ p.conv # "text"
  <2> DEFINE S == CharsOf(p)
  <2>1. Spell(p) \in Seq(S) /\ End \notin S BY <1>2, SpelledAt, DirectiveTyped
  <2>2. Len(Spell(p)) >= 1
    <3>1. Len(Spell(p)) = BeforeEnd(p) + Len(p.chars) BY <1>2, SpelledAt
    <3>2. BeforeEnd(p) >= 1 /\ BeforeEnd(p) \in Nat /\ Len(p.chars) \in Nat
      <4> HIDE DEF S
      <4>1. IsDirective(p) BY <1>2
      <4>2. /\ BeforeWidth(p) \in Nat /\ BeforePoint(p) \in Nat /\ BeforeModifier(p) \in Nat
            /\ BeforeEnd(p) \in Nat /\ Len(p.chars) \in Nat
            /\ 1 <= BeforeWidth(p) /\ BeforeWidth(p) <= BeforePoint(p)
            /\ BeforePoint(p) <= BeforeModifier(p) /\ BeforeModifier(p) <= BeforeEnd(p)
        BY <4>1, PartsOrdered, Zenon
      <4> QED BY <4>2
    <3> QED BY <3>1, <3>2
  <2> HIDE DEF S
  <2> QED BY <2>1, <2>2, CharsOfSeq
<1>3. CASE IsDirective(p) /\ p.conv = "text" BY <1>3 DEF IsDirective, Conversions
<1> QED BY <1>1, <1>2, <1>3

\* The whole format, piece by piece.
LEMMA FormatAt ==
  ASSUME NEW m, IsMeaning(m)
  PROVE  LET n == Len(m)
             o == Ends(SpellsOf(m))
             all == FlattenSeq(SpellsOf(m))
         IN  /\ n \in Nat /\ DOMAIN m = 1 .. n
             /\ o \in [0 .. n -> Nat] /\ o[0] = 0 /\ \A k \in 0 .. n : o[k] <= o[n]
             /\ (\E S : all \in Seq(S)) /\ Len(all) = o[n]
             /\ \A k \in 1 .. n :
                   /\ Len(Spell(m[k])) \in Nat \ {0} /\ o[k] = o[k - 1] + Len(Spell(m[k]))
                   /\ \A j \in 1 .. Len(Spell(m[k])) :
                         all[o[k - 1] + j] = Spell(m[k])[j] /\ Spell(m[k])[j] # End
<1> DEFINE n == Len(m)
           ss == SpellsOf(m)
           o == Ends(ss)
           S == UNION {ToSet(ss[k]) : k \in 1 .. n}
<1>1. m \in Seq(ToSet(m)) /\ \A k \in DOMAIN m : IsTextPiece(m[k]) \/ IsDirective(m[k]) BY DEF IsMeaning
<1>2. n \in Nat /\ DOMAIN m = 1 .. n BY <1>1
<1>3. ss = [k \in 1 .. n |-> Spell(m[k])] BY <1>2 DEF SpellsOf
<1> HIDE DEF n, ss
<1>4. \A k \in 1 .. n : /\ ss[k] = Spell(m[k]) /\ ss[k] \in Seq(ToSet(ss[k])) /\ Len(ss[k]) \in Nat \ {0}
                        /\ \A j \in 1 .. Len(ss[k]) : ss[k][j] # End
  BY <1>1, <1>2, <1>3, PieceSpelled
<1>5. \A k \in 1 .. n : ss[k] \in Seq(S)
  <2> SUFFICES ASSUME NEW k \in 1 .. n PROVE ss[k] \in Seq(S) OBVIOUS
  <2>1. ss[k] \in Seq(ToSet(ss[k])) BY <1>4
  <2>2. ToSet(ss[k]) \subseteq S OBVIOUS
  <2> HIDE DEF S
  <2> QED BY <2>1, <2>2
<1>6. ss \in Seq(Seq(S)) /\ Len(ss) = n
  <2> HIDE DEF S
  <2> QED BY <1>2, <1>3, <1>5
<1>7. /\ o \in [0 .. n -> Nat] /\ o[0] = 0 /\ \A k \in 1 .. n : o[k] = o[k - 1] + Len(ss[k])
      /\ \A k \in 0 .. n : o[k] <= o[n]
  <2>1. Len(ss) \in Nat /\ \A k \in 1 .. Len(ss) : Len(ss[k]) \in Nat BY <1>2, <1>4, <1>6
  <2>2. n \in 0 .. Len(ss) BY <1>2, <1>6
  <2>3. \A k \in 0 .. n : o[k] <= o[n] BY <2>1, <2>2, EndsOrdered
  <2> QED BY <2>1, <2>3, <1>6, EndsComputed
<1>8. /\ FlattenSeq(ss) \in Seq(S) /\ Len(FlattenSeq(ss)) = o[n]
      /\ \A k \in 1 .. n : \A j \in 1 .. Len(ss[k]) : FlattenSeq(ss)[o[k - 1] + j] = ss[k][j]
  <2> HIDE DEF S
  <2> QED BY <1>6, Flattened
<1>9. \E T : FlattenSeq(ss) \in Seq(T) BY <1>8
<1> HIDE DEF o, S
<1> QED BY <1>2, <1>4, <1>7, <1>8, <1>9 DEF n, ss, o

\* What is passed for a piece are numbers.
LEMMA PassedTyped ==
  ASSUME NEW p, IsTextPiece(p) \/ IsDirective(p)
  PROVE  /\ Passed(p) \in Seq(Int)
         /\ p.conv = "text" => Passed(p) = <<>>
         /\ p.conv # "text" =>
               /\ Len(Passed(p)) = GivenNumbers(p) + IF p.conv \in Conversions THEN 1 ELSE 0
               /\ Starred(p.width) => Passed(p)[1] = p.width.value
               /\ p.point /\ Starred(p.precision) => Passed(p)[Given(p.width) + 1] = p.precision.value
               /\ p.conv \in Conversions => Passed(p)[GivenNumbers(p) + 1] = p.arg
<1>1. CASE p.conv = "text" BY <1>1 DEF Passed
<1>2. CASE p.conv # "text"
  <2> DEFINE w == IF Starred(p.width) THEN <<p.width.value>> ELSE <<>>
             d == IF p.point /\ Starred(p.precision) THEN <<p.precision.value>> ELSE <<>>
             v == IF p.conv \in Conversions THEN <<p.arg>> ELSE <<>>
  <2>1. IsDirective(p) BY <1>2 DEF IsTextPiece
  <2>2. p.width.value \in Int /\ p.precision.value \in Int
    BY <2>1, IntAssumption DEF IsDirective, IsNumber, IntRange
  <2>3. p.conv \in Conversions => p.arg \in Int
    <3>1. CASE p.conv = "s" BY <2>1, <3>1, IntAssumption DEF IsDirective, Conversions
    <3>2. CASE p.conv # "s" BY <2>1, <3>2, IntAssumption DEF IsDirective, IntRange, Conversions
    <3> QED BY <3>1, <3>2
  <2>4. p.point \in BOOLEAN BY <2>1 DEF IsDirective
  <2>5. /\ w \in Seq(Int) /\ Len(w) = Given(p.width) /\ (Starred(p.width) => w[1] = p.width.value)
        /\ d \in Seq(Int) /\ Len(d) = (IF p.point THEN Given(p.precision) ELSE 0)
        /\ (p.point /\ Starred(p.precision) => d[1] = p.precision.value)
        /\ v \in Seq(Int) /\ Len(v) = (IF p.conv \in Conversions THEN 1 ELSE 0)
        /\ (p.conv \in Conversions => v[1] = p.arg)
    <3>1. w \in Seq(Int) /\ Len(w) = Given(p.width) /\ (Starred(p.width) => w[1] = p.width.value)
      <4>1. CASE Starred(p.width) BY <4>1, <2>2 DEF Given
      <4>2. CASE ~Starred(p.width) BY <4>2 DEF Given
      <4> QED BY <4>1, <4>2
    <3>2. /\ d \in Seq(Int) /\ Len(d) = (IF p.point THEN Given(p.precision) ELSE 0)
          /\ (p.point /\ Starred(p.precision) => d[1] = p.precision.value)
      <4>1. CASE p.point /\ Starred(p.precision) BY <4>1, <2>2 DEF Given
      <4>2. CASE ~(p.point /\ Starred(p.precision)) BY <4>2, <2>4 DEF Given
      <4> QED BY <4>1, <4>2
    <3>3. /\ v \in Seq(Int) /\ Len(v) = (IF p.conv \in Conversions THEN 1 ELSE 0)
          /\ (p.conv \in Conversions => v[1] = p.arg)
      <4>1. CASE p.conv \in Conversions BY <4>1, <2>3
      <4>2. CASE p.conv \notin Conversions BY <4>2
      <4> QED BY <4>1, <4>2
    <3> QED BY <3>1, <3>2, <3>3
  <2>6. Passed(p) = w \o d \o v BY <1>2 DEF Passed
  <2>7. Len(w) + Len(d) = GivenNumbers(p) BY <2>5 DEF GivenNumbers
  <2> HIDE DEF w, d, v
  <2>8. /\ w \o d \in Seq(Int) /\ Len(w \o d) = Len(w) + Len(d)
        /\ \A k \in 1 .. Len(w) : (w \o d)[k] = w[k]
        /\ \A k \in 1 .. Len(d) : (w \o d)[Len(w) + k] = d[k]
    <3>1. w \in Seq(Int) /\ d \in Seq(Int) BY <2>5
    <3> QED BY <3>1
  <2> DEFINE wd == w \o d
  <2>9. wd \in Seq(Int) BY <2>8
  <2> HIDE DEF wd
  <2>10. /\ wd \o v \in Seq(Int) /\ Len(wd \o v) = Len(wd) + Len(v)
         /\ \A k \in 1 .. Len(wd) : (wd \o v)[k] = wd[k]
         /\ \A k \in 1 .. Len(v) : (wd \o v)[Len(wd) + k] = v[k]
    <3>1. v \in Seq(Int) BY <2>5
    <3> QED BY <2>9, <3>1
  <2>11. Passed(p) = wd \o v BY <2>6 DEF wd
  <2>12. Len(w) \in {0, 1} /\ Len(d) \in {0, 1} /\ Len(v) \in {0, 1} BY <2>4, <2>5 DEF Given
  <2>13. Len(wd) = GivenNumbers(p) /\ Len(wd) = Len(w) + Len(d) BY <2>7, <2>8 DEF wd
  <2>14. Starred(p.width) => Passed(p)[1] = p.width.value
    <3> SUFFICES ASSUME Starred(p.width) PROVE Passed(p)[1] = p.width.value OBVIOUS
    <3>1. Len(w) = 1 /\ w[1] = p.width.value BY <2>5 DEF Given
    <3>2. (w \o d)[1] = w[1] BY <2>8, <3>1
    <3>3. (wd \o v)[1] = wd[1] BY <2>10, <2>12, <2>13, <3>1
    <3> QED BY <2>11, <3>1, <3>2, <3>3 DEF wd
  <2>15. p.point /\ Starred(p.precision) => Passed(p)[Given(p.width) + 1] = p.precision.value
    <3> SUFFICES ASSUME p.point, Starred(p.precision) PROVE Passed(p)[Given(p.width) + 1] = p.precision.value
      OBVIOUS
    <3>1. Len(d) = 1 /\ d[1] = p.precision.value BY <2>5 DEF Given
    <3>2. (w \o d)[Len(w) + 1] = d[1] BY <2>8, <3>1
    <3>3. (wd \o v)[Len(w) + 1] = wd[Len(w) + 1] BY <2>10, <2>12, <2>13, <3>1
    <3> QED BY <2>5, <2>11, <3>1, <3>2, <3>3 DEF wd
  <2>16. p.conv \in Conversions => Passed(p)[GivenNumbers(p) + 1] = p.arg
    <3> SUFFICES ASSUME p.conv \in Conversions PROVE Passed(p)[GivenNumbers(p) + 1] = p.arg OBVIOUS
    <3>1. Len(v) = 1 /\ v[1] = p.arg BY <2>5
    <3> QED BY <2>10, <2>11, <2>13, <3>1
  <2> QED BY <1>2, <2>5, <2>10, <2>11, <2>13, <2>14, <2>15, <2>16
<1> QED BY <1>1, <1>2

\* All arguments, piece by piece.
LEMMA ArgumentsAt ==
  ASSUME NEW m, IsMeaning(m)
  PROVE  LET n == Len(m)
             o == Ends(PassingsOf(m))
             all == FlattenSeq(PassingsOf(m))
         IN  /\ o \in [0 .. n -> Nat] /\ o[0] = 0 /\ \A k \in 0 .. n : o[k] <= o[n]
             /\ all \in Seq(Int) /\ Len(all) = o[n]
             /\ \A k \in 1 .. n :
                   /\ Len(Passed(m[k])) \in Nat /\ o[k] = o[k - 1] + Len(Passed(m[k]))
                   /\ \A j \in 1 .. Len(Passed(m[k])) : all[o[k - 1] + j] = Passed(m[k])[j]
<1> DEFINE n == Len(m)
           ss == PassingsOf(m)
           o == Ends(ss)
<1>1. m \in Seq(ToSet(m)) /\ \A k \in DOMAIN m : IsTextPiece(m[k]) \/ IsDirective(m[k]) BY DEF IsMeaning
<1>2. n \in Nat /\ DOMAIN m = 1 .. n BY <1>1
<1>3. ss = [k \in 1 .. n |-> Passed(m[k])] BY <1>2 DEF PassingsOf
<1> HIDE DEF n, ss
<1>4. \A k \in 1 .. n : ss[k] = Passed(m[k]) /\ ss[k] \in Seq(Int) /\ Len(ss[k]) \in Nat
  BY <1>1, <1>2, <1>3, PassedTyped
<1>5. ss \in Seq(Seq(Int)) /\ Len(ss) = n BY <1>2, <1>3, <1>4
<1>6. /\ o \in [0 .. n -> Nat] /\ o[0] = 0 /\ \A k \in 1 .. n : o[k] = o[k - 1] + Len(ss[k])
      /\ \A k \in 0 .. n : o[k] <= o[n]
  <2>1. Len(ss) \in Nat /\ \A k \in 1 .. Len(ss) : Len(ss[k]) \in Nat BY <1>2, <1>4, <1>5
  <2>2. n \in 0 .. Len(ss) BY <1>2, <1>5
  <2>3. \A k \in 0 .. n : o[k] <= o[n] BY <2>1, <2>2, EndsOrdered
  <2> QED BY <2>1, <2>3, <1>5, EndsComputed
<1>7. /\ FlattenSeq(ss) \in Seq(Int) /\ Len(FlattenSeq(ss)) = o[n]
      /\ \A k \in 1 .. n : \A j \in 1 .. Len(ss[k]) : FlattenSeq(ss)[o[k - 1] + j] = ss[k][j]
  <2> DEFINE S == Int
  <2>1. ss \in Seq(Seq(S)) BY <1>5
  <2> HIDE DEF S, ss, n
  <2>2. /\ FlattenSeq(ss) \in Seq(S) /\ Len(FlattenSeq(ss)) = o[Len(ss)]
        /\ \A k \in 1 .. Len(ss) : \A j \in 1 .. Len(ss[k]) : FlattenSeq(ss)[o[k - 1] + j] = ss[k][j]
    BY <2>1, Flattened
  <2> QED BY <2>2, <1>5 DEF S
<1> HIDE DEF o
<1> QED BY <1>2, <1>4, <1>6, <1>7 DEF n, ss, o

-------------------------------------------------------------------------------
(* Where the reading is *)

\* A piece is text, or a directive, which may be bad.
LEMMA TextOrNot ==
  ASSUME NEW p, IsTextPiece(p) \/ IsDirective(p)
  PROVE  /\ p.conv = "text" => IsTextPiece(p)
         /\ p.conv # "text" => IsDirective(p)
         /\ p.conv # "text" /\ p.conv \notin Conversions => p.conv = "bad"
  BY DEF IsTextPiece, IsDirective, Conversions

LEMMA MeaningRead == ReadInv => IsMeaning(meaning)
  BY MeaningAssumption DEF ReadInv

\* The piece that is next, in the format.
LEMMA PieceAt ==
  ASSUME ReadInv, Len(pieces) < Len(meaning)
  PROVE  LET q == Current
             l == Len(Spell(q))
         IN  /\ IsTextPiece(q) \/ IsDirective(q)
             /\ Len(pieces) \in Nat /\ ReadTo \in Nat /\ l \in Nat \ {0}
             /\ Len(format) \in Nat /\ ReadTo + l <= Len(format)
             /\ \E S : format \in Seq(S)
             /\ \A k \in 1 .. l : format[ReadTo + k] = Spell(q)[k] /\ CharAt(ReadTo + k) = Spell(q)[k] /\ Spell(q)[k] # End
             /\ ReadTo + l = Ends(SpellsOf(meaning))[Len(pieces) + 1]
             /\ Len(pieces) + 1 = Len(meaning) => ReadTo + l = Len(format) /\ CharAt(ReadTo + l + 1) = End
             /\ Len(pieces) + 1 # Len(meaning) =>
                   q.conv # "bad" /\ (q.conv = "text" => CharAt(ReadTo + l + 1) = "%")
<1> DEFINE m == meaning
           n == Len(m)
           o == Ends(SpellsOf(m))
           x == Len(pieces)
           q == Current
           l == Len(Spell(q))
<1>1. IsMeaning(m) BY MeaningRead
<1>2. /\ n \in Nat /\ DOMAIN m = 1 .. n
      /\ o \in [0 .. n -> Nat] /\ \A k \in 0 .. n : o[k] <= o[n]
      /\ (\E S : format \in Seq(S)) /\ Len(format) = o[n]
      /\ \A k \in 1 .. n :
            /\ Len(Spell(m[k])) \in Nat \ {0} /\ o[k] = o[k - 1] + Len(Spell(m[k]))
            /\ \A j \in 1 .. Len(Spell(m[k])) :
                  format[o[k - 1] + j] = Spell(m[k])[j] /\ Spell(m[k])[j] # End
  <2>1. format = FlattenSeq(SpellsOf(m)) BY DEF ReadInv
  <2> HIDE DEF m, o, n
  <2> QED BY <1>1, <2>1, FormatAt DEF n, o
<1>3. x \in 0 .. n /\ x < n BY DEF ReadInv, PiecesRead
<1>4. x + 1 \in 1 .. n /\ x \in 0 .. n /\ x + 1 \in 0 .. n /\ (x + 1) - 1 = x /\ x \in Nat
  <2> HIDE DEF x, n
  <2> QED BY <1>2, <1>3
<1>5. q = m[x + 1] /\ ReadTo = o[x] BY DEF Current, ReadTo
<1>6. IsTextPiece(q) \/ IsDirective(q)
  <2>1. \A k \in DOMAIN m : IsTextPiece(m[k]) \/ IsDirective(m[k]) BY <1>1 DEF IsMeaning
  <2> HIDE DEF m, n, x, q
  <2> QED BY <2>1, <1>2, <1>4, <1>5
<1> HIDE DEF m, n, o, x, q
<1>7. /\ ReadTo \in Nat /\ l \in Nat \ {0} /\ ReadTo + l = o[x + 1] /\ o[x + 1] <= Len(format) /\ Len(format) \in Nat
      /\ \A k \in 1 .. l : format[ReadTo + k] = Spell(q)[k] /\ Spell(q)[k] # End
  <2>1. ReadTo \in Nat /\ o[x + 1] <= Len(format) /\ Len(format) \in Nat BY <1>2, <1>4, <1>5
  <2>2. /\ l \in Nat \ {0} /\ o[x + 1] = o[(x + 1) - 1] + l
        /\ \A k \in 1 .. l : format[o[(x + 1) - 1] + k] = Spell(q)[k] /\ Spell(q)[k] # End
    BY <1>2, <1>4, <1>5
  <2> QED BY <2>1, <2>2, <1>4, <1>5
<1>8. \A k \in 1 .. l : CharAt(ReadTo + k) = Spell(q)[k]
  <2> SUFFICES ASSUME NEW k \in 1 .. l PROVE CharAt(ReadTo + k) = Spell(q)[k] OBVIOUS
  <2>1. ~(ReadTo + k > Len(format)) BY <1>7
  <2> QED BY <2>1, <1>7 DEF CharAt
<1>9. ASSUME x + 1 = n PROVE ReadTo + l = Len(format) /\ CharAt(ReadTo + l + 1) = End
  <2>1. ReadTo + l = Len(format) BY <1>2, <1>7, <1>9
  <2>2. ReadTo + l + 1 > Len(format) BY <2>1, <1>7
  <2> QED BY <2>1, <2>2 DEF CharAt
<1>10. ASSUME x + 1 # n PROVE q.conv # "bad" /\ (q.conv = "text" => CharAt(ReadTo + l + 1) = "%")
  <2>1. x + 2 \in 2 .. n /\ x + 2 \in 1 .. n /\ (x + 2) - 1 = x + 1 BY <1>2, <1>4, <1>10
  <2>2. Follows(m[x + 2], m[(x + 2) - 1]) BY <1>1, <2>1 DEF IsMeaning, n
  <2>3. q.conv # "bad" /\ (q.conv = "text" => Spell(m[x + 2])[1] = "%") BY <2>1, <2>2, <1>5 DEF Follows
  <2>4. /\ Len(Spell(m[x + 2])) \in Nat \ {0} /\ o[x + 2] = o[x + 1] + Len(Spell(m[x + 2]))
        /\ format[o[x + 1] + 1] = Spell(m[x + 2])[1]
    <3>1. /\ Len(Spell(m[x + 2])) \in Nat \ {0}
          /\ o[x + 2] = o[(x + 2) - 1] + Len(Spell(m[x + 2]))
          /\ \A j \in 1 .. Len(Spell(m[x + 2])) : format[o[(x + 2) - 1] + j] = Spell(m[x + 2])[j]
      BY <1>2, <2>1
    <3>2. 1 \in 1 .. Len(Spell(m[x + 2])) BY <3>1
    <3> QED BY <2>1, <3>1, <3>2
  <2>5. o[x + 2] <= Len(format) /\ o[x + 2] \in Nat BY <1>2, <2>1
  <2>6. ~(ReadTo + l + 1 > Len(format)) BY <2>4, <2>5, <1>7
  <2> QED BY <2>3, <2>4, <2>6, <1>7 DEF CharAt
<1> QED BY <1>2, <1>4, <1>6, <1>7, <1>8, <1>9, <1>10 DEF m, n, o, x, q

\* Behind the last piece stands the terminator.
LEMMA NoPieceLeft ==
  ASSUME ReadInv, Len(pieces) = Len(meaning)
  PROVE  CharAt(ReadTo + 1) = End
<1>1. IsMeaning(meaning) BY MeaningRead
<1>2. format = FlattenSeq(SpellsOf(meaning)) BY DEF ReadInv
<1>3. Len(format) = ReadTo /\ ReadTo \in Nat
  <2>1. LET n == Len(meaning)
            o == Ends(SpellsOf(meaning))
        IN  n \in Nat /\ o \in [0 .. n -> Nat] /\ Len(format) = o[n]
    BY <1>1, <1>2, FormatAt
  <2> QED BY <2>1 DEF ReadTo
<1> QED BY <1>3 DEF CharAt

\* The arguments of the piece that is next.
LEMMA ArgumentAt ==
  ASSUME ReadInv, Len(pieces) < Len(meaning), NEW g \in Nat
  PROVE  LET q == Current
             o == Ends(PassingsOf(meaning))
         IN  /\ Len(Passed(q)) \in Nat /\ o[Len(pieces)] \in Nat
             /\ o[Len(pieces) + 1] = o[Len(pieces)] + Len(Passed(q))
             /\ g < Len(Passed(q)) => Head(ArgsFrom(g)) = Passed(q)[g + 1] /\ Tail(ArgsFrom(g)) = ArgsFrom(g + 1)
<1> DEFINE m == meaning
           n == Len(m)
           o == Ends(PassingsOf(m))
           all == FlattenSeq(PassingsOf(m))
           x == Len(pieces)
           q == Current
<1>1. IsMeaning(m) BY MeaningRead
<1>2. /\ o \in [0 .. n -> Nat] /\ \A k \in 0 .. n : o[k] <= o[n]
      /\ all \in Seq(Int) /\ Len(all) = o[n]
      /\ \A k \in 1 .. n :
            /\ Len(Passed(m[k])) \in Nat /\ o[k] = o[k - 1] + Len(Passed(m[k]))
            /\ \A j \in 1 .. Len(Passed(m[k])) : all[o[k - 1] + j] = Passed(m[k])[j]
  <2> HIDE DEF m, n, o, all
  <2> QED BY <1>1, ArgumentsAt DEF n, o, all
<1>3. x \in 0 .. n /\ x < n BY DEF ReadInv, PiecesRead
<1>4. n \in Nat BY <1>1, FormatAt
<1>5. q = m[x + 1] BY DEF Current
<1>6. ArgsFrom(g) = SubSeq(all, o[x] + g + 1, Len(all)) /\ ArgsFrom(g + 1) = SubSeq(all, o[x] + (g + 1) + 1, Len(all))
  BY DEF ArgsFrom
<1> HIDE DEF m, n, o, all, x, q
<1>7. x + 1 \in 1 .. n /\ (x + 1) - 1 = x /\ x \in 0 .. n /\ x + 1 \in 0 .. n BY <1>3, <1>4
<1>8. /\ Len(Passed(q)) \in Nat /\ o[x + 1] = o[x] + Len(Passed(q))
      /\ \A j \in 1 .. Len(Passed(q)) : all[o[x] + j] = Passed(q)[j]
  <2>1. /\ Len(Passed(m[x + 1])) \in Nat /\ o[x + 1] = o[(x + 1) - 1] + Len(Passed(m[x + 1]))
        /\ \A j \in 1 .. Len(Passed(m[x + 1])) : all[o[(x + 1) - 1] + j] = Passed(m[x + 1])[j]
    BY <1>2, <1>7
  <2> QED BY <2>1, <1>5, <1>7
<1>9. o[x] \in Nat /\ o[x + 1] <= Len(all) /\ Len(all) \in Nat BY <1>2, <1>7
<1>10. ASSUME g < Len(Passed(q))
       PROVE  Head(ArgsFrom(g)) = Passed(q)[g + 1] /\ Tail(ArgsFrom(g)) = ArgsFrom(g + 1)
  <2> DEFINE a == o[x] + g + 1
             b == Len(all)
  <2>1. a \in 1 .. b BY <1>8, <1>9, <1>10
  <2>2. all[a] = Passed(q)[g + 1]
    <3>1. g + 1 \in 1 .. Len(Passed(q)) BY <1>8, <1>10
    <3>2. all[o[x] + (g + 1)] = Passed(q)[g + 1] BY <3>1, <1>8
    <3>3. o[x] + (g + 1) = a BY <1>9
    <3> QED BY <3>2, <3>3
  <2> HIDE DEF a, b
  <2>3. b \in Int /\ a \in Int /\ b <= Len(all) BY <1>9, <2>1 DEF b
  <2>4. SubSeq(all, a, b) # <<>> /\ Head(SubSeq(all, a, b)) = all[a] /\ Tail(SubSeq(all, a, b)) = SubSeq(all, a + 1, b)
    BY <1>2, <2>1, <2>3, <1>9
  <2>5. a + 1 = o[x] + (g + 1) + 1 BY <1>9 DEF a
  <2> QED BY <1>6, <2>2, <2>4, <2>5 DEF a, b
<1> QED BY <1>8, <1>9, <1>10 DEF m, o, x, q

-------------------------------------------------------------------------------
(* The steps of the reading *)

\* What has been read stays the same until a piece is added.
LEMMA SameRead ==
  ASSUME UNCHANGED <<meaning, pieces>>
  PROVE  ReadTo' = ReadTo /\ Current' = Current /\ \A g : ArgsFrom(g)' = ArgsFrom(g)
<1>1. meaning' = meaning /\ pieces' = pieces OBVIOUS
<1> QED BY <1>1 DEF ReadTo, Current, ArgsFrom

\* A step within a directive keeps the invariant if it reads its part.
LEMMA WithinStep ==
  ASSUME ReadInv, UNCHANGED <<meaning, format, pieces>>, stage' \in Within,
         Len(pieces) < Len(meaning), Current.conv # "text",
         NEW CONSTANT q, q = Current, FlagsRead(q)', WidthRead(q)', NumbersRead(q)'
  PROVE  ReadInv'
<1>1. Current' = q BY SameRead
<1>2. PiecesRead' BY DEF ReadInv, PiecesRead
<1>3. FlagsRead(Current)' /\ WidthRead(Current)' /\ NumbersRead(Current)'
  BY <1>1 DEF FlagsRead, WidthRead, NumbersRead
<1>4. stage' \notin Between BY DEF Within, Between
<1>5. meaning' \in Meanings /\ format' = FlattenSeq(SpellsOf(meaning')) BY DEF ReadInv
<1>6. stage' # "print" BY DEF Within
<1> QED BY <1>1, <1>2, <1>3, <1>4, <1>5, <1>6 DEF ReadInv

\* The characters of a directive, and the one behind it where it breaks off.
LEMMA CharInPiece ==
  ASSUME ReadInv, Len(pieces) < Len(meaning), Current.conv # "text"
  PROVE  LET q == Current
         IN  /\ IsDirective(q)
             /\ \A k \in 0 .. BeforeEnd(q) : CharAt(ReadTo + k + 1) = CharOf(Spell(q), k + 1)
<1> DEFINE q == Current
           l == Len(Spell(q))
<1>1. IsDirective(q)
  <2>1. IsTextPiece(q) \/ IsDirective(q) BY PieceAt
  <2>2. q.conv # "text" OBVIOUS
  <2> HIDE DEF q
  <2> QED BY <2>1, <2>2, TextOrNot
<1>2. l = BeforeEnd(q) + Len(q.chars) BY <1>1, SpelledAt
<1>3. BeforeEnd(q) \in Nat /\ Len(q.chars) \in Nat BY <1>1, PartsOrdered
<1>4. /\ ReadTo \in Nat /\ \A k \in 1 .. l : CharAt(ReadTo + k) = Spell(q)[k]
      /\ Len(pieces) + 1 = Len(meaning) => CharAt(ReadTo + l + 1) = End
      /\ Len(pieces) + 1 # Len(meaning) => q.conv # "bad"
  BY PieceAt
<1>5. q.conv = "bad" \/ q.conv \in Conversions BY <1>1, TextOrNot
<1>6. q.conv \in Conversions => Len(q.chars) = 1
  <2>1. q.conv \in Conversions => q.chars = <<q.conv>> BY <1>1 DEF IsDirective, Conversions
  <2>2. Len(<<q.conv>>) = 1 OBVIOUS
  <2> HIDE DEF q
  <2> QED BY <2>1, <2>2
<1>7. ASSUME NEW k \in 0 .. BeforeEnd(q) PROVE CharAt(ReadTo + k + 1) = CharOf(Spell(q), k + 1)
  <2> HIDE DEF q
  <2> DEFINE s == Spell(q)
  <2> HIDE DEF s
  <2>1. CASE k + 1 <= l
    <3>1. k + 1 \in 1 .. l /\ ReadTo + k + 1 = ReadTo + (k + 1) BY <2>1, <1>3, <1>4, <1>7
    <3>2. CharAt(ReadTo + (k + 1)) = Spell(q)[k + 1] BY <3>1, <1>4
    <3>3. ~(k + 1 > l) BY <2>1, <1>2, <1>3, <1>7
    <3> QED BY <3>1, <3>2, <3>3 DEF CharOf, l
  <2>2. CASE ~(k + 1 <= l)
    <3>1. k = BeforeEnd(q) /\ Len(q.chars) = 0 /\ l = k /\ k + 1 > l BY <2>2, <1>2, <1>3, <1>7
    <3>2. q.conv = "bad" BY <3>1, <1>5, <1>6
    <3>3. CharAt(ReadTo + l + 1) = End BY <3>2, <1>4
    <3> QED BY <3>1, <3>3 DEF CharOf, l
  <2> QED BY <2>1, <2>2
<1> QED BY <1>1, <1>7

\* The loop that skips the characters of a set stops where it should.
LEMMA BehindIs ==
  ASSUME NEW k \in Nat, NEW set, NEW j \in Nat, k <= j, Len(format) \in Nat, j <= Len(format) + 1,
         CharAt(j) \notin set, \A x \in k .. j - 1 : CharAt(x) \in set
  PROVE  Behind(k, set) = j
<1> DEFINE Ok(y) == CharAt(y) \notin set /\ \A x \in k .. y - 1 : CharAt(x) \in set
<1>1. j \in k .. Len(format) + 1 /\ Ok(j) OBVIOUS
<1>2. ASSUME NEW y \in k .. Len(format) + 1, Ok(y) PROVE y = j
  <2>1. CASE y < j BY <2>1, <1>2
  <2>2. CASE y > j BY <2>2, <1>2
  <2> QED BY <2>1, <2>2
<1>3. Behind(k, set) = CHOOSE y \in k .. Len(format) + 1 : Ok(y) BY DEF Behind
<1> HIDE DEF Ok
<1> QED BY <1>1, <1>2, <1>3

\* A part of a sequence that agrees with another, character by character, is that one.
LEMMA CutOut ==
  ASSUME NEW S, NEW s \in Seq(S), NEW o \in Nat, NEW T, NEW t \in Seq(T), o + Len(t) <= Len(s),
         \A k \in 1 .. Len(t) : s[o + k] = t[k]
  PROVE  SubSeq(s, o + 1, o + Len(t)) = t
<1>1. Len(t) \in Nat /\ Len(s) \in Nat OBVIOUS
<1> DEFINE u == SubSeq(s, o + 1, o + Len(t))
<1>2. u \in Seq(S) /\ Len(u) = Len(t) /\ \A k \in 1 .. Len(t) : u[k] = s[o + k]
  BY <1>1
<1> HIDE DEF u
<1>3. u = [k \in 1 .. Len(t) |-> u[k]] /\ t = [k \in 1 .. Len(t) |-> t[k]] BY <1>2
<1> QED BY <1>2, <1>3 DEF u

\* There is one more flag to read exactly where the directive has one.
LEMMA FlagReads ==
  ASSUME ReadInv, stage = "flags", Len(pieces) < Len(meaning), Current.conv # "text",
         NEW k \in 0 .. Len(Current.flags), at = ReadTo + 1 + k + 1
  PROVE  IF AtFlag THEN k < Len(Current.flags) /\ CharAt(at) = Current.flags[k + 1] ELSE k = Len(Current.flags)
<1> DEFINE q == Current
<1>1. IsDirective(q) /\ \A j \in 0 .. BeforeEnd(q) : CharAt(ReadTo + j + 1) = CharOf(Spell(q), j + 1)
  BY CharInPiece
<1>2. /\ Len(q.flags) \in Nat /\ BeforeEnd(q) \in Nat /\ BeforeWidth(q) = 1 + Len(q.flags)
      /\ BeforeWidth(q) <= BeforePoint(q) /\ BeforePoint(q) <= BeforeModifier(q) /\ BeforeModifier(q) <= BeforeEnd(q)
      /\ BeforePoint(q) \in Nat /\ BeforeModifier(q) \in Nat
  BY <1>1, PartsOrdered, Zenon
<1>3. ReadTo \in Nat BY PieceAt
<1>4. CharOf(Spell(q), BeforeWidth(q) + 1) \notin Flag BY <1>1, NotReadOn
<1>5. Len(Spell(q)) = BeforeEnd(q) + Len(q.chars) /\ Len(q.chars) \in Nat
  <2>1. Len(q.chars) \in Nat BY <1>1, PartsOrdered, Zenon
  <2>2. Len(Spell(q)) = BeforeEnd(q) + Len(q.chars) BY <1>1, SpelledAt
  <2> QED BY <2>1, <2>2
<1>6. \A j \in 1 .. Len(q.flags) : Spell(q)[1 + j] = q.flags[j] BY <1>1, SpelledAt
<1>7. q.flags \in Seq(Flag) BY <1>1 DEF IsDirective
<1> HIDE DEF q
<1>8. k \in 0 .. Len(q.flags) BY DEF q
<1>9. CharAt(at) = CharOf(Spell(q), k + 2)
  <2>1. k + 1 \in 0 .. BeforeEnd(q) BY <1>2, <1>8
  <2>2. at = ReadTo + (k + 1) + 1 /\ (k + 1) + 1 = k + 2 BY <1>3, <1>8
  <2> QED BY <2>1, <2>2, <1>1
<1>10. ASSUME k < Len(q.flags) PROVE CharAt(at) = q.flags[k + 1] /\ CharAt(at) \in Flag
  <2>1. k + 1 \in 1 .. Len(q.flags) /\ 1 + (k + 1) = k + 2 BY <1>2, <1>8, <1>10
  <2>2. k + 2 <= BeforeEnd(q)
    <3>1. k + 2 <= BeforeWidth(q) /\ BeforeWidth(q) \in Nat BY <1>2, <1>8, <1>10
    <3> QED BY <3>1, <1>2, <1>8
  <2>3. k + 1 \in 1 .. Len(q.flags) /\ ~(k + 2 > Len(Spell(q))) /\ 1 + (k + 1) = k + 2
    <3>1. Len(Spell(q)) \in Nat /\ BeforeEnd(q) <= Len(Spell(q)) BY <1>2, <1>5
    <3>2. ~(k + 2 > Len(Spell(q))) BY <2>2, <3>1, <1>2, <1>8
    <3> QED BY <2>1, <3>2
  <2>4. q.flags[k + 1] \in Flag BY <2>3, <1>7
  <2>5. Spell(q)[k + 2] = q.flags[k + 1] BY <2>3, <1>6
  <2> QED BY <2>3, <2>4, <2>5, <1>9 DEF CharOf
<1>11. ASSUME ~(k < Len(q.flags)) PROVE k = Len(q.flags) /\ CharAt(at) \notin Flag
  <2>1. k = Len(q.flags) BY <1>2, <1>8, <1>11
  <2>2. k + 2 = BeforeWidth(q) + 1 BY <2>1, <1>2
  <2> QED BY <2>1, <2>2, <1>4, <1>9
<1> QED BY <1>10, <1>11 DEF AtFlag, q

\* Within the flags, some of the flags of a directive have been read.
LEMMA FlagsStart ==
  ASSUME ReadInv, stage = "flags"
  PROVE  /\ Len(pieces) < Len(meaning) /\ Current.conv # "text"
         /\ \E k \in 0 .. Len(Current.flags) :
            /\ at = ReadTo + 1 + k + 1 /\ args = ArgsFrom(0)
            /\ now = [begun |-> ReadTo + 1, flags |-> {Current.flags[j] : j \in 1 .. k}, width |-> 0, precision |-> Absent]
  BY DEF ReadInv, FlagsRead, Within

\* The loops, each of which keeps the invariant.
LEMMA FlagStep ==
  ASSUME ReadInv, ReadFlag
  PROVE  ReadInv'
<1>1. stage = "flags" /\ AtFlag /\ stage' = "flags" /\ UNCHANGED <<meaning, format, pieces>> /\ args' = args
      /\ at' = at + 1 /\ now' = [now EXCEPT !.flags = @ \cup {CharAt(at)}]
  BY DEF ReadFlag
<1>2. Len(pieces) < Len(meaning) /\ Current.conv # "text" BY <1>1, FlagsStart
<1>3. PICK q : q = Current OBVIOUS
<1>4. PICK k \in 0 .. Len(q.flags) :
         /\ at = ReadTo + 1 + k + 1 /\ args = ArgsFrom(0)
         /\ now = [begun |-> ReadTo + 1, flags |-> {q.flags[j] : j \in 1 .. k}, width |-> 0, precision |-> Absent]
  BY <1>1, <1>3, FlagsStart
<1>5. k < Len(q.flags) /\ CharAt(at) = q.flags[k + 1] BY <1>1, <1>2, <1>3, <1>4, FlagReads
<1>6. Len(q.flags) \in Nat /\ ReadTo \in Nat BY <1>2, <1>3, PieceAt, CharInPiece, PartsOrdered, Zenon
<1>7. ReadTo' = ReadTo /\ ArgsFrom(0)' = ArgsFrom(0) BY <1>1, SameRead
<1>8. FlagsRead(q)'
  <2>1. k + 1 \in 0 .. Len(q.flags) BY <1>4, <1>5, <1>6
  <2>2. at' = ReadTo' + 1 + (k + 1) + 1 BY <1>1, <1>4, <1>6, <1>7
  <2>3. {q.flags[j] : j \in 1 .. k} \cup {q.flags[k + 1]} = {q.flags[j] : j \in 1 .. k + 1}
    <3>1. 1 .. k + 1 = (1 .. k) \cup {k + 1} BY <1>4, <1>6
    <3> QED BY <3>1
  <2>4. now' = [begun |-> ReadTo' + 1, flags |-> {q.flags[j] : j \in 1 .. k + 1}, width |-> 0, precision |-> Absent]
    BY <1>1, <1>4, <1>5, <1>7, <2>3
  <2>5. args' = ArgsFrom(0)' BY <1>1, <1>4, <1>7
  <2> QED BY <2>1, <2>2, <2>4, <2>5 DEF FlagsRead
<1>9. WidthRead(q)' /\ NumbersRead(q)' BY <1>1 DEF WidthRead, NumbersRead
<1>10. stage' \in Within BY <1>1 DEF Within
<1> QED BY <1>1, <1>2, <1>3, <1>8, <1>9, <1>10, WithinStep

\* A number that stands behind c characters of its directive, or is the argument
\* behind g of the directive's, is read as it was meant.
LEMMA NumberReads ==
  ASSUME ReadInv, Len(pieces) < Len(meaning), Current.conv # "text",
         NEW CONSTANT q, q = Current,
         NEW CONSTANT n, IsNumber(n), NEW CONSTANT c \in Nat, c + Len(n.spelled) <= BeforeEnd(q),
         \A k \in 1 .. Len(n.spelled) : Spell(q)[c + k] = n.spelled[k],
         Starred(n) => CharAt(ReadTo + c + 1) = "*",
         ~Starred(n) => CharAt(ReadTo + c + 1) # "*" /\ CharAt(ReadTo + c + Len(n.spelled) + 1) \notin Digit,
         NEW CONSTANT g \in Nat, args = ArgsFrom(g),
         Starred(n) => g < Len(Passed(q)) /\ Passed(q)[g + 1] = n.value,
         NEW CONSTANT field, ReadNumber(ReadTo + c + 1, field)
  PROVE  /\ now' = [now EXCEPT ![field] = n.value]
         /\ args' = ArgsFrom(g + Given(n))
         /\ at' = ReadTo + c + Len(n.spelled) + 1
<1>1. ReadTo \in Nat BY PieceAt
<1>2. CASE Starred(n)
  <2>1. now' = [now EXCEPT ![field] = Head(args)] /\ args' = Tail(args) /\ at' = ReadTo + c + 1 + 1
    BY <1>2 DEF ReadNumber
  <2>2. Head(args) = n.value /\ Tail(args) = ArgsFrom(g + 1) BY <1>2, ArgumentAt
  <2>3. Given(n) = 1 /\ Len(n.spelled) = 1 BY <1>2 DEF Given, Starred
  <2> QED BY <2>1, <2>2, <2>3, <1>1
<1>3. CASE ~Starred(n)
  <2> DEFINE d == n.spelled
             k == ReadTo + c + 1
             stop == ReadTo + c + Len(d) + 1
  <2>1. d \in Seq(Digit) /\ n.value = NumberOf(d) /\ Len(d) \in Nat BY <1>3 DEF IsNumber
  <2>2. IsDirective(q) /\ \A j \in 0 .. BeforeEnd(q) : CharAt(ReadTo + j + 1) = CharOf(Spell(q), j + 1)
    BY CharInPiece
  <2>3. BeforeEnd(q) \in Nat /\ Len(q.chars) \in Nat BY <2>2, PartsOrdered, Zenon
  <2>4. Len(Spell(q)) = BeforeEnd(q) + Len(q.chars) BY <2>2, SpelledAt
  <2>5. /\ Len(format) \in Nat /\ ReadTo + Len(Spell(q)) <= Len(format)
        /\ \A j \in 1 .. Len(Spell(q)) : format[ReadTo + j] = Spell(q)[j] /\ CharAt(ReadTo + j) = Spell(q)[j]
    BY PieceAt
  <2>6. PICK S : format \in Seq(S) BY PieceAt
  <2>7. \A j \in 1 .. Len(d) : format[ReadTo + c + j] = d[j] /\ CharAt(ReadTo + c + j) = d[j]
    <3> SUFFICES ASSUME NEW j \in 1 .. Len(d) PROVE format[ReadTo + c + j] = d[j] /\ CharAt(ReadTo + c + j) = d[j]
      OBVIOUS
    <3>1. c + j \in 1 .. Len(Spell(q)) /\ ReadTo + c + j = ReadTo + (c + j)
      <4>1. c + j >= 1 /\ c + j <= BeforeEnd(q) /\ c + j \in Nat BY <2>1, <2>3
      <4> QED BY <4>1, <2>3, <2>4, <1>1
    <3> QED BY <3>1, <2>5
  <2> HIDE DEF d
  <2>8. k \in Nat /\ stop \in Nat /\ k <= stop /\ stop <= Len(format) + 1
    <3>1. c + Len(d) <= BeforeEnd(q) BY DEF d
    <3>2. c + Len(d) \in Nat /\ c + Len(d) <= Len(Spell(q)) /\ Len(Spell(q)) \in Nat BY <3>1, <2>1, <2>3, <2>4
    <3> QED BY <3>2, <2>1, <2>5, <1>1
  <2>9. \A x \in k .. stop - 1 : CharAt(x) \in Digit
    <3> SUFFICES ASSUME NEW x \in k .. stop - 1 PROVE CharAt(x) \in Digit OBVIOUS
    <3>1. x - ReadTo - c \in 1 .. Len(d) /\ ReadTo + c + (x - ReadTo - c) = x BY <2>1, <1>1
    <3>2. d[x - ReadTo - c] \in Digit BY <3>1, <2>1
    <3> QED BY <3>1, <3>2, <2>7
  <2>10. CharAt(k) # "*" /\ CharAt(stop) \notin Digit BY <1>3 DEF d
  <2>11. SubSeq(format, k, stop - 1) = d
    <3> DEFINE o == ReadTo + c
    <3>1. /\ o \in Nat /\ o + Len(d) <= Len(format) /\ k = o + 1 /\ stop - 1 = o + Len(d)
      BY <1>1, <2>1, <2>5, <2>8
    <3>2. \A j \in 1 .. Len(d) : format[o + j] = d[j] BY <2>7
    <3> HIDE DEF o, k, stop
    <3>3. SubSeq(format, o + 1, o + Len(d)) = d BY <3>1, <3>2, <2>1, <2>6, CutOut
    <3> QED BY <3>1, <3>3
  <2>12. ReadNumber(k, field) OBVIOUS
  <2> HIDE DEF k, stop
  <2>13. Behind(k, Digit) = stop BY <2>5, <2>8, <2>9, <2>10, BehindIs
  <2>14. now' = [now EXCEPT ![field] = ParseInt(d)] /\ at' = stop /\ args' = args
    BY <2>10, <2>11, <2>12, <2>13 DEF ReadNumber
  <2>15. ParseInt(d) = n.value BY <2>1, ParsedIsNumber
  <2>16. g + Given(n) = g BY <1>3 DEF Given
  <2> QED BY <2>14, <2>15, <2>16 DEF stop, d
<1> QED BY <1>2, <1>3

LEMMA WidthStep ==
  ASSUME ReadInv, ReadWidth
  PROVE  ReadInv'
<1>1. /\ stage = "flags" /\ ~AtFlag /\ stage' = "precision" /\ UNCHANGED <<meaning, format, pieces>>
      /\ ReadNumber(at, "width")
  BY DEF ReadWidth
<1>2. Len(pieces) < Len(meaning) /\ Current.conv # "text" BY <1>1, FlagsStart
<1>3. PICK q : q = Current OBVIOUS
<1>4. PICK k \in 0 .. Len(q.flags) :
         /\ at = ReadTo + 1 + k + 1 /\ args = ArgsFrom(0)
         /\ now = [begun |-> ReadTo + 1, flags |-> {q.flags[j] : j \in 1 .. k}, width |-> 0, precision |-> Absent]
  BY <1>1, <1>3, FlagsStart
<1>5. k = Len(q.flags) BY <1>1, <1>2, <1>3, <1>4, FlagReads
<1>6. IsDirective(q) BY <1>2, <1>3, CharInPiece
<1>7. \A j \in 0 .. BeforeEnd(q) : CharAt(ReadTo + j + 1) = CharOf(Spell(q), j + 1) BY <1>2, <1>3, CharInPiece
<1>8. ReadTo \in Nat BY <1>2, PieceAt
<1> DEFINE n == q.width
           c == BeforeWidth(q)
           w == Len(n.spelled)
           f == Len(q.flags)
           e == BeforePoint(q)
           m == BeforeModifier(q)
           z == BeforeEnd(q)
<1>9. /\ c \in Nat /\ e \in Nat /\ z \in Nat /\ w \in Nat /\ f \in Nat /\ m \in Nat
      /\ c = 1 + f /\ e = c + w /\ e <= m /\ m <= z
  BY <1>6, PartsOrdered, Zenon
<1>10. IsNumber(n) BY <1>6 DEF IsDirective
<1>11. \A j \in 1 .. Len(n.spelled) : Spell(q)[c + j] = n.spelled[j] BY <1>2, <1>3, <1>6, SpelledAt
<1>12. /\ Starred(n) => CharOf(Spell(q), c + 1) = "*"
       /\ ~Starred(n) => CharOf(Spell(q), c + 1) # "*" /\ CharOf(Spell(q), BeforePoint(q) + 1) \notin Digit
  BY <1>2, <1>3, <1>6, NotReadOn
<1>13. Starred(n) => 0 < Len(Passed(q)) /\ Passed(q)[0 + 1] = n.value
  <2> SUFFICES ASSUME Starred(n) PROVE 0 < Len(Passed(q)) /\ Passed(q)[0 + 1] = n.value OBVIOUS
  <2>1. /\ Len(Passed(q)) = GivenNumbers(q) + IF q.conv \in Conversions THEN 1 ELSE 0
        /\ Passed(q)[1] = n.value
    BY <1>2, <1>3, <1>6, PassedTyped
  <2>2. GivenNumbers(q) \in {1, 2}
    <3>1. q.point \in BOOLEAN BY <1>6 DEF IsDirective
    <3>2. Given(n) = 1 /\ Given(q.precision) \in {0, 1} BY DEF Given
    <3> QED BY <3>1, <3>2 DEF GivenNumbers
  <2> QED BY <2>1, <2>2
<1> HIDE DEF w, f, e, m, z
<1>14. at = ReadTo + c + 1
  <2>1. k = f BY <1>5 DEF f
  <2> HIDE DEF c
  <2> QED BY <2>1, <1>4, <1>8, <1>9
<1>15. now = [begun |-> ReadTo + 1, flags |-> ToSet(q.flags), width |-> 0, precision |-> Absent]
  <2>1. q.flags \in Seq(Flag) BY <1>6 DEF IsDirective
  <2>2. DOMAIN q.flags = 1 .. k BY <2>1, <1>5
  <2>3. ToSet(q.flags) = {q.flags[j] : j \in 1 .. k} BY <2>2 DEF ToSet
  <2> QED BY <2>3, <1>4
<1> HIDE DEF n, c
<1>16. /\ now' = [now EXCEPT !["width"] = n.value] /\ args' = ArgsFrom(0 + Given(n))
       /\ at' = ReadTo + c + Len(n.spelled) + 1
  <2>1. /\ CharAt(ReadTo + c + 1) = CharOf(Spell(q), c + 1)
        /\ CharAt(ReadTo + c + Len(n.spelled) + 1) = CharOf(Spell(q), BeforePoint(q) + 1)
        /\ c + Len(n.spelled) <= BeforeEnd(q)
    <3>1. c \in 0 .. z /\ e \in 0 .. z /\ c + w <= z BY <1>9
    <3>2. ReadTo + c + w + 1 = ReadTo + e + 1 BY <1>8, <1>9
    <3> QED BY <3>1, <3>2, <1>7 DEF c, e, z, w
  <2>2. ReadNumber(ReadTo + c + 1, "width") BY <1>1, <1>14
  <2>3. 0 \in Nat /\ c \in Nat BY <1>9
  <2>4. Len(pieces) < Len(meaning) /\ Current.conv # "text" /\ q = Current /\ args = ArgsFrom(0)
    BY <1>2, <1>3, <1>4
  <2>5. /\ Starred(n) => CharAt(ReadTo + c + 1) = "*"
        /\ ~Starred(n) => CharAt(ReadTo + c + 1) # "*" /\ CharAt(ReadTo + c + Len(n.spelled) + 1) \notin Digit
    BY <2>1, <1>12
  <2> QED BY <2>1, <2>2, <2>3, <2>4, <2>5, <1>10, <1>11, <1>13, NumberReads
<1>17. ReadTo' = ReadTo /\ \A g : ArgsFrom(g)' = ArgsFrom(g) BY <1>1, SameRead
<1>18. WidthRead(q)'
  <2>1. now' = [begun |-> ReadTo' + 1, flags |-> ToSet(q.flags), width |-> q.width.value, precision |-> Absent]
    BY <1>15, <1>16, <1>17 DEF n
  <2>2. at' = ReadTo' + e + 1
    <3>1. at' = ReadTo + c + w + 1 BY <1>16 DEF w
    <3>2. ReadTo + c + w + 1 = ReadTo + e + 1 BY <1>8, <1>9
    <3> QED BY <3>1, <3>2, <1>17
  <2>3. 0 + Given(n) = Given(q.width) BY DEF Given, n
  <2>4. args' = ArgsFrom(Given(q.width))' BY <2>3, <1>16, <1>17
  <2> QED BY <2>1, <2>2, <2>4 DEF WidthRead, e
<1>19. FlagsRead(q)' /\ NumbersRead(q)' BY <1>1 DEF FlagsRead, NumbersRead
<1>20. stage' \in Within BY <1>1 DEF Within
<1> QED BY <1>1, <1>2, <1>3, <1>18, <1>19, <1>20, WithinStep

LEMMA PrecisionStep ==
  ASSUME ReadInv, ReadPrecision
  PROVE  ReadInv'
<1>1. /\ stage = "precision" /\ stage' = "modifiers" /\ UNCHANGED <<meaning, format, pieces>>
      /\ IF CharAt(at) = "." THEN ReadNumber(at + 1, "precision") ELSE UNCHANGED <<now, args, at>>
  BY DEF ReadPrecision
<1>2. Len(pieces) < Len(meaning) /\ Current.conv # "text" /\ WidthRead(Current)
  BY <1>1 DEF ReadInv, Within
<1>3. PICK q : q = Current OBVIOUS
<1>4. /\ at = ReadTo + BeforePoint(q) + 1 /\ args = ArgsFrom(Given(q.width))
      /\ now = [begun |-> ReadTo + 1, flags |-> ToSet(q.flags), width |-> q.width.value, precision |-> Absent]
  BY <1>1, <1>2, <1>3 DEF WidthRead
<1>5. IsDirective(q) BY <1>2, <1>3, CharInPiece
<1>6. \A j \in 0 .. BeforeEnd(q) : CharAt(ReadTo + j + 1) = CharOf(Spell(q), j + 1) BY <1>2, <1>3, CharInPiece
<1>7. ReadTo \in Nat BY <1>2, PieceAt
<1>8. ReadTo' = ReadTo /\ \A g : ArgsFrom(g)' = ArgsFrom(g) BY <1>1, SameRead
<1> DEFINE n == q.precision
           c == BeforePrecision(q)
           d == Len(n.spelled)
           b == BeforePoint(q)
           m == BeforeModifier(q)
           z == BeforeEnd(q)
<1>9. /\ c \in Nat /\ d \in Nat /\ b \in Nat /\ m \in Nat /\ z \in Nat /\ b <= m /\ m <= z
      /\ q.point => c = b + 1 /\ m = c + d
      /\ ~q.point => m = b
  BY <1>5, PartsOrdered, Zenon
<1>10. IsNumber(n) /\ q.point \in BOOLEAN BY <1>5 DEF IsDirective
<1> HIDE DEF d, b, m, z
<1>11. CharAt(at) = CharOf(Spell(q), b + 1)
  <2>1. b \in 0 .. z BY <1>9
  <2> QED BY <2>1, <1>4, <1>6 DEF b, z
<1>12. IF q.point THEN CharAt(at) = "." ELSE CharAt(at) # "."
  <2>1. /\ q.point => CharOf(Spell(q), BeforePoint(q) + 1) = "."
        /\ ~q.point => CharOf(Spell(q), BeforePoint(q) + 1) # "."
    BY <1>2, <1>3, <1>5, NotReadOn
  <2> QED BY <2>1, <1>11 DEF b
<1>13. /\ at' = ReadTo + m + 1 /\ args' = ArgsFrom(GivenNumbers(q))
       /\ now' = [begun |-> ReadTo + 1, flags |-> ToSet(q.flags), width |-> q.width.value,
                  precision |-> IF q.point THEN q.precision.value ELSE Absent]
  <2>1. CASE ~q.point
    <3>1. UNCHANGED <<now, args, at>> BY <2>1, <1>1, <1>12
    <3>2. GivenNumbers(q) = Given(q.width) BY <2>1 DEF GivenNumbers, Given
    <3>3. b = m BY <2>1, <1>9
    <3>4. at = ReadTo + m + 1 BY <3>3, <1>4 DEF b
    <3> QED BY <2>1, <3>1, <3>2, <3>4, <1>4
  <2>2. CASE q.point
    <3>1. ReadNumber(at + 1, "precision") BY <2>2, <1>1, <1>12
    <3>2. at + 1 = ReadTo + c + 1
      <4>1. at = ReadTo + b + 1 BY <1>4 DEF b
      <4> HIDE DEF c
      <4> QED BY <4>1, <2>2, <1>7, <1>9
    <3>3. \A j \in 1 .. Len(n.spelled) : Spell(q)[c + j] = n.spelled[j] BY <2>2, <1>2, <1>3, <1>5, SpelledAt
    <3>4. /\ Starred(n) => CharOf(Spell(q), c + 1) = "*"
          /\ ~Starred(n) => CharOf(Spell(q), c + 1) # "*" /\ CharOf(Spell(q), BeforeModifier(q) + 1) \notin Digit
      BY <2>2, <1>2, <1>3, <1>5, NotReadOn
    <3>5. Starred(n) => Given(q.width) < Len(Passed(q)) /\ Passed(q)[Given(q.width) + 1] = n.value
      <4> SUFFICES ASSUME Starred(n)
                   PROVE  Given(q.width) < Len(Passed(q)) /\ Passed(q)[Given(q.width) + 1] = n.value
        OBVIOUS
      <4>1. /\ Len(Passed(q)) = GivenNumbers(q) + IF q.conv \in Conversions THEN 1 ELSE 0
            /\ Passed(q)[Given(q.width) + 1] = n.value
        BY <2>2, <1>2, <1>3, <1>5, PassedTyped
      <4>2. GivenNumbers(q) = Given(q.width) + 1 BY <2>2 DEF GivenNumbers, Given
      <4>3. Given(q.width) \in {0, 1} BY DEF Given
      <4> QED BY <4>1, <4>2, <4>3
    <3>6. c \in 0 .. z /\ m \in 0 .. z /\ c + d <= z /\ ReadTo + c + d + 1 = ReadTo + m + 1
      <4> HIDE DEF c
      <4> QED BY <2>2, <1>7, <1>9
    <3> HIDE DEF c, n
    <3>7. /\ CharAt(ReadTo + c + 1) = CharOf(Spell(q), c + 1)
          /\ CharAt(ReadTo + c + Len(n.spelled) + 1) = CharOf(Spell(q), BeforeModifier(q) + 1)
          /\ c + Len(n.spelled) <= BeforeEnd(q)
      BY <3>6, <1>6 DEF m, z, d
    <3>8. Given(q.width) \in Nat /\ c \in Nat BY <1>9 DEF Given
    <3>9. Len(pieces) < Len(meaning) /\ Current.conv # "text" /\ q = Current /\ args = ArgsFrom(Given(q.width))
          /\ ReadNumber(ReadTo + c + 1, "precision")
      BY <3>1, <3>2, <1>2, <1>3, <1>4
    <3>10. /\ Starred(n) => CharAt(ReadTo + c + 1) = "*"
           /\ ~Starred(n) => CharAt(ReadTo + c + 1) # "*" /\ CharAt(ReadTo + c + Len(n.spelled) + 1) \notin Digit
      BY <3>4, <3>7
    <3>11. /\ now' = [now EXCEPT !["precision"] = n.value] /\ args' = ArgsFrom(Given(q.width) + Given(n))
           /\ at' = ReadTo + c + Len(n.spelled) + 1
      BY <3>3, <3>5, <3>7, <3>8, <3>9, <3>10, <1>10, NumberReads
    <3>12. Given(q.width) + Given(n) = GivenNumbers(q) BY <2>2 DEF GivenNumbers, n
    <3>13. at' = ReadTo + m + 1
      <4>1. at' = ReadTo + c + d + 1 BY <3>11 DEF d
      <4> QED BY <4>1, <3>6
    <3>14. now' = [begun |-> ReadTo + 1, flags |-> ToSet(q.flags), width |-> q.width.value, precision |-> n.value]
      BY <3>11, <1>4
    <3> QED BY <2>2, <3>11, <3>12, <3>13, <3>14 DEF n
  <2> QED BY <2>1, <2>2, <1>10
<1>14. NumbersRead(q)' BY <1>1, <1>8, <1>13 DEF NumbersRead, m
<1>15. FlagsRead(q)' /\ WidthRead(q)' BY <1>1 DEF FlagsRead, WidthRead
<1>16. stage' \in Within BY <1>1 DEF Within
<1> QED BY <1>1, <1>2, <1>3, <1>14, <1>15, <1>16, WithinStep

\* The loops over the modifiers: a times h, then l up to b, then one of the others.
LEMMA ModifierParts ==
  ASSUME NEW m \in Modifiers, NEW e, e \notin OfModifier(m)
  PROVE  LET Nx(k) == IF k < Len(m) THEN m[k + 1] ELSE e
         IN  \E a, b \in 0 .. Len(m) :
                /\ a <= b /\ \A j \in 0 .. a - 1 : Nx(j) = "h"
                /\ \A j \in a .. b - 1 : Nx(j) = "l"
                /\ Nx(a) # "h" /\ Nx(b) # "l"
                /\ Len(m) = IF Nx(b) \in LastModifiers THEN b + 1 ELSE b
<1> DEFINE Nx(k) == IF k < Len(m) THEN m[k + 1] ELSE e
           Parts(a, b) == /\ a \in 0 .. Len(m) /\ b \in 0 .. Len(m)
                          /\ a <= b /\ \A j \in 0 .. a - 1 : Nx(j) = "h"
                          /\ \A j \in a .. b - 1 : Nx(j) = "l"
                          /\ Nx(a) # "h" /\ Nx(b) # "l"
                          /\ Len(m) = IF Nx(b) \in LastModifiers THEN b + 1 ELSE b
<1>1. CASE m = <<>>
  <2>1. ToSet(m) = {} BY <1>1 DEF ToSet
  <2>2. e \notin {"l", "h"} \cup LastModifiers BY <2>1 DEF OfModifier
  <2>3. Parts(0, 0) BY <1>1, <2>2
  <2> QED BY <2>3
<1>2. CASE m = <<"h">>
  <2>1. ToSet(m) = {"h"} BY <1>2 DEF ToSet
  <2>2. e \notin {"l", "h"} \cup LastModifiers BY <2>1 DEF OfModifier, LastModifiers
  <2>3. Parts(1, 1) BY <1>2, <2>2
  <2> QED BY <2>3
<1>3. CASE m = <<"h", "h">>
  <2>1. ToSet(m) = {"h"} BY <1>3 DEF ToSet
  <2>2. e \notin {"l", "h"} \cup LastModifiers BY <2>1 DEF OfModifier, LastModifiers
  <2>3. Parts(2, 2) BY <1>3, <2>2
  <2> QED BY <2>3
<1>4. CASE m = <<"l">>
  <2>1. ToSet(m) = {"l"} BY <1>4 DEF ToSet
  <2>2. e \notin {"l"} \cup LastModifiers BY <2>1 DEF OfModifier, LastModifiers
  <2>3. Parts(0, 1) BY <1>4, <2>2
  <2> QED BY <2>3
<1>5. CASE m = <<"l", "l">>
  <2>1. ToSet(m) = {"l"} BY <1>5 DEF ToSet
  <2>2. e \notin {"l"} \cup LastModifiers BY <2>1 DEF OfModifier, LastModifiers
  <2>3. Parts(0, 2) BY <1>5, <2>2
  <2> QED BY <2>3
<1>6. CASE m \in {<<c>> : c \in LastModifiers}
  <2>1. PICK c \in LastModifiers : m = <<c>> BY <1>6
  <2>2. c \notin {"h", "l"} BY DEF LastModifiers
  <2>3. Parts(0, 0) BY <2>1, <2>2
  <2> QED BY <2>3
<1> HIDE DEF Parts
<1> QED BY <1>1, <1>2, <1>3, <1>4, <1>5, <1>6 DEF Modifiers

LEMMA ModifierStep ==
  ASSUME ReadInv, SkipModifiers
  PROVE  ReadInv'
<1>1. /\ stage = "modifiers" /\ stage' = "conversion" /\ UNCHANGED <<meaning, format, pieces>>
      /\ UNCHANGED <<args, now>>
      /\ at' = LET k == Behind(Behind(at, {"h"}), {"l"}) IN IF CharAt(k) \in LastModifiers THEN k + 1 ELSE k
  BY DEF SkipModifiers
<1>2. Len(pieces) < Len(meaning) /\ Current.conv # "text" /\ NumbersRead(Current)
  BY <1>1 DEF ReadInv, Within
<1>3. PICK q : q = Current OBVIOUS
<1>4. /\ at = ReadTo + BeforeModifier(q) + 1 /\ args = ArgsFrom(GivenNumbers(q))
      /\ now = [begun |-> ReadTo + 1, flags |-> ToSet(q.flags), width |-> q.width.value,
                precision |-> IF q.point THEN q.precision.value ELSE Absent]
  BY <1>1, <1>2, <1>3 DEF NumbersRead
<1>5. IsDirective(q) BY <1>2, <1>3, CharInPiece
<1>6. \A j \in 0 .. BeforeEnd(q) : CharAt(ReadTo + j + 1) = CharOf(Spell(q), j + 1) BY <1>2, <1>3, CharInPiece
<1>7. ReadTo \in Nat /\ Len(format) \in Nat /\ ReadTo + Len(Spell(q)) <= Len(format) BY <1>2, <1>3, PieceAt
<1>8. ReadTo' = ReadTo /\ \A g : ArgsFrom(g)' = ArgsFrom(g) BY <1>1, SameRead
<1> DEFINE m == q.modifier
           e == First(q.chars)
           y == BeforeModifier(q)
           z == BeforeEnd(q)
           n == Len(m)
           c == Len(q.chars)
           Nx(k) == IF k < Len(m) THEN m[k + 1] ELSE e
<1>9. y \in Nat /\ z \in Nat /\ n \in Nat /\ z = y + n /\ c \in Nat BY <1>5, PartsOrdered, Zenon
<1>10. Len(Spell(q)) = z + c /\ \A j \in 1 .. n : Spell(q)[y + j] = m[j] BY <1>2, <1>3, <1>5, SpelledAt
<1>11. CharOf(Spell(q), z + 1) = e /\ e \notin OfModifier(m) BY <1>2, <1>3, <1>5, NotReadOn
<1>12. m \in Modifiers BY <1>5 DEF IsDirective
<1>13. PICK a \in 0 .. n, b \in 0 .. n :
                /\ a <= b /\ \A j \in 0 .. a - 1 : Nx(j) = "h"
                /\ \A j \in a .. b - 1 : Nx(j) = "l"
                /\ Nx(a) # "h" /\ Nx(b) # "l"
                /\ n = IF Nx(b) \in LastModifiers THEN b + 1 ELSE b
  <2>1. e \notin OfModifier(m) BY <1>11
  <2> HIDE DEF m, e
  <2> QED BY <2>1, <1>12, ModifierParts
<1> HIDE DEF y, z, c
<1>14. \A j \in 0 .. n : CharAt(at + j) = Nx(j)
  <2> SUFFICES ASSUME NEW j \in 0 .. n PROVE CharAt(at + j) = Nx(j) OBVIOUS
  <2> HIDE DEF m
  <2>1. at + j = ReadTo + (y + j) + 1
    <3>1. at = ReadTo + y + 1 BY <1>4 DEF y
    <3> QED BY <3>1, <1>7, <1>9
  <2>2. y + j \in 0 .. z BY <1>9
  <2>3. CharAt(at + j) = CharOf(Spell(q), (y + j) + 1) BY <2>1, <2>2, <1>6 DEF z
  <2>4. CASE j < n
    <3>1. j + 1 \in 1 .. n /\ (y + j) + 1 = y + (j + 1) /\ ~((y + j) + 1 > z + c) BY <2>4, <1>9
    <3> QED BY <3>1, <2>3, <2>4, <1>10 DEF CharOf
  <2>5. CASE ~(j < n)
    <3>1. j = n /\ (y + j) + 1 = z + 1 BY <2>5, <1>9
    <3> QED BY <3>1, <2>3, <1>11
  <2> QED BY <2>4, <2>5
<1> HIDE DEF Nx, m, e
<1>15. at \in Nat /\ n \in Nat /\ at + n <= Len(format) + 1
  <2>1. at = ReadTo + y + 1 BY <1>4 DEF y
  <2>2. at + n = ReadTo + z + 1 BY <2>1, <1>7, <1>9
  <2>3. ReadTo + (z + c) <= Len(format) BY <1>7, <1>10
  <2> QED BY <2>1, <2>2, <2>3, <1>7, <1>9
<1> HIDE DEF n
<1>16. a \in Nat /\ b \in Nat /\ a <= b /\ b <= n BY <1>13, <1>15
<1>17. Behind(at, {"h"}) = at + a
  <2>1. \A x \in at .. (at + a) - 1 : CharAt(x) \in {"h"}
    <3> SUFFICES ASSUME NEW x \in at .. (at + a) - 1 PROVE CharAt(x) \in {"h"} OBVIOUS
    <3>1. x - at \in 0 .. a - 1 /\ x - at \in 0 .. n /\ at + (x - at) = x BY <1>15, <1>16
    <3>2. CharAt(at + (x - at)) = Nx(x - at) /\ Nx(x - at) = "h" BY <3>1, <1>13, <1>14
    <3> QED BY <3>1, <3>2
  <2>2. a \in 0 .. n BY <1>13
  <2>3. CharAt(at + a) \notin {"h"} BY <2>2, <1>13, <1>14
  <2>4. at + a \in Nat /\ at <= at + a /\ at + a <= Len(format) + 1 BY <1>7, <1>15, <1>16
  <2> QED BY <2>1, <2>3, <2>4, <1>7, <1>15, BehindIs
<1>18. Behind(at + a, {"l"}) = at + b
  <2>1. \A x \in at + a .. (at + b) - 1 : CharAt(x) \in {"l"}
    <3> SUFFICES ASSUME NEW x \in at + a .. (at + b) - 1 PROVE CharAt(x) \in {"l"} OBVIOUS
    <3>1. x - at \in a .. b - 1 /\ x - at \in 0 .. n /\ at + (x - at) = x BY <1>15, <1>16
    <3>2. CharAt(at + (x - at)) = Nx(x - at) /\ Nx(x - at) = "l" BY <3>1, <1>13, <1>14
    <3> QED BY <3>1, <3>2
  <2>2. b \in 0 .. n BY <1>13
  <2>3. CharAt(at + b) \notin {"l"} BY <2>2, <1>13, <1>14
  <2>4. at + a \in Nat /\ at + b \in Nat /\ at + a <= at + b /\ at + b <= Len(format) + 1 BY <1>7, <1>15, <1>16
  <2> QED BY <2>1, <2>3, <2>4, <1>7, BehindIs
<1>19. at' = at + n
  <2>1. b \in 0 .. n BY <1>13
  <2>2. CharAt(at + b) = Nx(b) BY <2>1, <1>14
  <2>3. at' = IF Nx(b) \in LastModifiers THEN at + b + 1 ELSE at + b BY <2>2, <1>1, <1>17, <1>18
  <2>4. n = IF Nx(b) \in LastModifiers THEN b + 1 ELSE b BY <1>13
  <2>5. at + (b + 1) = at + b + 1 BY <1>15, <1>16
  <2> QED BY <2>3, <2>4, <2>5
<1>20. at' = ReadTo + BeforeEnd(q) + 1
  <2>1. at = ReadTo + y + 1 BY <1>4 DEF y
  <2>2. at + n = ReadTo + z + 1 BY <2>1, <1>7, <1>9
  <2> QED BY <2>2, <1>19 DEF z
<1>21. NumbersRead(q)' BY <1>1, <1>4, <1>8, <1>20 DEF NumbersRead
<1>22. FlagsRead(q)' /\ WidthRead(q)' BY <1>1 DEF FlagsRead, WidthRead
<1>23. stage' \in Within BY <1>1 DEF Within
<1> QED BY <1>1, <1>2, <1>3, <1>21, <1>22, <1>23, WithinStep

\* A piece that has been read: what it is, and where it ends.
LEMMA PieceDone ==
  ASSUME ReadInv, Len(pieces) < Len(meaning),
         UNCHANGED <<meaning, format>>, stage' = "print",
         NEW CONSTANT q, q = Current, pieces' = Append(pieces, Meant(q)),
         at' = ReadTo + Len(Spell(q)) + 1, args' = ArgsFrom(Len(Passed(q)))
  PROVE  ReadInv'
<1> DEFINE x == Len(pieces)
           n == Len(meaning)
           oo == Ends(SpellsOf(meaning))
           o == Ends(PassingsOf(meaning))
           all == FlattenSeq(PassingsOf(meaning))
<1>1. x \in Nat /\ ReadTo \in Nat /\ ReadTo + Len(Spell(q)) = oo[x + 1] BY PieceAt
<1>2. o[x] \in Nat /\ Len(Passed(q)) \in Nat /\ o[x + 1] = o[x] + Len(Passed(q))
  <2>1. 0 \in Nat OBVIOUS
  <2> QED BY <2>1, ArgumentAt
<1>3. x \in 0 .. n /\ x < n /\ pieces = [k \in 1 .. x |-> Meant(meaning[k])] BY DEF ReadInv, PiecesRead
<1>4. n \in Nat BY MeaningRead, FormatAt
<1>5. q = meaning[x + 1] BY DEF Current
<1> HIDE DEF x
<1>6. Len(pieces') = x + 1 /\ pieces' = [k \in 1 .. x + 1 |-> Meant(meaning[k])]
  <2>1. Len(pieces) = x BY DEF x
  <2>2. Append(pieces, Meant(q)) = [k \in 1 .. x + 1 |-> IF k = x + 1 THEN Meant(q) ELSE pieces[k]]
        /\ Len(Append(pieces, Meant(q))) = x + 1
    <3> DEFINE S == {Meant(meaning[k]) : k \in 1 .. x} \cup {Meant(q)}
    <3>1. pieces \in Seq(S) BY <1>1, <1>3
    <3>2. Meant(q) \in S OBVIOUS
    <3> HIDE DEF S
    <3> DEFINE v == Meant(q)
    <3> HIDE DEF v
    <3>3. v \in S BY <3>2 DEF v
    <3>4. /\ Append(pieces, v) \in Seq(S) /\ Len(Append(pieces, v)) = x + 1
          /\ \A k \in 1 .. x + 1 : Append(pieces, v)[k] = IF k = x + 1 THEN v ELSE pieces[k]
      BY <2>1, <3>1, <3>3, <1>1
    <3>5. Append(pieces, v) = [k \in 1 .. x + 1 |-> Append(pieces, v)[k]]
      <4> DEFINE u == Append(pieces, v)
      <4>1. u \in Seq(S) /\ Len(u) = x + 1 BY <3>4
      <4> HIDE DEF u
      <4>2. u = [k \in 1 .. x + 1 |-> u[k]] BY <4>1, <1>1
      <4> QED BY <4>2 DEF u
    <3>6. Append(pieces, v) = [k \in 1 .. x + 1 |-> IF k = x + 1 THEN v ELSE pieces[k]] BY <3>4, <3>5
    <3> QED BY <3>4, <3>6 DEF v
  <2>3. \A k \in 1 .. x + 1 : (IF k = x + 1 THEN Meant(q) ELSE pieces[k]) = Meant(meaning[k])
    <3> SUFFICES ASSUME NEW k \in 1 .. x + 1
                 PROVE  (IF k = x + 1 THEN Meant(q) ELSE pieces[k]) = Meant(meaning[k])
      OBVIOUS
    <3>1. CASE k = x + 1 BY <3>1, <1>5
    <3>2. CASE k # x + 1
      <4>1. k \in 1 .. x BY <3>2, <1>1
      <4> QED BY <3>2, <4>1, <1>3
    <3> QED BY <3>1, <3>2
  <2> QED BY <2>2, <2>3
<1>7. PiecesRead'
  <2>1. meaning' = meaning OBVIOUS
  <2>2. x + 1 \in 0 .. n BY <1>1, <1>3, <1>4
  <2> QED BY <2>1, <2>2, <1>6 DEF PiecesRead
<1>8. ReadTo' = oo[x + 1] /\ ArgsFrom(0)' = SubSeq(all, o[x + 1] + 0 + 1, Len(all))
  <2>1. meaning' = meaning /\ Len(pieces)' = x + 1 BY <1>6
  <2> QED BY <2>1 DEF ReadTo, ArgsFrom
<1>9. ArgsFrom(0)' = ArgsFrom(Len(Passed(q)))
  <2>1. ArgsFrom(Len(Passed(q))) = SubSeq(all, o[x] + Len(Passed(q)) + 1, Len(all)) BY DEF ArgsFrom, x
  <2> HIDE DEF o, all
  <2>2. o[x + 1] + 0 + 1 = o[x] + Len(Passed(q)) + 1 BY <1>2
  <2> QED BY <2>1, <2>2, <1>8
<1>10. at' = ReadTo' + 1 /\ args' = ArgsFrom(0)' BY <1>1, <1>8, <1>9
<1>11. Len(pieces)' > 0 BY <1>1, <1>6
<1>12. stage' \in Between /\ stage' \notin Within BY DEF Between, Within
<1>13. meaning' \in Meanings /\ format' = FlattenSeq(SpellsOf(meaning')) BY DEF ReadInv
<1> QED BY <1>7, <1>10, <1>11, <1>12, <1>13 DEF ReadInv

\* Before the end of the format a piece is next, text exactly if the code takes it for text.
LEMMA PieceNext ==
  ASSUME ReadInv, stage = "piece", CharAt(at) # End
  PROVE  /\ Len(pieces) < Len(meaning) /\ at = ReadTo + 1 /\ args = ArgsFrom(0)
         /\ IF IsText THEN IsTextPiece(Current) ELSE IsDirective(Current) /\ Current.conv # "text"
<1>1. at = ReadTo + 1 /\ args = ArgsFrom(0) BY DEF ReadInv, Between
<1>2. Len(pieces) < Len(meaning)
  <2>1. Len(pieces) \in 0 .. Len(meaning) BY DEF ReadInv, PiecesRead
  <2>2. Len(pieces) # Len(meaning) BY <1>1, NoPieceLeft
  <2>3. Len(meaning) \in Nat BY MeaningRead, FormatAt
  <2> QED BY <2>1, <2>2, <2>3
<1>3. PICK q : q = Current OBVIOUS
<1>4. /\ ReadTo \in Nat /\ Len(Spell(q)) \in Nat \ {0} /\ (IsTextPiece(q) \/ IsDirective(q))
      /\ \A k \in 1 .. Len(Spell(q)) : CharAt(ReadTo + k) = Spell(q)[k]
  BY <1>2, <1>3, PieceAt
<1>5. CharAt(at) = Spell(q)[1] BY <1>1, <1>4
<1>6. CASE q.conv = "text"
  <2>1. IsTextPiece(q) BY <1>4, <1>6, TextOrNot
  <2>2. /\ Len(q.chars) \in Nat \ {0} /\ Len(Spell(q)) = Doubled(q) + Len(q.chars)
        /\ \A k \in 1 .. Len(q.chars) : Spell(q)[Doubled(q) + k] = q.chars[k]
    BY <2>1, TextSpelled
  <2>3. CASE q.chars[1] = "%"
    <3>1. Doubled(q) = 1 BY <2>3 DEF Doubled
    <3>2. 2 \in 1 .. Len(Spell(q)) /\ 1 \in 1 .. Len(q.chars) BY <2>2, <3>1
    <3>3. CharAt(ReadTo + 2) = Spell(q)[2] /\ Spell(q)[1 + 1] = "%" BY <2>2, <2>3, <3>1, <3>2, <1>4
    <3>4. CharAt(at + 1) = "%"
      <4>1. at + 1 = ReadTo + 2 /\ 1 + 1 = 2 BY <1>1, <1>4
      <4> QED BY <3>3, <4>1
    <3> QED BY <2>1, <3>4, <1>1, <1>2, <1>3 DEF IsText
  <2>4. CASE q.chars[1] # "%"
    <3>1. Doubled(q) = 0 BY <2>4 DEF Doubled
    <3>2. 1 \in 1 .. Len(q.chars) BY <2>2
    <3>3. Spell(q)[0 + 1] = q.chars[1] BY <2>2, <3>1, <3>2
    <3>4. CharAt(at) # "%" BY <3>3, <2>4, <1>5
    <3> QED BY <2>1, <3>4, <1>1, <1>2, <1>3 DEF IsText
  <2> QED BY <2>3, <2>4
<1>7. CASE q.conv # "text"
  <2>1. IsDirective(q) BY <1>4, <1>7, TextOrNot
  <2>2. Spell(q)[1] = "%" BY <2>1, <1>7, SpelledAt
  <2>3. CharOf(Spell(q), 1 + 1) # "%" BY <2>1, <1>7, NotReadOn
  <2>4. \A k \in 0 .. BeforeEnd(q) : CharAt(ReadTo + k + 1) = CharOf(Spell(q), k + 1)
    BY <1>2, <1>3, <1>7, CharInPiece
  <2>5. BeforeEnd(q) \in Nat /\ BeforeEnd(q) >= 1
    <3>1. /\ BeforeWidth(q) \in Nat /\ BeforePoint(q) \in Nat /\ BeforeModifier(q) \in Nat
          /\ BeforeEnd(q) \in Nat
          /\ 1 <= BeforeWidth(q) /\ BeforeWidth(q) <= BeforePoint(q)
          /\ BeforePoint(q) <= BeforeModifier(q) /\ BeforeModifier(q) <= BeforeEnd(q)
      BY <2>1, PartsOrdered, Zenon
    <3> QED BY <3>1
  <2>6. 1 \in 0 .. BeforeEnd(q) BY <2>5
  <2>7. CharAt(at + 1) # "%"
    <3>1. CharAt(ReadTo + 1 + 1) # "%" BY <2>3, <2>4, <2>6
    <3> QED BY <3>1, <1>1
  <2>8. ~IsText BY <2>2, <2>7, <1>5 DEF IsText
  <2> QED BY <2>1, <2>8, <1>1, <1>2, <1>3, <1>7
<1> QED BY <1>6, <1>7

LEMMA DirectiveBegins ==
  ASSUME ReadInv, BeginDirective
  PROVE  ReadInv'
<1>1. /\ stage = "piece" /\ ~IsText /\ stage' = "flags" /\ at' = at + 1 /\ args' = args
      /\ UNCHANGED <<meaning, format, pieces>> /\ now' = [NoDirective EXCEPT !.begun = at]
  BY DEF BeginDirective
<1>2. CharAt(at) = "%" BY <1>1 DEF IsText
<1>3. CharAt(at) # End BY <1>2 DEF End
<1>4. Len(pieces) < Len(meaning) /\ at = ReadTo + 1 /\ args = ArgsFrom(0) /\ IsDirective(Current) /\ Current.conv # "text"
  BY <1>1, <1>3, PieceNext
<1>5. PICK q : q = Current OBVIOUS
<1>6. ReadTo \in Nat /\ Len(q.flags) \in Nat BY <1>4, <1>5, PieceAt, PartsOrdered, Zenon
<1>7. ReadTo' = ReadTo /\ ArgsFrom(0)' = ArgsFrom(0) BY <1>1, SameRead
<1>8. FlagsRead(q)'
  <2>1. 0 \in 0 .. Len(q.flags) BY <1>6
  <2>2. at' = ReadTo' + 1 + 0 + 1 BY <1>1, <1>4, <1>6, <1>7
  <2>3. {q.flags[j] : j \in 1 .. 0} = {} OBVIOUS
  <2>4. now' = [begun |-> ReadTo' + 1, flags |-> {q.flags[j] : j \in 1 .. 0}, width |-> 0, precision |-> Absent]
    BY <1>1, <1>4, <1>7, <2>3 DEF NoDirective
  <2>5. args' = ArgsFrom(0)' BY <1>1, <1>4, <1>7
  <2> QED BY <2>1, <2>2, <2>4, <2>5 DEF FlagsRead
<1>9. WidthRead(q)' /\ NumbersRead(q)' BY <1>1 DEF WidthRead, NumbersRead
<1>10. stage' \in Within BY <1>1 DEF Within
<1> QED BY <1>1, <1>4, <1>5, <1>8, <1>9, <1>10, WithinStep

LEMMA TextStep ==
  ASSUME ReadInv, ReadText
  PROVE  ReadInv'
<1> DEFINE start == IF CharAt(at) = "%" THEN at + 1 ELSE at
           Stops(j) == CharAt(j) \in {"%", End} /\ \A x \in start + 1 .. j - 1 : CharAt(x) # "%"
           stop == CHOOSE j \in start + 1 .. Len(format) + 1 : Stops(j)
<1>1. /\ stage = "piece" /\ CharAt(at) # End /\ IsText
      /\ pieces' = Append(pieces, Text(SubSeq(format, start, stop - 1)))
      /\ at' = stop /\ stage' = "print" /\ UNCHANGED <<meaning, format, args>>
  BY DEF ReadText
<1>2. Len(pieces) < Len(meaning) /\ at = ReadTo + 1 /\ args = ArgsFrom(0) /\ IsTextPiece(Current)
  BY <1>1, PieceNext
<1>3. PICK q : q = Current OBVIOUS
<1> DEFINE c == q.chars
           n == Len(c)
           l == Len(Spell(q))
           d == Doubled(q)
<1>4. /\ n \in Nat \ {0} /\ l = d + n
      /\ \A k \in 1 .. n : Spell(q)[d + k] = c[k]
  BY <1>2, <1>3, TextSpelled
<1>5. /\ ReadTo \in Nat /\ Len(format) \in Nat /\ ReadTo + l <= Len(format)
      /\ \A k \in 1 .. l : format[ReadTo + k] = Spell(q)[k] /\ CharAt(ReadTo + k) = Spell(q)[k] /\ Spell(q)[k] # End
      /\ Len(pieces) + 1 = Len(meaning) => ReadTo + l = Len(format) /\ CharAt(ReadTo + l + 1) = End
      /\ Len(pieces) + 1 # Len(meaning) => (q.conv = "text" => CharAt(ReadTo + l + 1) = "%")
  BY <1>2, <1>3, PieceAt
<1>6. PICK S : format \in Seq(S) BY <1>2, PieceAt
<1>7. /\ q.conv = "text" /\ c \in Seq(ToSet(c)) /\ \A k \in 2 .. n : c[k] # "%"
  BY <1>2, <1>3 DEF IsTextPiece
<1>8. start = ReadTo + d + 1 /\ d \in {0, 1}
  <2>1. CharAt(at) = Spell(q)[1]
    <3>1. d \in {0, 1} BY DEF Doubled
    <3> HIDE DEF d, n
    <3>2. l \in Nat /\ l >= 1 BY <3>1, <1>4
    <3> QED BY <3>2, <1>2, <1>5
  <2>2. CASE c[1] = "%"
    <3>1. d = 1 BY <2>2 DEF Doubled
    <3>2. Spell(q)[1] = "%" BY <3>1, <1>2, <1>3, TextSpelled
    <3> QED BY <2>1, <3>1, <3>2, <1>2, <1>5
  <2>3. CASE c[1] # "%"
    <3>1. d = 0 BY <2>3 DEF Doubled
    <3>2. 1 \in 1 .. n BY <1>4
    <3>3. Spell(q)[0 + 1] = c[1] BY <3>1, <3>2, <1>4
    <3>4. CharAt(at) # "%" BY <2>1, <2>3, <3>3
    <3> QED BY <3>1, <3>4, <1>2, <1>5
  <2> QED BY <2>2, <2>3
<1> DEFINE e == ReadTo + l + 1
<1> HIDE DEF start, c, n, l, d
<1>9. \A k \in 1 .. n : format[ReadTo + d + k] = c[k] /\ CharAt(ReadTo + d + k) = c[k] /\ c[k] # End
  <2> SUFFICES ASSUME NEW k \in 1 .. n
               PROVE  format[ReadTo + d + k] = c[k] /\ CharAt(ReadTo + d + k) = c[k] /\ c[k] # End
    OBVIOUS
  <2>1. d + k \in 1 .. l /\ ReadTo + d + k = ReadTo + (d + k) BY <1>4, <1>5, <1>8
  <2> QED BY <2>1, <1>4, <1>5
<1>10. e \in start + 1 .. Len(format) + 1 /\ e = ReadTo + d + n + 1 BY <1>4, <1>5, <1>8
<1>11. \A x \in start + 1 .. e - 1 : CharAt(x) \notin {"%", End}
  <2> SUFFICES ASSUME NEW x \in start + 1 .. e - 1 PROVE CharAt(x) \notin {"%", End} OBVIOUS
  <2>1. x - ReadTo - d \in 2 .. n /\ x - ReadTo - d \in 1 .. n /\ ReadTo + d + (x - ReadTo - d) = x
    BY <1>4, <1>5, <1>8, <1>10
  <2>2. c[x - ReadTo - d] # "%" BY <2>1, <1>7 DEF n, c
  <2> QED BY <2>1, <2>2, <1>9
<1>12. CharAt(e) = "%" \/ (CharAt(e) = End /\ e = Len(format) + 1)
  <2>1. CASE Len(pieces) + 1 = Len(meaning) BY <2>1, <1>5
  <2>2. CASE Len(pieces) + 1 # Len(meaning) BY <2>2, <1>5, <1>7
  <2> QED BY <2>1, <2>2
<1> HIDE DEF e
<1>13. stop = e
  <2>1. Stops(e) BY <1>11, <1>12
  <2>2. ASSUME NEW j \in start + 1 .. Len(format) + 1, Stops(j) PROVE j = e
    <3>0. e \in Int /\ Len(format) \in Nat /\ start \in Int BY <1>5, <1>8, <1>10
    <3>1. CASE j < e
      <4>1. j \in start + 1 .. e - 1 BY <3>0, <3>1
      <4> QED BY <4>1, <2>2, <1>11
    <3>2. CASE j > e
      <4>1. e # Len(format) + 1 /\ e \in start + 1 .. j - 1 BY <3>0, <3>2, <1>10
      <4>2. CharAt(e) = "%" BY <4>1, <1>12
      <4> QED BY <4>1, <4>2, <2>2
    <3> QED BY <3>0, <3>1, <3>2
  <2> HIDE DEF Stops
  <2> QED BY <2>1, <2>2, <1>10
<1> HIDE DEF stop
<1>14. SubSeq(format, start, stop - 1) = c
  <2> DEFINE o == ReadTo + d
  <2>1. o \in Nat /\ start = o + 1 /\ stop - 1 = o + n /\ o + n <= Len(format) BY <1>4, <1>5, <1>8, <1>10, <1>13
  <2>2. \A k \in 1 .. n : format[o + k] = c[k] BY <1>9
  <2> HIDE DEF o
  <2>3. SubSeq(format, o + 1, o + n) = c BY <2>1, <2>2, <1>6, <1>7, CutOut DEF n
  <2> QED BY <2>1, <2>3
<1>15. Meant(q) = Text(c) BY <1>7 DEF Meant, c
<1>16. Passed(q) = <<>> BY <1>7 DEF Passed
<1>17. args' = ArgsFrom(Len(Passed(q))) BY <1>1, <1>2, <1>16
<1>18. at' = ReadTo + Len(Spell(q)) + 1 BY <1>1, <1>13 DEF e, l
<1>19. pieces' = Append(pieces, Meant(q)) BY <1>1, <1>14, <1>15
<1> QED BY <1>1, <1>2, <1>3, <1>17, <1>18, <1>19, PieceDone

\* Where a conversion is read, or found missing.
LEMMA ConversionStart ==
  ASSUME ReadInv, stage = "conversion", NEW CONSTANT q, q = Current
  PROVE  /\ Len(pieces) < Len(meaning) /\ q.conv # "text" /\ IsDirective(q) /\ ReadTo \in Nat
         /\ at = ReadTo + BeforeEnd(q) + 1 /\ args = ArgsFrom(GivenNumbers(q))
         /\ now = [begun |-> ReadTo + 1, flags |-> ToSet(q.flags), width |-> q.width.value,
                   precision |-> IF q.point THEN q.precision.value ELSE Absent]
         /\ CharAt(at) = First(q.chars)
         /\ Len(Spell(q)) = BeforeEnd(q) + Len(q.chars) /\ BeforeEnd(q) \in Nat
         /\ Len(Passed(q)) = GivenNumbers(q) + (IF q.conv \in Conversions THEN 1 ELSE 0)
         /\ GivenNumbers(q) \in Nat
<1>1. Len(pieces) < Len(meaning) /\ q.conv # "text" /\ NumbersRead(q) BY DEF ReadInv, Within
<1>2. IsDirective(q) /\ \A j \in 0 .. BeforeEnd(q) : CharAt(ReadTo + j + 1) = CharOf(Spell(q), j + 1)
  BY <1>1, CharInPiece
<1>3. BeforeEnd(q) \in Nat BY <1>2, PartsOrdered, Zenon
<1>4. CharOf(Spell(q), BeforeEnd(q) + 1) = First(q.chars) BY <1>1, <1>2, NotReadOn
<1>5. /\ at = ReadTo + BeforeEnd(q) + 1 /\ args = ArgsFrom(GivenNumbers(q))
      /\ now = [begun |-> ReadTo + 1, flags |-> ToSet(q.flags), width |-> q.width.value,
                precision |-> IF q.point THEN q.precision.value ELSE Absent]
  BY <1>1 DEF NumbersRead
<1>6. CharAt(at) = First(q.chars)
  <2>1. BeforeEnd(q) \in 0 .. BeforeEnd(q) BY <1>3
  <2> QED BY <2>1, <1>2, <1>4, <1>5
<1>7. Len(Spell(q)) = BeforeEnd(q) + Len(q.chars) BY <1>1, <1>2, SpelledAt
<1>8. Len(Passed(q)) = GivenNumbers(q) + (IF q.conv \in Conversions THEN 1 ELSE 0) BY <1>1, <1>2, PassedTyped
<1>9. GivenNumbers(q) \in Nat
  <2>1. q.point \in BOOLEAN BY <1>2 DEF IsDirective
  <2>2. Given(q.width) \in {0, 1} /\ Given(q.precision) \in {0, 1} BY DEF Given
  <2> QED BY <2>1, <2>2 DEF GivenNumbers
<1>10. ReadTo \in Nat BY <1>1, PieceAt
<1> QED BY <1>1, <1>2, <1>3, <1>5, <1>6, <1>7, <1>8, <1>9, <1>10

LEMMA ConversionStep ==
  ASSUME ReadInv, Convert
  PROVE  ReadInv'
<1>1. /\ stage = "conversion" /\ CharAt(at) \in Conversions /\ stage' = "print" /\ UNCHANGED <<meaning, format>>
      /\ pieces' = Append(pieces, Directive(now, CharAt(at), Head(args)))
      /\ args' = Tail(args) /\ at' = at + 1
  BY DEF Convert
<1>2. PICK q : q = Current OBVIOUS
<1>3. /\ Len(pieces) < Len(meaning) /\ q.conv # "text" /\ IsDirective(q) /\ ReadTo \in Nat
      /\ at = ReadTo + BeforeEnd(q) + 1 /\ args = ArgsFrom(GivenNumbers(q))
      /\ now = [begun |-> ReadTo + 1, flags |-> ToSet(q.flags), width |-> q.width.value,
                precision |-> IF q.point THEN q.precision.value ELSE Absent]
      /\ CharAt(at) = First(q.chars)
      /\ Len(Spell(q)) = BeforeEnd(q) + Len(q.chars) /\ BeforeEnd(q) \in Nat
      /\ Len(Passed(q)) = GivenNumbers(q) + (IF q.conv \in Conversions THEN 1 ELSE 0)
      /\ GivenNumbers(q) \in Nat
  BY <1>1, <1>2, ConversionStart
<1>4. q.conv \in Conversions /\ CharAt(at) = q.conv
  <2>1. /\ q.conv \in Conversions => First(q.chars) = q.conv
        /\ q.conv \notin Conversions => First(q.chars) \notin Conversions
    BY <1>3, EndsThere
  <2> QED BY <2>1, <1>1, <1>3
<1>5. Head(args) = q.arg /\ args' = ArgsFrom(Len(Passed(q)))
  <2>1. Passed(q)[GivenNumbers(q) + 1] = q.arg BY <1>3, <1>4, PassedTyped
  <2>2. GivenNumbers(q) < Len(Passed(q)) /\ GivenNumbers(q) + 1 = Len(Passed(q)) BY <1>3, <1>4
  <2>3. Head(ArgsFrom(GivenNumbers(q))) = Passed(q)[GivenNumbers(q) + 1]
        /\ Tail(ArgsFrom(GivenNumbers(q))) = ArgsFrom(GivenNumbers(q) + 1)
    BY <2>2, <1>2, <1>3, ArgumentAt
  <2> QED BY <2>1, <2>2, <2>3, <1>1, <1>3
<1>6. Directive(now, CharAt(at), Head(args)) = Meant(q)
  <2>1. q.conv # "bad" BY <1>4 DEF Conversions
  <2>2. Meant(q) = Directive([flags |-> ToSet(q.flags), width |-> q.width.value,
                              precision |-> IF q.point THEN q.precision.value ELSE Absent], q.conv, q.arg)
    BY <2>1, <1>3 DEF Meant
  <2>3. /\ now.flags = ToSet(q.flags) /\ now.width = q.width.value
        /\ now.precision = IF q.point THEN q.precision.value ELSE Absent
    BY <1>3
  <2> QED BY <2>2, <2>3, <1>4, <1>5 DEF Directive
<1>7. at' = ReadTo + Len(Spell(q)) + 1
  <2>1. q.chars = <<q.conv>> BY <1>3, <1>4 DEF IsDirective, Conversions
  <2>2. Len(q.chars) = 1 BY <2>1
  <2> QED BY <2>2, <1>1, <1>3
<1>8. pieces' = Append(pieces, Meant(q)) BY <1>1, <1>6
<1> QED BY <1>1, <1>2, <1>3, <1>5, <1>7, <1>8, PieceDone

LEMMA NoConversionStep ==
  ASSUME ReadInv, ConvertNothing
  PROVE  ReadInv'
<1>1. /\ stage = "conversion" /\ CharAt(at) \notin Conversions /\ stage' = "print" /\ UNCHANGED <<meaning, format>>
      /\ pieces' = Append(pieces, Text(SubSeq(format, now.begun, Len(format))))
      /\ args' = args /\ at' = Len(format) + 1
  BY DEF ConvertNothing
<1>2. PICK q : q = Current OBVIOUS
<1>3. /\ Len(pieces) < Len(meaning) /\ q.conv # "text" /\ IsDirective(q) /\ ReadTo \in Nat
      /\ args = ArgsFrom(GivenNumbers(q)) /\ now.begun = ReadTo + 1
      /\ CharAt(at) = First(q.chars)
      /\ Len(Passed(q)) = GivenNumbers(q) + (IF q.conv \in Conversions THEN 1 ELSE 0)
      /\ GivenNumbers(q) \in Nat
  BY <1>1, <1>2, ConversionStart
<1>4. q.conv = "bad" /\ q.conv \notin Conversions
  <2>1. /\ q.conv \in Conversions => First(q.chars) = q.conv
        /\ q.conv \notin Conversions => q.conv = "bad"
    BY <1>3, EndsThere
  <2> QED BY <2>1, <1>1, <1>3
<1> DEFINE s == Spell(q)
           l == Len(s)
<1>5. /\ l \in Nat \ {0} /\ Len(format) \in Nat /\ ReadTo + l <= Len(format)
      /\ \A k \in 1 .. l : format[ReadTo + k] = s[k]
      /\ Len(pieces) + 1 = Len(meaning) => ReadTo + l = Len(format)
      /\ Len(pieces) + 1 # Len(meaning) => q.conv # "bad"
  BY <1>2, <1>3, PieceAt
<1>6. PICK S : format \in Seq(S) BY <1>3, PieceAt
<1>7. ReadTo + l = Len(format) BY <1>4, <1>5
<1>8. s \in Seq(CharsOf(q)) BY <1>3, SpelledAt
<1> HIDE DEF s
<1>9. SubSeq(format, now.begun, Len(format)) = s
  <2>1. SubSeq(format, ReadTo + 1, ReadTo + l) = s BY <1>3, <1>5, <1>6, <1>8, CutOut
  <2> QED BY <2>1, <1>3, <1>7
<1>10. Meant(q) = Text(s) BY <1>4 DEF Meant, s
<1>11. args' = ArgsFrom(Len(Passed(q))) BY <1>1, <1>3, <1>4
<1>12. at' = ReadTo + Len(Spell(q)) + 1 BY <1>1, <1>7 DEF s
<1>13. pieces' = Append(pieces, Meant(q)) BY <1>1, <1>9, <1>10
<1> QED BY <1>1, <1>2, <1>3, <1>11, <1>12, <1>13, PieceDone

\* The invariant of the reading is inductive.
LEMMA ReadStarts == ReadInit => ReadInv
<1> SUFFICES ASSUME ReadInit PROVE ReadInv OBVIOUS
<1>1. /\ meaning \in Meanings /\ format = FlattenSeq(SpellsOf(meaning)) /\ args = FlattenSeq(PassingsOf(meaning))
      /\ at = 1 /\ stage = "piece" /\ pieces = <<>>
  BY DEF ReadInit, SpellsOf, PassingsOf
<1>2. IsMeaning(meaning) BY <1>1, MeaningAssumption
<1>3. Len(pieces) = 0 BY <1>1
<1>4. Len(meaning) \in Nat /\ Ends(SpellsOf(meaning))[0] = 0 BY <1>2, FormatAt
<1>5. Ends(PassingsOf(meaning))[0] = 0 /\ args \in Seq(Int) BY <1>1, <1>2, ArgumentsAt
<1>6. ReadTo = 0 BY <1>3, <1>4 DEF ReadTo
<1>7. ArgsFrom(0) = args
  <2>1. ArgsFrom(0) = SubSeq(args, 0 + 0 + 1, Len(args)) BY <1>1, <1>3, <1>5 DEF ArgsFrom
  <2>2. SubSeq(args, 1, Len(args)) = args BY <1>5
  <2> QED BY <2>1, <2>2
<1>8. PiecesRead
  <2>1. pieces = [k \in 1 .. 0 |-> Meant(meaning[k])] BY <1>1
  <2> QED BY <2>1, <1>3, <1>4 DEF PiecesRead
<1>9. stage \in Between /\ stage \notin Within BY <1>1 DEF Between, Within
<1>10. at = ReadTo + 1 BY <1>1, <1>6
<1> QED BY <1>1, <1>7, <1>8, <1>9, <1>10 DEF ReadInv

LEMMA ReadStays == ReadInv /\ UNCHANGED readVars => ReadInv'
  BY DEF ReadInv, readVars, PiecesRead, ReadTo, Current, ArgsFrom, FlagsRead, WidthRead, NumbersRead

LEMMA PieceLeft ==
  ASSUME ReadInv, stage = "print", stage' = "piece", UNCHANGED <<meaning, format, args, at, now, pieces>>
  PROVE  ReadInv'
<1>1. ReadTo' = ReadTo /\ ArgsFrom(0)' = ArgsFrom(0) BY SameRead
<1>2. at = ReadTo + 1 /\ args = ArgsFrom(0) BY DEF ReadInv, Between
<1>3. stage' \in Between /\ stage' \notin Within BY DEF Between, Within
<1>4. PiecesRead' BY DEF ReadInv, PiecesRead
<1>5. meaning' \in Meanings /\ format' = FlattenSeq(SpellsOf(meaning')) BY DEF ReadInv
<1> QED BY <1>1, <1>2, <1>3, <1>4, <1>5 DEF ReadInv

LEMMA ReadInductive == ReadInv /\ [PrintfNext]_printfVars => ReadInv'
<1> SUFFICES ASSUME ReadInv, [PrintfNext]_printfVars PROVE ReadInv' OBVIOUS
<1>1. CASE ReadPiece
  <2>1. Read BY <1>1 DEF ReadPiece
  <2> QED BY <2>1, TextStep, DirectiveBegins, FlagStep, WidthStep, PrecisionStep, ModifierStep, ConversionStep,
            NoConversionStep DEF Read
<1>2. CASE Overflow BY <1>2, ReadStays DEF Overflow
<1>3. CASE PrintPiece BY <1>3, PieceLeft DEF PrintPiece
<1>4. CASE Finish BY <1>4, ReadStays DEF Finish
<1>5. CASE UNCHANGED printfVars BY <1>5, ReadStays DEF printfVars
<1> QED BY <1>1, <1>2, <1>3, <1>4, <1>5 DEF PrintfNext

\* It says that what has been read is what was meant.
LEMMA AsMeant == ReadInv => ReadAsMeant
<1> SUFFICES ASSUME ReadInv PROVE ReadAsMeant OBVIOUS
<1> DEFINE meant == [k \in DOMAIN meaning |-> Meant(meaning[k])]
           n == Len(meaning)
           x == Len(pieces)
<1>1. IsMeaning(meaning) BY MeaningRead
<1>2. n \in Nat /\ DOMAIN meaning = 1 .. n BY <1>1, FormatAt
<1>3. x \in 0 .. n /\ pieces = [k \in 1 .. x |-> Meant(meaning[k])] BY DEF ReadInv, PiecesRead
<1>4. meant = [k \in 1 .. n |-> Meant(meaning[k])] BY <1>2
<1> HIDE DEF n, x
<1> DEFINE S == {Meant(meaning[k]) : k \in 1 .. n}
<1>5. meant \in Seq(S) /\ Len(meant) = n /\ pieces \in Seq(S) /\ Len(pieces) = x
  <2>1. \A k \in 1 .. n : Meant(meaning[k]) \in S OBVIOUS
  <2> HIDE DEF S
  <2>2. meant \in Seq(S) /\ Len(meant) = n BY <2>1, <1>2, <1>4
  <2>3. \A k \in 1 .. x : Meant(meaning[k]) \in S BY <2>1, <1>2, <1>3
  <2>4. x \in Nat BY <1>2, <1>3
  <2>5. pieces \in Seq(S) BY <2>3, <2>4, <1>3
  <2> QED BY <2>2, <2>5 DEF x
<1> HIDE DEF S, meant
<1>6. \A k \in 1 .. x : pieces[k] = meant[k] BY <1>2, <1>3, <1>4
<1>7. IsPrefix(pieces, meant)
  <2>1. SubSeq(meant, 0 + 1, 0 + Len(pieces)) = pieces
    <3>1. \A k \in 1 .. Len(pieces) : meant[0 + k] = pieces[k] BY <1>2, <1>3, <1>5, <1>6
    <3>2. 0 \in Nat /\ 0 + Len(pieces) <= Len(meant) BY <1>2, <1>3, <1>5
    <3> QED BY <3>1, <3>2, <1>5, CutOut
  <2>2. SubSeq(pieces, 1, Len(pieces)) = pieces BY <1>5
  <2>3. SubSeq(meant, 1, Len(pieces)) = pieces BY <2>1, <1>5, <1>2, <1>3
  <2>4. Len(pieces) <= Len(meant) BY <1>2, <1>3, <1>5
  <2> QED BY <2>2, <2>3, <2>4 DEF IsPrefix
<1>8. ASSUME stage = "piece", CharAt(at) = End
      PROVE  pieces = meant /\ args = <<>>
  <2>1. at = ReadTo + 1 /\ args = ArgsFrom(0) BY <1>8 DEF ReadInv, Between
  <2>2. x = n
    <3>1. SUFFICES ASSUME x < n PROVE FALSE BY <1>2, <1>3
    <3>2. /\ Len(Spell(Current)) \in Nat \ {0}
          /\ \A k \in 1 .. Len(Spell(Current)) : CharAt(ReadTo + k) = Spell(Current)[k] /\ Spell(Current)[k] # End
      BY <3>1, PieceAt DEF x, n
    <3>3. 1 \in 1 .. Len(Spell(Current)) BY <3>2
    <3> QED BY <3>2, <3>3, <2>1, <1>8
  <2>3. pieces = meant BY <2>2, <1>3, <1>4
  <2>4. args = <<>>
    <3> DEFINE all == FlattenSeq(PassingsOf(meaning))
               o == Ends(PassingsOf(meaning))
    <3>1. all \in Seq(Int) /\ Len(all) = o[n] BY <1>1, ArgumentsAt DEF n
    <3>2. args = SubSeq(all, o[x] + 0 + 1, Len(all)) BY <2>1 DEF ArgsFrom, x
    <3> HIDE DEF all, o
    <3>3. args = SubSeq(all, Len(all) + 1, Len(all)) BY <2>2, <3>1, <3>2
    <3> QED BY <3>1, <3>3
  <2> QED BY <2>3, <2>4
<1> QED BY <1>7, <1>8 DEF ReadAsMeant, meant

\* Every format that spells a meaning is read as it was meant, whatever it is.
THEOREM ReadingAsMeant == PrintfSpec => []ReadAsMeant
<1>1. PrintfInit => ReadInv BY ReadStarts DEF PrintfInit
<1> QED BY <1>1, ReadInductive, AsMeant, PTL DEF PrintfSpec

-------------------------------------------------------------------------------
(* Digits of numbers *)

\* Quotients and remainders.
LEMMA Divided ==
  ASSUME NEW n \in Int, NEW a \in Nat \ {0}
  PROVE  n \div a \in Int /\ n % a \in 0 .. a - 1 /\ n = a * (n \div a) + (n % a)
<1>1. n \div a \in Int /\ n % a \in 0 .. a - 1 OBVIOUS
<1>2. n = a * (n \div a) + (n % a) BY SMTT(30)
<1> QED BY <1>1, <1>2

LEMMA DividedOnce ==
  ASSUME NEW a \in Nat \ {0}, NEW q \in Int, NEW r \in 0 .. a - 1, NEW s \in Int, NEW t \in 0 .. a - 1,
         a * q + r = a * s + t
  PROVE  q = s
<1>1. a * (q - s) = t - r BY SMTT(30)
<1>2. t - r < a /\ t - r > -a OBVIOUS
<1>3. CASE q - s >= 1
  <2>1. a * (q - s) >= a * 1 BY <1>3, SMTT(30)
  <2> QED BY <2>1, <1>1, <1>2
<1>4. CASE q - s <= -1
  <2>1. a * (q - s) <= a * (-1) BY <1>4, SMTT(30)
  <2> QED BY <2>1, <1>1, <1>2
<1> QED BY <1>3, <1>4

\* Dividing twice divides by the product.
Twice(n, a, b) == n \div a = (n \div (a * b)) * b + ((n \div a) % b)

LEMMA DividedTwice ==
  ASSUME NEW n \in Int, NEW a \in Nat \ {0}, NEW b \in Nat \ {0}
  PROVE  Twice(n, a, b)
<1> DEFINE q == n \div a
           r == n % a
           s == q \div b
           t == q % b
           x == a * b
           u == n \div x
           v == n % x
<1>1. x \in Nat \ {0} BY SMTT(30)
<1>2. q \in Int /\ r \in 0 .. a - 1 /\ n = a * q + r BY Divided
<1> HIDE DEF q, r
<1>3. s \in Int /\ t \in 0 .. b - 1 /\ q = b * s + t BY <1>2, Divided
<1> HIDE DEF x
<1>4. u \in Int /\ v \in 0 .. x - 1 /\ n = x * u + v BY <1>1, Divided
<1> HIDE DEF s, t, u, v
<1>5. n = x * s + (a * t + r)
  <2>1. a * (b * s + t) = (a * b) * s + a * t BY <1>3, SMTT(30)
  <2>2. x * s \in Int /\ a * t \in Int BY <1>1, <1>3
  <2>3. a * q = x * s + a * t BY <2>1, <1>3 DEF x
  <2> QED BY <2>2, <2>3, <1>2
<1>6. a * t + r \in 0 .. x - 1
  <2>1. a * t >= 0 /\ a * t \in Int BY <1>3, SMTT(30)
  <2>2. a * t <= a * (b - 1) BY <1>3, SMTT(30)
  <2>3. a * (b - 1) = x - a
    <3>1. a * (b - 1) = a * b - a BY SMTT(30)
    <3> QED BY <3>1 DEF x
  <2> QED BY <2>1, <2>2, <2>3, <1>1, <1>2
<1>7. u = s BY <1>1, <1>3, <1>4, <1>5, <1>6, DividedOnce
<1>8. b * s = s * b BY <1>3
<1>9. n \div a = u * b + ((n \div a) % b) BY <1>3, <1>7, <1>8 DEF q, t
<1> QED BY <1>9 DEF x, u, Twice

LEMMA DividedLess ==
  ASSUME NEW n \in Nat, NEW a \in Nat \ {0}, n < a
  PROVE  n \div a = 0
<1>1. n \div a \in Int /\ n % a \in 0 .. a - 1 /\ n = a * (n \div a) + (n % a) BY Divided
<1>2. a * 0 + n = n /\ n \in 0 .. a - 1 BY SMTT(30)
<1> DEFINE q == n \div a
           r == n % a
<1> HIDE DEF q, r
<1>3. q \in Int /\ r \in 0 .. a - 1 /\ a * q + r = a * 0 + n BY <1>1, <1>2 DEF q, r
<1>4. q = 0 BY <1>2, <1>3, DividedOnce
<1> QED BY <1>4 DEF q

\* A power is larger than its exponent: the loop that counts digits ends.
LEMMA PowersGrow ==
  ASSUME NEW b \in Nat \ {0}, b > 1
  PROVE  \A k \in Nat : Powers(b)[k] > k
<1> DEFINE P == Powers(b)
           T == {k \in Nat : P[k] > k}
<1>1. P \in [Nat -> Nat \ {0}] /\ P[0] = 1 /\ \A k \in Nat : P[k + 1] = P[k] * b BY PowersComputed
<1> HIDE DEF P
<1>2. 0 \in T BY <1>1
<1>3. ASSUME NEW k \in Nat, k \in T PROVE k + 1 \in T
  <2>1. P[k] \in Nat /\ P[k] > k /\ P[k + 1] = P[k] * b BY <1>1, <1>3
  <2> DEFINE p == P[k]
  <2> HIDE DEF p
  <2>2. p \in Nat /\ p > k BY <2>1 DEF p
  <2>3. p * b >= p * 2 BY <2>2, SMTT(30)
  <2>4. p * b > k + 1 /\ p * b \in Int BY <2>2, <2>3
  <2>5. P[k + 1] > k + 1 BY <2>1, <2>4 DEF p
  <2> QED BY <2>5
<1> HIDE DEF T
<1>4. Nat \subseteq T BY <1>2, <1>3, Induct
<1> QED BY <1>4 DEF T, P

Unsigneds == 0 .. UMod - 1

\* The unsigned int that an int becomes.
LEMMA UnsignedTyped ==
  /\ UMod \in Nat /\ UMod >= 2 /\ UMod = 2 * IntMax + 2
  /\ \A v \in IntRange : Unsigned(v) \in Unsigneds
  /\ \A v \in 0 .. IntMax : Unsigned(v) = v
  /\ \A v \in IntRange : v < 0 => Unsigned(v) > IntMax
<1>1. UMod \in Nat /\ UMod >= 2 /\ UMod = 2 * IntMax + 2 BY IntAssumption DEF UMod
<1> DEFINE u == UMod
<1> HIDE DEF u
<1>2. u \in Nat \ {0} BY <1>1 DEF u
<1>3. \A x \in IntRange : Unsigned(x) \in Unsigneds
  <2> SUFFICES ASSUME NEW x \in IntRange PROVE x % u \in 0 .. u - 1 BY DEF Unsigned, Unsigneds, u
  <2>1. x \in Int BY IntAssumption DEF IntRange
  <2> QED BY <1>2, <2>1, Divided
<1>4. \A x \in 0 .. IntMax : Unsigned(x) = x
  <2> SUFFICES ASSUME NEW x \in 0 .. IntMax PROVE x % u = x BY DEF Unsigned, u
  <2>1. x \in Int /\ x \in 0 .. u - 1 BY <1>1, IntAssumption DEF u
  <2> QED BY <1>2, <2>1
<1>5. \A x \in IntRange : x < 0 => Unsigned(x) > IntMax
  <2> SUFFICES ASSUME NEW x \in IntRange, x < 0 PROVE x % u > IntMax BY DEF Unsigned, u
  <2>1. x \in Int /\ x + u \in 0 .. u - 1 /\ x + u > IntMax BY <1>1, IntAssumption DEF u, IntRange
  <2>2. x % u = x + u BY <1>2, <2>1
  <2> QED BY <2>1, <2>2
<1> QED BY <1>1, <1>3, <1>4, <1>5

\* The loop that counts digits stops, at the first power that is larger.
LEMMA DigitsCounted ==
  ASSUME NEW n \in Unsigneds, NEW b \in Nat \ {0}, b > 1
  PROVE  DigitCount(n, b) \in Nat \ {0} /\ n < Powers(b)[DigitCount(n, b)]
<1> DEFINE P == Powers(b)
           Ok(k) == n < P[k] /\ (k > 1 => n >= P[k - 1])
           T == {m \in Nat : \A k \in 1 .. m : ~Ok(k)}
           U == {m \in Nat : m \in T => \A k \in 1 .. m : n >= P[k]}
<1>1. P \in [Nat -> Nat \ {0}] BY PowersComputed
<1>2. UMod \in Nat /\ UMod >= 2 /\ n \in Nat /\ n < UMod BY UnsignedTyped DEF Unsigneds
<1>3. P[UMod] > UMod BY <1>2, PowersGrow
<1> HIDE DEF P
<1>4. 0 \in U OBVIOUS
<1>5. ASSUME NEW m \in Nat, m \in U PROVE m + 1 \in U
  <2> SUFFICES ASSUME m + 1 \in T, NEW k \in 1 .. m + 1 PROVE n >= P[k] OBVIOUS
  <2>1. m \in T OBVIOUS
  <2>2. \A j \in 1 .. m : n >= P[j] BY <1>5, <2>1
  <2>3. ~Ok(m + 1) OBVIOUS
  <2>4. m + 1 > 1 => n >= P[(m + 1) - 1] BY <2>2
  <2>5. n >= P[m + 1]
    <3>1. ~(n < P[m + 1]) BY <2>3, <2>4
    <3>2. P[m + 1] \in Nat BY <1>1
    <3> QED BY <3>1, <3>2, <1>2
  <2> QED BY <2>2, <2>5
<1> HIDE DEF U
<1>6. UMod \in U BY <1>2, <1>4, <1>5, Induct
<1>7. UMod \notin T
  <2>1. SUFFICES ASSUME UMod \in T PROVE FALSE OBVIOUS
  <2>2. n >= P[UMod] BY <2>1, <1>2, <1>6 DEF U
  <2>3. P[UMod] \in Nat BY <1>1, <1>2
  <2> QED BY <2>2, <2>3, <1>2, <1>3 DEF P
<1>8. \E k \in 1 .. UMod : Ok(k) BY <1>2, <1>7
<1>9. DigitCount(n, b) = CHOOSE k \in 1 .. UMod : Ok(k) BY DEF DigitCount, P
<1> HIDE DEF Ok
<1>10. DigitCount(n, b) \in 1 .. UMod /\ Ok(DigitCount(n, b)) BY <1>8, <1>9
<1> QED BY <1>2, <1>10 DEF Ok, P

\* The value of characters, from the first one on.
LEMMA ValueComputed ==
  ASSUME NEW s, Len(s) \in Nat, NEW b \in Nat, \A k \in 1 .. Len(s) : s[k].value \in Int
  PROVE  \E f \in [0 .. Len(s) -> Int] :
            /\ ValueOf(s, b) = f[Len(s)] /\ f[0] = 0
            /\ \A k \in 1 .. Len(s) : f[k] = IF IsDigit(s[k]) THEN f[k - 1] * b + s[k].value ELSE f[k - 1]
<1> DEFINE n == Len(s)
           S == Int
           One(k, e) == IF IsDigit(s[k]) THEN e * b + s[k].value ELSE e
           step == [p \in (1 .. n) \X S |-> One(p[1], p[2])]
           Reads(g) == g = [k \in 0 .. n |-> IF k = 0 THEN 0 ELSE One(k, g[k - 1])]
<1>1. n \in Nat OBVIOUS
<1>2. ASSUME NEW k \in 1 .. n, NEW e \in S PROVE One(k, e) \in S
  <2>1. s[k].value \in Int OBVIOUS
  <2>2. e * b \in Int OBVIOUS
  <2> QED BY <2>1, <2>2
<1> HIDE DEF n
<1>3. step \in Steps(1 .. n, S)
  <2> HIDE DEF One
  <2> QED BY <1>1, <1>2 DEF Steps
<1>4. PICK f \in [0 .. n -> S] : f[0] = 0 /\ \A k \in 1 .. n : f[k] = step[<<k, f[k - 1]>>]
  <2>1. 0 \in S OBVIOUS
  <2> HIDE DEF step, S
  <2> QED BY <1>1, <1>3, <2>1, BoundedRecursion
<1>5. ASSUME NEW k \in 1 .. n PROVE f[k] = One(k, f[k - 1])
  <2>1. k - 1 \in 0 .. n BY <1>1
  <2>2. f[k - 1] \in S BY <2>1
  <2> HIDE DEF One
  <2>3. step[<<k, f[k - 1]>>] = One(k, f[k - 1]) BY <2>2
  <2> HIDE DEF step
  <2> QED BY <1>4, <2>3
<1> HIDE DEF step
<1>6. Reads(f)
  <2> HIDE DEF One
  <2>1. \A k \in 0 .. n : f[k] = IF k = 0 THEN 0 ELSE One(k, f[k - 1]) BY <1>1, <1>4, <1>5
  <2> QED BY <2>1
<1>7. PICK g : /\ ValueOf(s, b) = g[n]
               /\ g = CHOOSE h : h = [k \in 0 .. n |->
                         IF k = 0 THEN 0
                         ELSE IF IsDigit(s[k]) THEN h[k - 1] * b + s[k].value ELSE h[k - 1]]
  BY DEF ValueOf, n
<1>8. Reads(g) BY <1>6, <1>7
<1>9. g[0] = 0 /\ \A k \in 1 .. n : g[k] = One(k, g[k - 1])
  <2> HIDE DEF One
  <2> QED BY <1>1, <1>8
<1>10. \A k \in 0 .. n : g[k] \in Int
  <2> DEFINE T == {k \in 0 .. n : g[k] \in S}
  <2>1. 0 \in T BY <1>1, <1>9
  <2>2. ASSUME NEW k \in 1 .. n, k - 1 \in T PROVE k \in T
    <3>1. g[k - 1] \in S /\ k \in 0 .. n BY <2>2, <1>1
    <3>2. One(k, g[k - 1]) \in S BY <3>1, <1>2
    <3>3. g[k] \in S BY <3>2, <1>9
    <3> QED BY <3>1, <3>3
  <2>3. 0 .. n \subseteq T
    <3> HIDE DEF T
    <3> QED BY <2>1, <2>2, <1>1, InductUpTo
  <2> QED BY <2>3
<1>11. g \in [0 .. n -> Int]
  <2> HIDE DEF One
  <2> QED BY <1>1, <1>8, <1>10
<1> QED BY <1>7, <1>9, <1>11 DEF n

\* Digits of n behind characters that are no digits or zeros, and before what is no
\* digit, are the number n.
LEMMA ValueRead ==
  ASSUME NEW s, Len(s) \in Nat, NEW b \in Nat \ {0}, \A k \in 1 .. Len(s) : s[k].value \in Int,
         NEW n \in Nat, NEW a \in Nat, NEW c \in Nat, a + c <= Len(s), n < Powers(b)[c],
         \A k \in 1 .. a : ~IsDigit(s[k]) \/ s[k].value = 0,
         \A j \in 1 .. c : IsDigit(s[a + j]) /\ s[a + j].value = (n \div Powers(b)[c - j]) % b,
         \A k \in a + c + 1 .. Len(s) : ~IsDigit(s[k])
  PROVE  ValueOf(s, b) = n
<1> DEFINE z == Len(s)
           P == Powers(b)
<1>1. PICK f \in [0 .. z -> Int] :
         /\ ValueOf(s, b) = f[z] /\ f[0] = 0
         /\ \A k \in 1 .. z : f[k] = IF IsDigit(s[k]) THEN f[k - 1] * b + s[k].value ELSE f[k - 1]
  BY ValueComputed
<1>2. P \in [Nat -> Nat \ {0}] /\ P[0] = 1 /\ \A k \in Nat : P[k + 1] = P[k] * b BY PowersComputed
<1>3. z \in Nat /\ a + c <= z /\ n < P[c] OBVIOUS
<1> HIDE DEF z, P
<1>4. f[a] = 0
  <2> DEFINE T == {k \in 0 .. a : f[k] = 0}
  <2>1. 0 \in T BY <1>1
  <2>2. ASSUME NEW k \in 1 .. a, k - 1 \in T PROVE k \in T
    <3>1. k \in 1 .. z /\ f[k - 1] = 0 /\ k \in 0 .. a BY <2>2, <1>3
    <3>2. 0 * b + 0 = 0 OBVIOUS
    <3>3. f[k] = 0
      <4>1. CASE IsDigit(s[k])
        <5>1. s[k].value = 0 BY <4>1
        <5>2. f[k] = f[k - 1] * b + s[k].value BY <4>1, <3>1, <1>1
        <5> QED BY <5>1, <5>2, <3>1, <3>2
      <4>2. CASE ~IsDigit(s[k]) BY <4>2, <3>1, <1>1
      <4> QED BY <4>1, <4>2
    <3> QED BY <3>1, <3>3
  <2> HIDE DEF T
  <2>3. 0 .. a \subseteq T BY <2>1, <2>2, InductUpTo
  <2>4. a \in 0 .. a OBVIOUS
  <2> QED BY <2>3, <2>4 DEF T
<1>5. f[a + c] = n
  <2> DEFINE T == {j \in 0 .. c : f[a + j] = n \div P[c - j]}
  <2>1. 0 \in T
    <3>1. P[c] \in Nat \ {0} BY <1>2
    <3> DEFINE x == P[c]
    <3> HIDE DEF x
    <3>2. x \in Nat \ {0} /\ n < x BY <3>1, <1>3 DEF x
    <3>3. n \div x = 0 BY <3>2, DividedLess
    <3>4. a + 0 = a /\ c - 0 = c OBVIOUS
    <3> QED BY <3>3, <3>4, <1>4 DEF x
  <2>2. ASSUME NEW j \in 1 .. c, j - 1 \in T PROVE j \in T
    <3>1. a + j \in 1 .. z /\ j \in 0 .. c /\ (a + j) - 1 = a + (j - 1) BY <2>2, <1>3
    <3>2. f[(a + j) - 1] = n \div P[c - (j - 1)] BY <2>2, <3>1
    <3> HIDE DEF T
    <3>3. f[a + j] = f[(a + j) - 1] * b + s[a + j].value BY <3>1, <1>1
    <3> DEFINE x == P[c - j]
    <3>4. x \in Nat \ {0} /\ P[c - (j - 1)] = x * b
      <4>1. c - j \in Nat /\ c - (j - 1) = (c - j) + 1 BY <2>2
      <4> QED BY <4>1, <1>2
    <3>5. s[a + j].value = (n \div x) % b BY DEF P
    <3> HIDE DEF x
    <3>6. n \div x = (n \div (x * b)) * b + ((n \div x) % b)
      <4>1. n \in Int /\ x \in Nat \ {0} /\ b \in Nat \ {0} BY <3>4
      <4>2. Twice(n, x, b) BY <4>1, DividedTwice
      <4> QED BY <4>2 DEF Twice
    <3>7. f[a + j] = n \div x BY <3>2, <3>3, <3>4, <3>5, <3>6
    <3> QED BY <3>1, <3>7 DEF T, x
  <2> HIDE DEF T
  <2>3. 0 .. c \subseteq T BY <2>1, <2>2, InductUpTo
  <2>4. c \in 0 .. c /\ c - c = 0 OBVIOUS
  <2>5. f[a + c] = n \div P[0] BY <2>3, <2>4 DEF T
  <2>6. n \div 1 = n OBVIOUS
  <2> QED BY <2>5, <2>6, <1>2
<1>6. f[z] = n
  <2> DEFINE T == {k \in 0 .. z - (a + c) : f[a + c + k] = n}
  <2>1. 0 \in T
    <3>1. 0 \in 0 .. z - (a + c) /\ a + c + 0 = a + c BY <1>3
    <3> QED BY <3>1, <1>5
  <2>2. ASSUME NEW k \in 1 .. z - (a + c), k - 1 \in T PROVE k \in T
    <3>1. /\ a + c + k \in a + c + 1 .. z /\ a + c + k \in 1 .. z /\ (a + c + k) - 1 = a + c + (k - 1)
          /\ k \in 0 .. z - (a + c)
      BY <2>2, <1>3
    <3>2. ~IsDigit(s[a + c + k]) BY <3>1 DEF z
    <3>3. f[a + c + k] = f[(a + c + k) - 1] BY <3>1, <3>2, <1>1
    <3> QED BY <2>2, <3>1, <3>3
  <2> HIDE DEF T
  <2>3. z - (a + c) \in Nat BY <1>3
  <2>4. 0 .. z - (a + c) \subseteq T BY <2>1, <2>2, <2>3, InductUpTo
  <2>5. z - (a + c) \in 0 .. z - (a + c) /\ a + c + (z - (a + c)) = z BY <2>3, <1>3
  <2> QED BY <2>4, <2>5 DEF T
<1> QED BY <1>1, <1>6

-------------------------------------------------------------------------------
(* What a number prints *)

Kinds == {"text", "pad", "zero", "sign", "prefix", "digit"}
Chars == [kind : Kinds, value : Int]
Plain == {c \in Chars : ~IsFill(c)}
NoDigits == {c \in Chars : ~IsDigit(c)}
Worthless == {c \in Chars : ~IsDigit(c) \/ c.value = 0}

LEMMA KindsNested == Worthless \subseteq Chars /\ NoDigits \subseteq Chars /\ Plain \subseteq Chars
  BY DEF Worthless, NoDigits, Plain

LEMMA CharTyped ==
  /\ \A v \in Int : Char("digit", v) \in Plain /\ IsDigit(Char("digit", v)) /\ Char("digit", v).value = v
  /\ Char("digit", 0) \in Worthless
  /\ Char("pad", 0) \in NoDigits /\ Char("pad", 0) \in Worthless /\ Char("zero", 0) \in Worthless
  /\ \A v \in Int : Char("sign", v) \in Worthless /\ Char("sign", v) \in Plain
  /\ Char("prefix", 0) \in Worthless /\ Char("prefix", 0) \in Plain
  /\ Char("text", 0) \in Chars
<1>1. \A k \in Kinds, v \in Int : Char(k, v) \in Chars /\ Char(k, v).kind = k /\ Char(k, v).value = v
  BY DEF Char, Chars
<1>2. {"pad", "zero", "sign", "prefix", "digit", "text"} \subseteq Kinds /\ 0 \in Int BY DEF Kinds
<1>3. \A v \in Int : Char("digit", v) \in Plain /\ IsDigit(Char("digit", v)) /\ Char("digit", v).value = v
  BY <1>1, <1>2 DEF Plain, IsFill, IsDigit
<1>4. \A v \in Int : Char("sign", v) \in Worthless /\ Char("sign", v) \in Plain
  BY <1>1, <1>2 DEF Plain, Worthless, IsFill, IsDigit
<1>5. Char("prefix", 0) \in Worthless /\ Char("prefix", 0) \in Plain
  BY <1>1, <1>2 DEF Plain, Worthless, IsFill, IsDigit
<1>6. Char("pad", 0) \in NoDigits /\ Char("pad", 0) \in Worthless BY <1>1, <1>2 DEF NoDigits, Worthless, IsDigit
<1>7. Char("zero", 0) \in Worthless /\ Char("digit", 0) \in Worthless BY <1>1, <1>2 DEF Worthless
<1> QED BY <1>1, <1>2, <1>3, <1>4, <1>5, <1>6, <1>7

\* A character times n.
LEMMA TimesTyped ==
  ASSUME NEW n \in Nat, NEW S, NEW c \in S
  PROVE  Times(n, c) \in Seq(S) /\ Len(Times(n, c)) = n
  BY DEF Times

LEMMA LargerIs ==
  ASSUME NEW a \in Int, NEW b \in Int
  PROVE  Larger(a, b) \in {a, b} /\ Larger(a, b) >= a /\ Larger(a, b) >= b
  BY DEF Larger

\* The fills of a field, spaces before, zeros, and spaces behind, are n in all.
AreFills(p, n, pad, zeros, rest) ==
    /\ pad = (IF "-" \notin p.flags /\ "0" \notin p.flags THEN Times(n, Char("pad", 0)) ELSE <<>>)
    /\ zeros = (IF "-" \notin p.flags /\ "0" \in p.flags THEN Times(n, Char("zero", 0)) ELSE <<>>)
    /\ rest = (IF "-" \in p.flags THEN Times(n, Char("pad", 0)) ELSE <<>>)

LEMMA Fills ==
  ASSUME NEW p, NEW n, n \in Nat, NEW pad, NEW zeros, NEW rest, AreFills(p, n, pad, zeros, rest)
  PROVE  /\ pad \in Seq(Worthless) /\ zeros \in Seq(Worthless) /\ rest \in Seq(NoDigits)
         /\ Len(pad) \in Nat /\ Len(zeros) \in Nat /\ Len(rest) \in Nat
         /\ Len(pad) + Len(zeros) + Len(rest) = n
<1> DEFINE t == Times(n, Char("pad", 0))
           u == Times(n, Char("zero", 0))
<1>1. /\ t \in Seq(Worthless) /\ t \in Seq(NoDigits) /\ Len(t) = n
      /\ u \in Seq(Worthless) /\ Len(u) = n
  BY CharTyped, TimesTyped
<1>2. <<>> \in Seq(Worthless) /\ <<>> \in Seq(NoDigits) /\ Len(<<>>) = 0 OBVIOUS
<1>3. /\ "-" \in p.flags => pad = <<>> /\ zeros = <<>> /\ rest = t
      /\ "-" \notin p.flags /\ "0" \in p.flags => pad = <<>> /\ zeros = u /\ rest = <<>>
      /\ "-" \notin p.flags /\ "0" \notin p.flags => pad = t /\ zeros = <<>> /\ rest = <<>>
  BY DEF AreFills
<1> HIDE DEF t, u
<1>4. /\ pad \in Seq(Worthless) /\ zeros \in Seq(Worthless) /\ rest \in Seq(NoDigits)
      /\ \/ Len(pad) = 0 /\ Len(zeros) = 0 /\ Len(rest) = n
         \/ Len(pad) = 0 /\ Len(zeros) = n /\ Len(rest) = 0
         \/ Len(pad) = n /\ Len(zeros) = 0 /\ Len(rest) = 0
  <2>1. CASE "-" \in p.flags
    <3>1. pad = <<>> /\ zeros = <<>> /\ rest = t BY <2>1, <1>3
    <3> QED BY <3>1, <1>1, <1>2
  <2>2. CASE "-" \notin p.flags /\ "0" \in p.flags
    <3>1. pad = <<>> /\ zeros = u /\ rest = <<>> BY <2>2, <1>3
    <3> QED BY <3>1, <1>1, <1>2
  <2>3. CASE "-" \notin p.flags /\ "0" \notin p.flags
    <3>1. pad = t /\ zeros = <<>> /\ rest = <<>> BY <2>3, <1>3
    <3> QED BY <3>1, <1>1, <1>2
  <2> QED BY <2>1, <2>2, <2>3
<1> QED BY <1>4

\* Two sequences of characters in one.
LEMMA Joined ==
  ASSUME NEW S, NEW s, NEW t, s \in Seq(S), t \in Seq(S)
  PROVE  /\ s \o t \in Seq(S) /\ Len(s \o t) = Len(s) + Len(t)
         /\ \A k \in 1 .. Len(s) : (s \o t)[k] = s[k]
         /\ \A k \in 1 .. Len(t) : (s \o t)[Len(s) + k] = t[k]
  OBVIOUS

LEMMA Widened ==
  ASSUME NEW S, NEW U, S \subseteq U, NEW s, s \in Seq(S)
  PROVE  s \in Seq(U)
  OBVIOUS

\* A field: characters of W, then the digits, then no digits.
FieldOf(t, width, d, W) ==
    /\ t \in Seq(Chars) /\ Len(t) = width
    /\ \E a \in Nat :
          /\ a + Len(d) <= Len(t)
          /\ \A k \in 1 .. a : t[k] \in W
          /\ \A j \in 1 .. Len(d) : t[a + j] = d[j]
          /\ \A k \in a + Len(d) + 1 .. Len(t) : t[k] \in NoDigits

\* What Field puts together is such a field, without fill if the width is used up.
LEMMA FieldIs ==
  ASSUME NEW p, NEW width \in Nat, NEW used \in Nat, used <= width, width <= IntMax,
         NEW W, Worthless \subseteq W, W \subseteq Chars,
         NEW sign \in Seq(W), NEW prefix \in Seq(W), NEW y \in Seq(W), NEW d \in Seq(Chars),
         used = Len(sign) + Len(prefix) + Len(y) + Len(d)
  PROVE  LET t == Field(p, width, used, sign, prefix, y \o d)
         IN  /\ FieldOf(t, width, d, W)
             /\ width = used /\ sign \in Seq(Plain) /\ prefix \in Seq(Plain) /\ y \in Seq(Plain) /\ d \in Seq(Plain)
                   => t \in Seq(Plain)
<1> DEFINE n == width - used
           pad == IF "-" \notin p.flags /\ "0" \notin p.flags THEN Times(n, Char("pad", 0)) ELSE <<>>
           zeros == IF "-" \notin p.flags /\ "0" \in p.flags THEN Times(n, Char("zero", 0)) ELSE <<>>
           rest == IF "-" \in p.flags THEN Times(n, Char("pad", 0)) ELSE <<>>
           t == Field(p, width, used, sign, prefix, y \o d)
           s1 == pad \o sign
           s2 == s1 \o prefix
           s3 == s2 \o zeros
           yd == y \o d
           s4 == s3 \o yd
           s5 == s4 \o rest
<1>1. t = s5
  <2>1. ~(width > IntMax) BY IntAssumption
  <2>2. (IF width > IntMax THEN 0 ELSE width - used) = n BY <2>1
  <2> HIDE DEF n
  <2> QED BY <2>2 DEF Field
<1>2. n \in Nat /\ (width = used => n = 0) OBVIOUS
<1> HIDE DEF n, t
<1>3. AreFills(p, n, pad, zeros, rest) BY DEF AreFills
<1> HIDE DEF pad, zeros, rest
<1>4. /\ pad \in Seq(W) /\ zeros \in Seq(W) /\ rest \in Seq(NoDigits)
      /\ Len(pad) \in Nat /\ Len(zeros) \in Nat /\ Len(rest) \in Nat
      /\ Len(pad) + Len(zeros) + Len(rest) = n
  <2>1. /\ pad \in Seq(Worthless) /\ zeros \in Seq(Worthless) /\ rest \in Seq(NoDigits)
        /\ Len(pad) \in Nat /\ Len(zeros) \in Nat /\ Len(rest) \in Nat
        /\ Len(pad) + Len(zeros) + Len(rest) = n
    BY <1>2, <1>3, Fills
  <2>2. pad \in Seq(W) /\ zeros \in Seq(W) BY <2>1, Widened
  <2> QED BY <2>1, <2>2
<1>5. W \subseteq Chars /\ NoDigits \subseteq Chars BY KindsNested
<1>6. s1 \in Seq(W) /\ Len(s1) = Len(pad) + Len(sign)
  <2>1. pad \in Seq(W) /\ sign \in Seq(W) BY <1>4
  <2> QED BY <2>1
<1> HIDE DEF s1
<1>7. s2 \in Seq(W) /\ Len(s2) = Len(s1) + Len(prefix)
  <2>1. s1 \in Seq(W) /\ prefix \in Seq(W) BY <1>6
  <2> QED BY <2>1
<1> HIDE DEF s2
<1>8. s3 \in Seq(W) /\ Len(s3) = Len(s2) + Len(zeros)
  <2>1. s2 \in Seq(W) /\ zeros \in Seq(W) BY <1>4, <1>7
  <2> QED BY <2>1
<1> HIDE DEF s3
<1>9. s3 \in Seq(Chars) /\ y \in Seq(Chars) /\ rest \in Seq(Chars) BY <1>4, <1>5, <1>8, Widened
<1>10. /\ yd \in Seq(Chars) /\ Len(yd) = Len(y) + Len(d)
       /\ \A k \in 1 .. Len(y) : yd[k] = y[k]
       /\ \A k \in 1 .. Len(d) : yd[Len(y) + k] = d[k]
  <2>1. y \in Seq(Chars) /\ d \in Seq(Chars) BY <1>9
  <2> QED BY <2>1
<1> HIDE DEF yd
<1>11. /\ s4 \in Seq(Chars) /\ Len(s4) = Len(s3) + Len(yd)
       /\ \A k \in 1 .. Len(s3) : s4[k] = s3[k]
       /\ \A k \in 1 .. Len(yd) : s4[Len(s3) + k] = yd[k]
  <2>1. s3 \in Seq(Chars) /\ yd \in Seq(Chars) BY <1>9, <1>10
  <2> QED BY <2>1
<1> HIDE DEF s4
<1>12. /\ s5 \in Seq(Chars) /\ Len(s5) = Len(s4) + Len(rest)
       /\ \A k \in 1 .. Len(s4) : s5[k] = s4[k]
       /\ \A k \in 1 .. Len(rest) : s5[Len(s4) + k] = rest[k]
  <2>1. s4 \in Seq(Chars) /\ rest \in Seq(Chars) BY <1>9, <1>11
  <2> QED BY <2>1
<1> HIDE DEF s5
<1> DEFINE x == Len(s3)
           b == Len(y)
           c == Len(d)
           r == Len(rest)
           a == x + b
<1>13. x \in Nat /\ b \in Nat /\ c \in Nat /\ r \in Nat /\ Len(sign) \in Nat /\ Len(prefix) \in Nat BY <1>4, <1>9
<1>14. Len(s5) = a + c + r /\ Len(s4) = a + c /\ Len(yd) = b + c BY <1>10, <1>11, <1>12, <1>13
<1>15. Len(s5) = width
  <2>1. x = Len(pad) + Len(sign) + Len(prefix) + Len(zeros) BY <1>6, <1>7, <1>8, Zenon
  <2>2. Len(pad) + Len(zeros) + r = n /\ Len(pad) \in Nat /\ Len(zeros) \in Nat BY <1>4
  <2> HIDE DEF x, b, c, r
  <2> QED BY <2>1, <2>2, <1>13, <1>14 DEF n, b, c
<1>16. (\A k \in 1 .. x : s3[k] \in W) /\ (\A k \in 1 .. b : y[k] \in W)
       /\ \A k \in 1 .. r : rest[k] \in NoDigits
  BY <1>4, <1>8
<1> HIDE DEF x, b, c, r
<1>17. \A k \in 1 .. a : s5[k] \in W
  <2> SUFFICES ASSUME NEW k \in 1 .. a PROVE s5[k] \in W OBVIOUS
  <2>1. s5[k] = s4[k]
    <3>1. k \in 1 .. Len(s4) BY <1>13, <1>14
    <3> QED BY <3>1, <1>12
  <2>2. CASE k <= x
    <3>1. k \in 1 .. x BY <2>2, <1>13
    <3> QED BY <3>1, <2>1, <1>11, <1>16 DEF x
  <2>3. CASE ~(k <= x)
    <3>1. k - x \in 1 .. b /\ k - x \in 1 .. b + c /\ x + (k - x) = k BY <2>3, <1>13
    <3>2. s4[x + (k - x)] = yd[k - x] BY <3>1, <1>11, <1>14 DEF x
    <3>3. yd[k - x] = y[k - x] BY <3>1, <1>10 DEF b
    <3>4. y[k - x] \in W BY <3>1, <1>16
    <3> QED BY <3>1, <3>2, <3>3, <3>4, <2>1
  <2> QED BY <2>2, <2>3
<1>18. \A j \in 1 .. c : s5[a + j] = d[j]
  <2> SUFFICES ASSUME NEW j \in 1 .. c PROVE s5[a + j] = d[j] OBVIOUS
  <2>1. a + j \in 1 .. a + c /\ a + j = x + (b + j) /\ b + j \in 1 .. b + c BY <1>13
  <2>2. s5[a + j] = s4[a + j] BY <2>1, <1>12, <1>14
  <2>3. s4[x + (b + j)] = yd[b + j] BY <2>1, <1>11, <1>14 DEF x
  <2>4. yd[b + j] = d[j]
    <3>1. j \in 1 .. Len(d) BY DEF c
    <3> QED BY <3>1, <1>10 DEF b
  <2> QED BY <2>1, <2>2, <2>3, <2>4
<1>19. \A k \in a + c + 1 .. Len(s5) : s5[k] \in NoDigits
  <2> SUFFICES ASSUME NEW k \in a + c + 1 .. Len(s5) PROVE s5[k] \in NoDigits OBVIOUS
  <2>1. k - (a + c) \in 1 .. r /\ a + c + (k - (a + c)) = k BY <1>13, <1>14
  <2>2. s5[a + c + (k - (a + c))] = rest[k - (a + c)] BY <2>1, <1>12, <1>14 DEF r
  <2> QED BY <2>1, <2>2, <1>16
<1>20. FieldOf(t, width, d, W)
  <2>1. a \in Nat /\ a + Len(d) <= Len(s5) BY <1>13, <1>14 DEF c
  <2> HIDE DEF a
  <2> QED BY <2>1, <1>1, <1>12, <1>15, <1>17, <1>18, <1>19 DEF FieldOf, c
<1>21. ASSUME width = used, sign \in Seq(Plain), prefix \in Seq(Plain), y \in Seq(Plain), d \in Seq(Plain)
       PROVE  t \in Seq(Plain)
  <2>1. Len(pad) = 0 /\ Len(zeros) = 0 /\ Len(rest) = 0 BY <1>2, <1>4, <1>21
  <2>2. pad = <<>> /\ zeros = <<>> /\ rest = <<>> BY <2>1, <1>4
  <2>3. pad \in Seq(Plain) /\ zeros \in Seq(Plain) /\ rest \in Seq(Plain) BY <2>2
  <2>4. s1 \in Seq(Plain) BY <2>3, <1>21, Joined DEF s1
  <2>5. s2 \in Seq(Plain) BY <2>4, <1>21, Joined DEF s2
  <2>6. s3 \in Seq(Plain) BY <2>3, <2>5, Joined DEF s3
  <2>7. yd \in Seq(Plain) BY <1>21, Joined DEF yd
  <2>8. s4 \in Seq(Plain) BY <2>6, <2>7, Joined DEF s4
  <2>9. s5 \in Seq(Plain) BY <2>3, <2>8, Joined DEF s5
  <2> QED BY <2>9, <1>1
<1> QED BY <1>20, <1>21 DEF t

\* The digits d of n in the base b.
AreDigits(d, n, b) ==
    /\ d \in Seq(Plain) /\ n \in Nat /\ n < Powers(b)[Len(d)]
    /\ \A j \in 1 .. Len(d) : IsDigit(d[j]) /\ d[j].value = (n \div Powers(b)[Len(d) - j]) % b

\* What Digits lists are the digits of its number.
LEMMA DigitsTyped ==
  ASSUME NEW n \in Unsigneds, NEW b \in Nat \ {0}, b > 1
  PROVE  AreDigits(Digits(n, b), n, b) /\ Len(Digits(n, b)) = DigitCount(n, b)
<1> DEFINE c == DigitCount(n, b)
           P == Powers(b)
           d == Digits(n, b)
           V(j) == (n \div P[c - j]) % b
<1>1. c \in Nat \ {0} /\ n < P[c] BY DigitsCounted
<1>2. n \in Nat BY UnsignedTyped DEF Unsigneds
<1>3. P \in [Nat -> Nat \ {0}] BY PowersComputed
<1>4. d = [j \in 1 .. c |-> Char("digit", V(j))] BY DEF Digits
<1> HIDE DEF c, P, d
<1>5. \A j \in 1 .. c : V(j) \in Int
  <2> SUFFICES ASSUME NEW j \in 1 .. c PROVE V(j) \in Int OBVIOUS
  <2> DEFINE x == P[c - j]
             y == n \div x
  <2>1. x \in Nat \ {0}
    <3>1. c - j \in Nat BY <1>1
    <3> QED BY <3>1, <1>3
  <2> HIDE DEF x
  <2>2. y \in Int BY <2>1, <1>2
  <2> HIDE DEF y
  <2>3. y % b \in Int BY <2>2
  <2> QED BY <2>3 DEF y, x
<1> HIDE DEF V
<1>6. \A j \in 1 .. c : d[j] \in Plain /\ IsDigit(d[j]) /\ d[j].value = V(j) BY <1>4, <1>5, CharTyped
<1>7. d \in Seq(Plain) /\ Len(d) = c BY <1>1, <1>4, <1>6
<1> QED BY <1>1, <1>2, <1>6, <1>7 DEF AreDigits, V, c, d, P

LEMMA NoDigitsAre ==
  ASSUME NEW b \in Nat \ {0}
  PROVE  AreDigits(<<>>, 0, b)
<1>1. <<>> \in Seq(Plain) /\ Len(<<>>) = 0 OBVIOUS
<1>2. Powers(b)[0] = 1 BY PowersComputed
<1> QED BY <1>1, <1>2 DEF AreDigits

\* The digits of a field are worth the number that they are the digits of.
LEMMA FieldValue ==
  ASSUME NEW t, NEW width \in Nat, NEW d, FieldOf(t, width, d, Worthless), NEW n, NEW b \in Nat \ {0}, AreDigits(d, n, b)
  PROVE  ValueOf(t, b) = n
<1>1. t \in Seq(Chars) /\ Len(t) = width BY DEF FieldOf
<1>2. PICK a \in Nat : /\ a + Len(d) <= Len(t)
                       /\ \A k \in 1 .. a : t[k] \in Worthless
                       /\ \A j \in 1 .. Len(d) : t[a + j] = d[j]
                       /\ \A k \in a + Len(d) + 1 .. Len(t) : t[k] \in NoDigits
  BY DEF FieldOf
<1>3. /\ d \in Seq(Plain) /\ n \in Nat /\ n < Powers(b)[Len(d)]
      /\ \A j \in 1 .. Len(d) : IsDigit(d[j]) /\ d[j].value = (n \div Powers(b)[Len(d) - j]) % b
  BY DEF AreDigits
<1> DEFINE c == Len(d)
<1>4. c \in Nat BY <1>3
<1>5. \A k \in 1 .. Len(t) : t[k].value \in Int
  <2>1. \A k \in 1 .. Len(t) : t[k] \in Chars BY <1>1
  <2> QED BY <2>1 DEF Chars
<1> HIDE DEF c
<1>6. \A k \in 1 .. a : ~IsDigit(t[k]) \/ t[k].value = 0 BY <1>2 DEF Worthless
<1>7. \A j \in 1 .. c : IsDigit(t[a + j]) /\ t[a + j].value = (n \div Powers(b)[c - j]) % b
  BY <1>2, <1>3 DEF c
<1>8. \A k \in a + c + 1 .. Len(t) : ~IsDigit(t[k]) BY <1>2 DEF NoDigits, c
<1>9. n \in Nat /\ a \in Nat /\ a + c <= Len(t) /\ n < Powers(b)[c] /\ Len(t) \in Nat BY <1>1, <1>2, <1>3 DEF c
<1> QED BY <1>4, <1>5, <1>6, <1>7, <1>8, <1>9, ValueRead

\* A prefix may end in a character of the format behind the conversion.
Copied(p) == p.conv \in {"o", "u"} /\ "#" \in p.flags

\* The field of a number: its width, its value, and what fills it.
NumberIs(p, width, t, n, b) ==
    /\ width \in Nat
    /\ width <= IntMax =>
          /\ t \in Seq(Chars) /\ Len(t) = width /\ (~Copied(p) => ValueOf(t, b) = n)
          /\ \/ Len(t) = p.width
             \/ Len(t) > p.width /\ \A k \in DOMAIN t : ~IsFill(t[k])

IsNumberPiece(p) ==
    p.conv \in Numbers /\ p.arg \in IntRange /\ p.width \in IntRange /\ p.precision \in IntRange

\* A field around digits, with its sign and prefix: its width, and its value.
LEMMA FieldPrinted ==
  ASSUME NEW p, IsNumberPiece(p), NEW used, used \in Nat,
         NEW sign, NEW prefix, NEW y, NEW d, NEW n, NEW b, b \in Nat \ {0},
         sign \in Seq(Worthless), ~Copied(p) => prefix \in Seq(Worthless), y \in Seq(Worthless),
         sign \in Seq(Plain), prefix \in Seq(Plain), y \in Seq(Plain), AreDigits(d, n, b),
         used = Len(sign) + Len(prefix) + Len(y) + Len(d)
  PROVE  LET width == Larger(Unsigned(p.width), used)
         IN  NumberIs(p, width, Field(p, width, used, sign, prefix, y \o d), n, b)
<1> DEFINE u == Unsigned(p.width)
           width == Larger(u, used)
           t == Field(p, width, used, sign, prefix, y \o d)
<1>1. p.width \in IntRange BY DEF IsNumberPiece
<1>2. u \in Nat /\ (p.width < 0 => u > IntMax) /\ (p.width >= 0 => u = p.width)
  <2>1. u \in Unsigneds BY <1>1, UnsignedTyped
  <2>2. u \in Nat BY <2>1, UnsignedTyped DEF Unsigneds
  <2>3. p.width < 0 => u > IntMax BY <1>1, UnsignedTyped
  <2>4. p.width >= 0 => p.width \in 0 .. IntMax BY <1>1, IntAssumption DEF IntRange
  <2>5. p.width >= 0 => u = p.width BY <2>4, UnsignedTyped
  <2> QED BY <2>2, <2>3, <2>5
<1> HIDE DEF u
<1>3. width \in {u, used} /\ width >= u /\ width >= used /\ width \in Nat BY <1>2, LargerIs
<1> HIDE DEF width, t
<1>4. ASSUME width <= IntMax
      PROVE  /\ t \in Seq(Chars) /\ Len(t) = width /\ (~Copied(p) => ValueOf(t, b) = n)
             /\ \/ Len(t) = p.width
                \/ Len(t) > p.width /\ \A k \in DOMAIN t : ~IsFill(t[k])
  <2>1. d \in Seq(Plain) BY DEF AreDigits
  <2>2. d \in Seq(Chars) BY <2>1, Widened DEF Plain
  <2> DEFINE W == IF Copied(p) THEN Chars ELSE Worthless
  <2>0. /\ Worthless \subseteq W /\ W \subseteq Chars
        /\ sign \in Seq(W) /\ prefix \in Seq(W) /\ y \in Seq(W)
    <3>1. Worthless \subseteq W /\ W \subseteq Chars BY KindsNested
    <3>2. sign \in Seq(W) /\ y \in Seq(W) BY <3>1, Widened
    <3>3. prefix \in Seq(Chars) BY KindsNested, Widened
    <3>4. prefix \in Seq(W) BY <3>3
    <3> QED BY <3>1, <3>2, <3>4
  <2>a. ~Copied(p) => W = Worthless OBVIOUS
  <2> HIDE DEF W
  <2>3. /\ FieldOf(t, width, d, W)
        /\ width = used => t \in Seq(Plain)
    <3>1. /\ FieldOf(Field(p, width, used, sign, prefix, y \o d), width, d, W)
          /\ width = used /\ sign \in Seq(Plain) /\ prefix \in Seq(Plain) /\ y \in Seq(Plain) /\ d \in Seq(Plain)
                   => Field(p, width, used, sign, prefix, y \o d) \in Seq(Plain)
      BY <2>0, <2>2, <1>3, <1>4, FieldIs
    <3> QED BY <3>1, <2>1 DEF t
  <2>4. t \in Seq(Chars) /\ Len(t) = width BY <2>3 DEF FieldOf
  <2>5. ~Copied(p) => ValueOf(t, b) = n
    <3> SUFFICES ASSUME ~Copied(p) PROVE ValueOf(t, b) = n OBVIOUS
    <3>1. FieldOf(t, width, d, Worthless) BY <2>3, <2>a
    <3> QED BY <3>1, <1>3, FieldValue
  <2>6. p.width \in Int /\ p.width >= 0 /\ u = p.width BY <1>1, <1>2, <1>3, <1>4, IntAssumption DEF IntRange
  <2>7. CASE width = u BY <2>4, <2>5, <2>6, <2>7
  <2>8. CASE width = used
    <3>1. t \in Seq(Plain) BY <2>3, <2>8
    <3>2. \A k \in DOMAIN t : t[k] \in Plain BY <3>1
    <3>3. \A k \in DOMAIN t : ~IsFill(t[k]) BY <3>2 DEF Plain
    <3>4. Len(t) = p.width \/ Len(t) > p.width BY <2>4, <2>6, <1>3
    <3> QED BY <3>3, <3>4, <2>4, <2>5
  <2> QED BY <2>7, <2>8, <1>3
<1> QED BY <1>3, <1>4 DEF NumberIs, width, t, u

\* The sign is as long as the code counts it.
LEMMA SignTyped ==
  ASSUME NEW p
  PROVE  Sign(p) \in Seq(Worthless) /\ Sign(p) \in Seq(Plain) /\ Len(Sign(p)) = SignWidth(p) /\ SignWidth(p) \in Nat
<1>1. \A v \in Int : Char("sign", v) \in Worthless /\ Char("sign", v) \in Plain BY CharTyped
<1> DEFINE x == Char("sign", 1)
           y == Char("sign", 0)
<1>2. x \in Worthless /\ x \in Plain /\ y \in Worthless /\ y \in Plain BY <1>1
<1>3. Sign(p) = IF "+" \in p.flags THEN <<x>> ELSE IF " " \in p.flags THEN <<y>> ELSE <<>> BY DEF Sign
<1> HIDE DEF x, y
<1>4. CASE "+" \in p.flags
  <2>1. Sign(p) = <<x>> /\ SignWidth(p) = 1 BY <1>3, <1>4 DEF SignWidth
  <2>2. <<x>> \in Seq(Worthless) /\ <<x>> \in Seq(Plain) /\ Len(<<x>>) = 1 BY <1>2
  <2> QED BY <2>1, <2>2
<1>5. CASE "+" \notin p.flags /\ " " \in p.flags
  <2>1. Sign(p) = <<y>> /\ SignWidth(p) = 1 BY <1>3, <1>5 DEF SignWidth
  <2>2. <<y>> \in Seq(Worthless) /\ <<y>> \in Seq(Plain) /\ Len(<<y>>) = 1 BY <1>2
  <2> QED BY <2>1, <2>2
<1>6. CASE "+" \notin p.flags /\ " " \notin p.flags
  <2>1. Sign(p) = <<>> /\ SignWidth(p) = 0 BY <1>3, <1>6 DEF SignWidth
  <2>2. <<>> \in Seq(Worthless) /\ <<>> \in Seq(Plain) /\ Len(<<>>) = 0 OBVIOUS
  <2> QED BY <2>1, <2>2
<1> QED BY <1>4, <1>5, <1>6

\* The prefix is as long as the code counts it, and worth nothing unless it ends in a
\* character of the format behind the conversion.
LEMMA PrefixTyped ==
  ASSUME NEW p
  PROVE  /\ ~Copied(p) => Prefix(p) \in Seq(Worthless)
         /\ Prefix(p) \in Seq(Plain) /\ Len(Prefix(p)) = PrefixWidth(p) /\ PrefixWidth(p) \in Nat
<1> DEFINE z == Char("digit", 0)
           x == PrefixEnd(p)
<1>1. z \in Worthless /\ z \in Plain
  <2>1. 0 \in Int OBVIOUS
  <2> QED BY <2>1, CharTyped
<1>2. x \in Plain /\ ("#" \in p.flags /\ ~Copied(p) => x \in Worthless)
  <2>1. CASE p.conv \in {"o", "u"} /\ CharAt(at) \in Digit
    <3> DEFINE v == DigitValue(CharAt(at))
    <3>1. v \in Int BY <2>1, DigitIsValue
    <3>2. x = Char("digit", v) BY <2>1 DEF PrefixEnd
    <3> HIDE DEF v, x
    <3>3. x \in Plain BY <3>1, <3>2, CharTyped
    <3> QED BY <2>1, <3>3 DEF Copied
  <2>2. CASE ~(p.conv \in {"o", "u"} /\ CharAt(at) \in Digit)
    <3>1. x = Char("prefix", 0) BY <2>2 DEF PrefixEnd
    <3> HIDE DEF x
    <3> QED BY <3>1, CharTyped
  <2> QED BY <2>1, <2>2
<1>3. Prefix(p) = IF "#" \in p.flags THEN <<z, x>> ELSE <<>> BY DEF Prefix
<1> HIDE DEF z, x
<1>4. CASE "#" \in p.flags
  <2>1. Prefix(p) = <<z, x>> /\ PrefixWidth(p) = 2 BY <1>3, <1>4 DEF PrefixWidth
  <2>2. <<z, x>> \in Seq(Plain) /\ Len(<<z, x>>) = 2 BY <1>1, <1>2
  <2>3. ~Copied(p) => <<z, x>> \in Seq(Worthless) BY <1>1, <1>2, <1>4
  <2> QED BY <2>1, <2>2, <2>3
<1>5. CASE "#" \notin p.flags
  <2>1. Prefix(p) = <<>> /\ PrefixWidth(p) = 0 BY <1>3, <1>5 DEF PrefixWidth
  <2>2. <<>> \in Seq(Worthless) /\ <<>> \in Seq(Plain) /\ Len(<<>>) = 0 OBVIOUS
  <2> QED BY <2>1, <2>2
<1> QED BY <1>4, <1>5

\* %o, %x, %X and %u, and %d and %i: the number, in a field of its width.
LEMMA UnsignedPrinted ==
  ASSUME NEW p, IsNumberPiece(p), NEW b, b = Base(p), b \in Nat \ {0}, b > 1
  PROVE  NumberIs(p, UnsignedNumber(p).width, UnsignedNumber(p).text, Unsigned(p.arg), b)
<1> DEFINE num     == Unsigned(p.arg)
           none    == p.precision = 0 /\ num = 0
           len     == IF none THEN 0 ELSE DigitCount(num, b)
           lenPrec == Larger(p.precision, len)
           used    == lenPrec + SignWidth(p) + PrefixWidth(p)
           width   == Larger(Unsigned(p.width), used)
           prefix  == Prefix(p)
           y       == Times(lenPrec - len, Char("digit", 0))
           d       == IF none THEN <<>> ELSE Digits(num, b)
           t       == Field(p, width, used, Sign(p), prefix, y \o d)
<1>1. UnsignedNumber(p).width = width /\ UnsignedNumber(p).text = t BY DEF UnsignedNumber
<1>2. num \in Unsigneds BY UnsignedTyped DEF IsNumberPiece
<1> HIDE DEF num, t
<1>3. AreDigits(d, num, b) /\ Len(d) = len
  <2>1. CASE none
    <3>1. AreDigits(<<>>, 0, b) /\ Len(<<>>) = 0 BY NoDigitsAre
    <3>2. num = 0 /\ d = <<>> /\ len = 0 BY <2>1
    <3> QED BY <3>1, <3>2
  <2>2. CASE ~none
    <3>1. d = Digits(num, b) /\ len = DigitCount(num, b) BY <2>2
    <3> HIDE DEF d, len
    <3> QED BY <3>1, <1>2, DigitsTyped
  <2> QED BY <2>1, <2>2
<1>4. len \in Nat
  <2>1. DigitCount(num, b) \in Nat \ {0} BY <1>2, DigitsCounted
  <2> QED BY <2>1
<1> HIDE DEF d, len
<1>5. lenPrec \in Nat /\ lenPrec >= len
  <2>1. p.precision \in Int BY IntAssumption DEF IsNumberPiece, IntRange
  <2> QED BY <2>1, <1>4, LargerIs
<1> HIDE DEF lenPrec
<1>6. y \in Seq(Worthless) /\ y \in Seq(Plain) /\ Len(y) = lenPrec - len
  <2> DEFINE z == Char("digit", 0)
             k == lenPrec - len
  <2>1. z \in Worthless /\ z \in Plain
    <3>1. 0 \in Int OBVIOUS
    <3> QED BY <3>1, CharTyped
  <2>2. k \in Nat BY <1>4, <1>5
  <2> HIDE DEF z, k
  <2>3. Times(k, z) \in Seq(Worthless) /\ Times(k, z) \in Seq(Plain) /\ Len(Times(k, z)) = k BY <2>1, <2>2, TimesTyped
  <2> QED BY <2>3 DEF z, k
<1>7. /\ ~Copied(p) => prefix \in Seq(Worthless)
      /\ prefix \in Seq(Plain) /\ Len(prefix) = PrefixWidth(p) /\ PrefixWidth(p) \in Nat
  BY PrefixTyped DEF IsNumberPiece
<1> HIDE DEF y, prefix
<1>8. /\ Sign(p) \in Seq(Worthless) /\ Sign(p) \in Seq(Plain) /\ Len(Sign(p)) = SignWidth(p)
      /\ SignWidth(p) \in Nat
  BY SignTyped
<1>9. used \in Nat /\ used = Len(Sign(p)) + Len(prefix) + Len(y) + Len(d)
  <2>1. Len(d) = len /\ Len(y) = lenPrec - len BY <1>3, <1>6, Zenon
  <2>2. Len(Sign(p)) = SignWidth(p) /\ Len(prefix) = PrefixWidth(p) BY <1>7, <1>8, Zenon
  <2>3. SignWidth(p) \in Nat /\ PrefixWidth(p) \in Nat BY <1>7, <1>8, Zenon
  <2>4. used \in Nat BY <2>3, <1>5
  <2> QED BY <2>1, <2>2, <2>3, <2>4, <1>4, <1>5
<1> HIDE DEF used
<1>10. NumberIs(p, width, Field(p, width, used, Sign(p), prefix, y \o d), num, b)
  BY <1>3, <1>6, <1>7, <1>8, <1>9, FieldPrinted
<1> QED BY <1>1, <1>10 DEF t, num

LEMMA SignedPrinted ==
  ASSUME NEW p, IsNumberPiece(p)
  PROVE  NumberIs(p, SignedNumber(p).width, SignedNumber(p).text, Unsigned(p.arg), 10)
<1> DEFINE negative == p.arg < 0
           n     == Unsigned(p.arg)
           d     == Digits(n, 10)
           used  == DigitCount(n, 10) + (IF negative THEN 1 ELSE SignWidth(p))
           width == Larger(Unsigned(p.width), used)
           sign  == IF negative THEN <<Char("sign", -1)>> ELSE Sign(p)
<1>1. SignedNumber(p).width = width /\ SignedNumber(p).text = Field(p, width, used, sign, <<>>, d)
  BY DEF SignedNumber
<1>2. n \in Unsigneds BY UnsignedTyped DEF IsNumberPiece
<1>3. 10 \in Nat \ {0} /\ 10 > 1 OBVIOUS
<1> DEFINE b == 10
<1> HIDE DEF n, b
<1>4. b \in Nat \ {0} /\ b > 1 BY DEF b
<1>5. AreDigits(Digits(n, b), n, b) /\ Len(Digits(n, b)) = DigitCount(n, b) /\ DigitCount(n, b) \in Nat
  BY <1>2, <1>4, DigitsTyped, DigitsCounted
<1>6. AreDigits(d, n, b) /\ Len(d) = DigitCount(n, 10) /\ DigitCount(n, 10) \in Nat BY <1>5 DEF b
<1> HIDE DEF d
<1>7. sign \in Seq(Worthless) /\ sign \in Seq(Plain) /\ Len(sign) = (IF negative THEN 1 ELSE SignWidth(p))
      /\ Len(sign) \in Nat
  <2> DEFINE z == Char("sign", -1)
  <2>1. z \in Worthless /\ z \in Plain
    <3>1. -1 \in Int OBVIOUS
    <3> QED BY <3>1, CharTyped
  <2>2. sign = IF negative THEN <<z>> ELSE Sign(p) OBVIOUS
  <2> HIDE DEF z, sign, negative
  <2>3. CASE negative BY <2>1, <2>2, <2>3
  <2>4. CASE ~negative BY <2>2, <2>4, SignTyped
  <2> QED BY <2>3, <2>4
<1> HIDE DEF sign, negative
<1>8. <<>> \in Seq(Worthless) /\ <<>> \in Seq(Plain) /\ Len(<<>>) = 0 OBVIOUS
<1>9. used \in Nat /\ used = Len(sign) + Len(<<>>) + Len(<<>>) + Len(d) BY <1>6, <1>7, <1>8
<1> HIDE DEF used
<1>10. NumberIs(p, width, Field(p, width, used, sign, <<>>, <<>> \o d), n, b)
  BY <1>4, <1>6, <1>7, <1>8, <1>9, FieldPrinted
<1>11. <<>> \o d = d
  <2>1. d \in Seq(Plain) BY <1>6 DEF AreDigits
  <2> QED BY <2>1
<1> QED BY <1>1, <1>10, <1>11 DEF b, n

-------------------------------------------------------------------------------
(* What each piece prints *)

\* Where sequences end, computed by any function with the same recursion.
LEMMA EndsAre ==
  ASSUME NEW ss, Len(ss) \in Nat, \A k \in 1 .. Len(ss) : Len(ss[k]) \in Nat,
         NEW f, f[0] = 0, \A k \in 1 .. Len(ss) : f[k] = f[k - 1] + Len(ss[k])
  PROVE  Ends(ss)[Len(ss)] = f[Len(ss)] /\ \A k \in 1 .. Len(ss) : Ends(ss)[k - 1] = f[k - 1]
<1> DEFINE n == Len(ss)
           o == Ends(ss)
           T == {k \in 0 .. n : o[k] = f[k]}
<1>1. n \in Nat OBVIOUS
<1>2. o[0] = 0 /\ \A k \in 1 .. n : o[k] = o[k - 1] + Len(ss[k]) BY EndsComputed
<1> HIDE DEF n, o
<1>3. 0 \in T BY <1>1, <1>2
<1>4. ASSUME NEW k \in 1 .. n, k - 1 \in T PROVE k \in T
  <2>1. k \in 0 .. n /\ o[k - 1] = f[k - 1] BY <1>1, <1>4
  <2>2. f[k] = f[k - 1] + Len(ss[k]) BY DEF n
  <2>3. o[k] = f[k] BY <2>1, <2>2, <1>2
  <2> QED BY <2>1, <2>3
<1> HIDE DEF T
<1>5. 0 .. n \subseteq T BY <1>1, <1>3, <1>4, InductUpTo
<1>6. \A k \in 0 .. n : o[k] = f[k] BY <1>5 DEF T
<1>7. n \in 0 .. n /\ \A k \in 1 .. n : k - 1 \in 0 .. n BY <1>1
<1> QED BY <1>6, <1>7 DEF n, o

\* Printed one by one, characters are what was to be printed.
LEMMA OneByOne ==
  ASSUME NEW S, NEW t, t \in Seq(S)
  PROVE  LET ss == [k \in DOMAIN t |-> <<t[k]>>]
         IN  /\ ss \in Seq(Seq(S)) /\ FlattenSeq(ss) = t
             /\ \A k \in DOMAIN ss : Len(ss[k]) = 1
<1> DEFINE n == Len(t)
           ss == [k \in DOMAIN t |-> <<t[k]>>]
           f == [k \in 0 .. n |-> k]
           u == FlattenSeq(ss)
<1>1. n \in Nat /\ DOMAIN t = 1 .. n /\ \A k \in 1 .. n : t[k] \in S OBVIOUS
<1>2. ss = [k \in 1 .. n |-> <<t[k]>>] BY <1>1
<1> HIDE DEF n, ss
<1>3. \A k \in 1 .. n : ss[k] = <<t[k]>> /\ ss[k] \in Seq(S) /\ Len(ss[k]) = 1 /\ ss[k][1] = t[k] BY <1>1, <1>2
<1>4. ss \in Seq(Seq(S)) /\ Len(ss) = n /\ DOMAIN ss = 1 .. n
  <2>1. \A k \in 1 .. n : ss[k] \in Seq(S) BY <1>3
  <2>2. DOMAIN ss = 1 .. n BY <1>2
  <2> QED BY <2>1, <2>2, <1>1, <1>2
<1>5. Ends(ss)[n] = n /\ \A k \in 1 .. n : Ends(ss)[k - 1] = k - 1
  <2>1. f[0] = 0 /\ \A k \in 1 .. n : f[k] = f[k - 1] + 1 BY <1>1
  <2>2. \A k \in 1 .. n : f[k] = f[k - 1] + Len(ss[k]) BY <2>1, <1>3
  <2>3. f[n] = n /\ \A k \in 1 .. n : f[k - 1] = k - 1 BY <1>1
  <2>4. Len(ss) \in Nat /\ \A k \in 1 .. Len(ss) : Len(ss[k]) \in Nat BY <1>1, <1>3, <1>4
  <2> HIDE DEF f
  <2>5. Ends(ss)[Len(ss)] = f[Len(ss)] /\ \A k \in 1 .. Len(ss) : Ends(ss)[k - 1] = f[k - 1]
    BY <2>1, <2>2, <2>4, <1>4, EndsAre
  <2> QED BY <2>3, <2>5, <1>4
<1>6. /\ u \in Seq(S) /\ Len(u) = n
      /\ \A k \in 1 .. n : \A j \in 1 .. Len(ss[k]) : u[Ends(ss)[k - 1] + j] = ss[k][j]
  BY <1>4, <1>5, Flattened
<1>7. \A k \in 1 .. n : u[k] = t[k]
  <2> SUFFICES ASSUME NEW k \in 1 .. n PROVE u[k] = t[k] OBVIOUS
  <2>1. 1 \in 1 .. Len(ss[k]) BY <1>3
  <2>2. u[Ends(ss)[k - 1] + 1] = ss[k][1] BY <2>1, <1>6
  <2>3. Ends(ss)[k - 1] + 1 = k BY <1>1, <1>5
  <2> QED BY <2>2, <2>3, <1>3
<1> HIDE DEF u
<1>8. u = [k \in 1 .. n |-> u[k]] /\ t = [k \in 1 .. n |-> t[k]] BY <1>6 DEF n
<1>9. u = t BY <1>7, <1>8
<1> QED BY <1>3, <1>4, <1>9 DEF u, ss

\* Padding counts one by one.
LEMMA PaddedLength ==
  ASSUME NEW p, NEW n, n \in Nat, NEW s, s \in Seq(Chars)
  PROVE  Padded(p, n, <<s>>) \in Seq(Seq(Chars)) /\ Len(FlattenSeq(Padded(p, n, <<s>>))) = n + Len(s)
<1> DEFINE c == <<Char("pad", 0)>>
           pad == Times(n, c)
           l == Len(s)
           one == <<s>>
           Good(ss) == ss \in Seq(Seq(Chars)) /\ Len(FlattenSeq(ss)) = n + l
<1>1. c \in Seq(Chars) /\ Len(c) = 1
  <2> DEFINE x == Char("pad", 0)
  <2>1. x \in Chars BY CharTyped DEF NoDigits
  <2> HIDE DEF x
  <2>2. <<x>> \in Seq(Chars) /\ Len(<<x>>) = 1 BY <2>1
  <2> QED BY <2>2 DEF x
<1>2. l \in Nat OBVIOUS
<1> HIDE DEF c, l
<1>3. pad \in Seq(Seq(Chars)) /\ Len(pad) = n /\ \A k \in 1 .. n : pad[k] = c BY <1>1 DEF Times
<1>4. one \in Seq(Seq(Chars)) /\ Len(one) = 1 /\ one[1] = s OBVIOUS
<1> HIDE DEF pad, one
<1>5. Good(one \o pad)
  <2> DEFINE ss == one \o pad
             f == [k \in 0 .. n + 1 |-> IF k = 0 THEN 0 ELSE l + k - 1]
  <2>1. /\ ss \in Seq(Seq(Chars)) /\ Len(ss) = n + 1 /\ ss[1] = s
        /\ \A k \in 1 .. n : ss[1 + k] = c
    <3>1. /\ ss \in Seq(Seq(Chars)) /\ Len(ss) = Len(one) + Len(pad)
          /\ \A k \in 1 .. Len(one) : ss[k] = one[k]
          /\ \A k \in 1 .. Len(pad) : ss[Len(one) + k] = pad[k]
      <4>1. one \in Seq(Seq(Chars)) /\ pad \in Seq(Seq(Chars)) BY <1>3, <1>4
      <4> QED BY <4>1
    <3> HIDE DEF ss
    <3>2. Len(ss) = n + 1 BY <3>1, <1>3, <1>4
    <3>3. 1 \in 1 .. Len(one) BY <1>4
    <3> QED BY <3>1, <3>2, <3>3, <1>3, <1>4
  <2> HIDE DEF ss
  <2>2. \A k \in 1 .. n + 1 : Len(ss[k]) = (IF k = 1 THEN l ELSE 1)
    <3> SUFFICES ASSUME NEW k \in 1 .. n + 1 PROVE Len(ss[k]) = (IF k = 1 THEN l ELSE 1) OBVIOUS
    <3>1. CASE k = 1 BY <3>1, <2>1 DEF l
    <3>2. CASE k # 1
      <4>1. k - 1 \in 1 .. n /\ 1 + (k - 1) = k BY <3>2
      <4>2. ss[1 + (k - 1)] = c BY <4>1, <2>1
      <4> QED BY <4>1, <4>2, <3>2, <1>1
    <3> QED BY <3>1, <3>2
  <2>3. Len(ss) \in Nat /\ \A k \in 1 .. Len(ss) : Len(ss[k]) \in Nat BY <2>1, <2>2, <1>2
  <2>4. f[0] = 0 /\ f[n + 1] = n + l /\ \A k \in 1 .. n + 1 : f[k] = f[k - 1] + (IF k = 1 THEN l ELSE 1)
    <3>1. f[0] = 0 /\ f[n + 1] = n + l BY <1>2
    <3>2. ASSUME NEW k \in 1 .. n + 1 PROVE f[k] = f[k - 1] + (IF k = 1 THEN l ELSE 1)
      <4>1. CASE k = 1 BY <4>1, <1>2
      <4>2. CASE k # 1
        <5>1. k - 1 \in 0 .. n + 1 /\ k - 1 # 0 /\ k # 0 /\ k \in 0 .. n + 1 BY <4>2
        <5>2. f[k] = l + k - 1 /\ f[k - 1] = l + (k - 1) - 1 BY <5>1
        <5> HIDE DEF f
        <5> QED BY <5>2, <4>2, <1>2
      <4> QED BY <4>1, <4>2
    <3> QED BY <3>1, <3>2
  <2> HIDE DEF f
  <2>5. \A k \in 1 .. Len(ss) : f[k] = f[k - 1] + Len(ss[k]) BY <2>1, <2>2, <2>4
  <2>6. Ends(ss)[Len(ss)] = n + l
    <3>1. Ends(ss)[Len(ss)] = f[Len(ss)] BY <2>3, <2>4, <2>5, EndsAre
    <3> QED BY <3>1, <2>1, <2>4
  <2>7. Len(FlattenSeq(ss)) = n + l
    <3> DEFINE S == Chars
    <3>1. ss \in Seq(Seq(S)) BY <2>1
    <3> HIDE DEF S
    <3>2. Len(FlattenSeq(ss)) = Ends(ss)[Len(ss)] BY <3>1, Flattened
    <3> QED BY <3>2, <2>6
  <2> QED BY <2>1, <2>7 DEF ss
<1>6. Good(pad \o one)
  <2> DEFINE ss == pad \o one
             f == [k \in 0 .. n + 1 |-> IF k = n + 1 THEN n + l ELSE k]
  <2>1. /\ ss \in Seq(Seq(Chars)) /\ Len(ss) = n + 1 /\ ss[n + 1] = s
        /\ \A k \in 1 .. n : ss[k] = c
    <3>1. /\ ss \in Seq(Seq(Chars)) /\ Len(ss) = Len(pad) + Len(one)
          /\ \A k \in 1 .. Len(pad) : ss[k] = pad[k]
          /\ \A k \in 1 .. Len(one) : ss[Len(pad) + k] = one[k]
      <4>1. one \in Seq(Seq(Chars)) /\ pad \in Seq(Seq(Chars)) BY <1>3, <1>4
      <4> QED BY <4>1
    <3> HIDE DEF ss
    <3>2. Len(ss) = n + 1 BY <3>1, <1>3, <1>4
    <3>3. 1 \in 1 .. Len(one) BY <1>4
    <3> QED BY <3>1, <3>2, <3>3, <1>3, <1>4
  <2> HIDE DEF ss
  <2>2. \A k \in 1 .. n + 1 : Len(ss[k]) = (IF k = n + 1 THEN l ELSE 1)
    <3> SUFFICES ASSUME NEW k \in 1 .. n + 1 PROVE Len(ss[k]) = (IF k = n + 1 THEN l ELSE 1) OBVIOUS
    <3>1. CASE k = n + 1 BY <3>1, <2>1 DEF l
    <3>2. CASE k # n + 1
      <4>1. k \in 1 .. n BY <3>2
      <4>2. ss[k] = c BY <4>1, <2>1
      <4> QED BY <4>2, <3>2, <1>1
    <3> QED BY <3>1, <3>2
  <2>3. Len(ss) \in Nat /\ \A k \in 1 .. Len(ss) : Len(ss[k]) \in Nat BY <2>1, <2>2, <1>2
  <2>4. f[0] = 0 /\ f[n + 1] = n + l /\ \A k \in 1 .. n + 1 : f[k] = f[k - 1] + (IF k = n + 1 THEN l ELSE 1)
    <3>1. f[0] = 0 /\ f[n + 1] = n + l BY <1>2
    <3>2. ASSUME NEW k \in 1 .. n + 1 PROVE f[k] = f[k - 1] + (IF k = n + 1 THEN l ELSE 1)
      <4>1. k - 1 \in 0 .. n + 1 /\ k - 1 # n + 1 /\ k \in 0 .. n + 1 OBVIOUS
      <4>2. f[k] = (IF k = n + 1 THEN n + l ELSE k) /\ f[k - 1] = k - 1 BY <4>1
      <4> HIDE DEF f
      <4>3. CASE k = n + 1 BY <4>2, <4>3, <1>2
      <4>4. CASE k # n + 1 BY <4>2, <4>4
      <4> QED BY <4>3, <4>4
    <3> QED BY <3>1, <3>2
  <2> HIDE DEF f
  <2>5. \A k \in 1 .. Len(ss) : f[k] = f[k - 1] + Len(ss[k]) BY <2>1, <2>2, <2>4
  <2>6. Ends(ss)[Len(ss)] = n + l
    <3>1. Ends(ss)[Len(ss)] = f[Len(ss)] BY <2>3, <2>4, <2>5, EndsAre
    <3> QED BY <3>1, <2>1, <2>4
  <2>7. Len(FlattenSeq(ss)) = n + l
    <3> DEFINE S == Chars
    <3>1. ss \in Seq(Seq(S)) BY <2>1
    <3> HIDE DEF S
    <3>2. Len(FlattenSeq(ss)) = Ends(ss)[Len(ss)] BY <3>1, Flattened
    <3> QED BY <3>2, <2>6
  <2> QED BY <2>1, <2>7 DEF ss
<1>7. Padded(p, n, <<s>>) = IF "-" \in p.flags THEN one \o pad ELSE pad \o one BY DEF Padded, one, pad, c
<1> HIDE DEF Good
<1>8. Good(Padded(p, n, <<s>>)) BY <1>5, <1>6, <1>7
<1> QED BY <1>8 DEF Good, l

\* What a piece is when it has been read.
IsRead(p) ==
    \/ p.conv = "text" /\ Len(p.chars) \in Nat
    \/ /\ p.conv \in Conversions /\ p.width \in IntRange /\ p.precision \in IntRange
       /\ p.arg \in (IF p.conv = "s" THEN 0 .. IntMax ELSE IntRange)

\* Every piece that an author can mean is typed.
LEMMA MeantTyped ==
  ASSUME NEW q, IsTextPiece(q) \/ IsDirective(q)
  PROVE  IsRead(Meant(q))
<1>1. CASE q.conv = "text"
  <2>1. Meant(q) = Text(q.chars) BY <1>1 DEF Meant
  <2>2. Len(q.chars) \in Nat \ {0} BY <1>1, TextOrNot, TextSpelled
  <2>3. Text(q.chars).conv = "text" /\ Text(q.chars).chars = q.chars BY DEF Text
  <2> QED BY <2>1, <2>2, <2>3 DEF IsRead
<1>2. CASE q.conv = "bad"
  <2>1. Meant(q) = Text(Spell(q)) BY <1>2 DEF Meant
  <2>2. Len(Spell(q)) \in Nat \ {0} BY PieceSpelled
  <2>3. Text(Spell(q)).conv = "text" /\ Text(Spell(q)).chars = Spell(q) BY DEF Text
  <2> QED BY <2>1, <2>2, <2>3 DEF IsRead
<1>3. CASE q.conv # "text" /\ q.conv # "bad"
  <2>1. IsDirective(q) /\ q.conv \in Conversions BY <1>3, TextOrNot
  <2> DEFINE r == [flags |-> ToSet(q.flags), width |-> q.width.value,
                   precision |-> IF q.point THEN q.precision.value ELSE Absent]
  <2>2. Meant(q) = Directive(r, q.conv, q.arg) BY <1>3 DEF Meant
  <2>3. /\ Meant(q).conv = q.conv /\ Meant(q).width = q.width.value /\ Meant(q).arg = q.arg
        /\ Meant(q).precision = IF q.point THEN q.precision.value ELSE Absent
    BY <2>2 DEF Directive
  <2>4. /\ q.width.value \in IntRange /\ q.precision.value \in IntRange
        /\ q.arg \in (IF q.conv = "s" THEN 0 .. IntMax ELSE IntRange)
    BY <2>1 DEF IsDirective, IsNumber, Conversions
  <2>5. Absent \in IntRange BY IntAssumption DEF Absent, IntRange
  <2> QED BY <2>1, <2>3, <2>4, <2>5 DEF IsRead
<1> QED BY <1>1, <1>2, <1>3

\* What a number prints is its field, whatever its conversion.
NumberOfPiece(p) == IF p.conv \in Signed THEN SignedNumber(p) ELSE UnsignedNumber(p)

\* The field of a number, whatever its conversion.
LEMMA NumberField ==
  ASSUME NEW p, IsRead(p), p.conv \in Numbers
  PROVE  NumberIs(p, NumberOfPiece(p).width, NumberOfPiece(p).text, Unsigned(p.arg), Base(p))
<1>1. p.conv # "text" /\ p.conv # "s" BY DEF Numbers, Signed
<1>2. IsNumberPiece(p) BY <1>1 DEF IsRead, IsNumberPiece
<1>3. CASE p.conv \in Signed
  <2>1. Base(p) = 10 BY <1>3 DEF Signed, Base
  <2>2. NumberOfPiece(p) = SignedNumber(p) BY <1>3 DEF NumberOfPiece
  <2> QED BY <2>1, <2>2, <1>2, SignedPrinted
<1>4. CASE p.conv \notin Signed
  <2>1. Base(p) \in Nat \ {0} /\ Base(p) > 1 BY DEF Base
  <2>2. NumberOfPiece(p) = UnsignedNumber(p) BY <1>4 DEF NumberOfPiece
  <2> QED BY <2>1, <2>2, <1>2, UnsignedPrinted
<1> QED BY <1>3, <1>4

\* A number prints its field, one character after the other.
LEMMA NumberPrints ==
  ASSUME NEW p, IsRead(p), p.conv \in Numbers, Printed(p).width <= IntMax
  PROVE  LET f == Printed(p)
         IN  /\ f.width \in Nat /\ f.prints \in Seq(Seq(Chars))
             /\ \A k \in DOMAIN f.prints : Len(f.prints[k]) = 1
             /\ NumberIs(p, f.width, FlattenSeq(f.prints), Unsigned(p.arg), Base(p))
<1> DEFINE g == NumberOfPiece(p)
           t == g.text
           w == g.width
           prints == [k \in DOMAIN t |-> <<t[k]>>]
<1>1. Printed(p) = [width |-> w, prints |-> prints] BY DEF Printed, NumberOfPiece
<1>2. Printed(p).width = w /\ Printed(p).prints = prints BY <1>1
<1> HIDE DEF prints
<1>3. NumberIs(p, w, t, Unsigned(p.arg), Base(p)) BY NumberField
<1> HIDE DEF g
<1>4. w \in Nat /\ t \in Seq(Chars) BY <1>2, <1>3 DEF NumberIs
<1>5. /\ prints \in Seq(Seq(Chars)) /\ FlattenSeq(prints) = t
      /\ \A k \in DOMAIN prints : Len(prints[k]) = 1
  <2> DEFINE S == Chars
  <2>1. t \in Seq(S) BY <1>4
  <2> HIDE DEF S
  <2>2. /\ prints \in Seq(Seq(S)) /\ FlattenSeq(prints) = t
        /\ \A k \in DOMAIN prints : Len(prints[k]) = 1
    BY <2>1, OneByOne DEF prints
  <2> QED BY <2>2 DEF S
<1> QED BY <1>2, <1>3, <1>4, <1>5

\* Any other piece prints as many characters as its width says.
Fills1(f) == f.width \in Nat /\ f.prints \in Seq(Seq(Chars)) /\ Len(FlattenSeq(f.prints)) = f.width

LEMMA TextPrints ==
  ASSUME NEW p, p.conv = "text", Len(p.chars) \in Nat
  PROVE  Fills1(Ordinary(p))
<1> DEFINE n == Len(p.chars)
           s == Times(n, Char("text", 0))
           ss == <<s>>
           f == [k \in 0 .. 1 |-> IF k = 0 THEN 0 ELSE n]
<1>1. n \in Nat OBVIOUS
<1>2. Ordinary(p).width = n /\ Ordinary(p).prints = ss BY DEF Ordinary
<1> HIDE DEF n
<1>3. s \in Seq(Chars) /\ Len(s) = n BY <1>1, CharTyped, TimesTyped
<1> HIDE DEF s
<1>4. ss \in Seq(Seq(Chars)) /\ Len(ss) = 1 /\ ss[1] = s BY <1>3
<1> HIDE DEF ss
<1>5. Ends(ss)[Len(ss)] = n
  <2>1. Len(ss) \in Nat /\ \A k \in 1 .. Len(ss) : Len(ss[k]) \in Nat BY <1>1, <1>3, <1>4
  <2>2. f[0] = 0 /\ f[1] = n BY <1>1
  <2> HIDE DEF f
  <2>3. \A k \in 1 .. Len(ss) : f[k] = f[k - 1] + Len(ss[k])
    <3> SUFFICES ASSUME NEW k \in 1 .. Len(ss) PROVE f[k] = f[k - 1] + Len(ss[k]) OBVIOUS
    <3>1. k = 1 /\ k - 1 = 0 /\ Len(ss[k]) = n BY <1>3, <1>4
    <3> QED BY <3>1, <2>2, <1>1
  <2>4. Ends(ss)[Len(ss)] = f[Len(ss)] BY <2>1, <2>2, <2>3, EndsAre
  <2> QED BY <2>2, <2>4, <1>4
<1>6. Len(FlattenSeq(ss)) = n
  <2> DEFINE S == Chars
  <2>1. ss \in Seq(Seq(S)) BY <1>4
  <2> HIDE DEF S
  <2>2. Len(FlattenSeq(ss)) = Ends(ss)[Len(ss)] BY <2>1, Flattened
  <2> QED BY <2>2, <1>5
<1> QED BY <1>1, <1>2, <1>4, <1>6 DEF Fills1

LEMMA CharacterPrints ==
  ASSUME NEW p, p.width \in IntRange
  PROVE  Fills1(Character(p))
<1> DEFINE w == Larger(p.width, 1)
           c == <<Char("text", 0)>>
           ss == Padded(p, w - 1, <<c>>)
<1>1. p.width \in Int BY IntAssumption DEF IntRange
<1>2. w \in Nat /\ w >= 1 BY <1>1, LargerIs
<1>3. Character(p).width = w /\ Character(p).prints = ss BY DEF Character
<1> HIDE DEF w
<1>4. c \in Seq(Chars) /\ Len(c) = 1
  <2> DEFINE x == Char("text", 0)
  <2>1. x \in Chars BY CharTyped
  <2> HIDE DEF x
  <2>2. <<x>> \in Seq(Chars) /\ Len(<<x>>) = 1 BY <2>1
  <2> QED BY <2>2 DEF x
<1> HIDE DEF c
<1>5. ss \in Seq(Seq(Chars)) /\ Len(FlattenSeq(ss)) = (w - 1) + Len(c)
  <2>1. w - 1 \in Nat BY <1>2
  <2> QED BY <2>1, <1>4, PaddedLength
<1> HIDE DEF ss
<1> QED BY <1>2, <1>3, <1>4, <1>5 DEF Fills1

LEMMA StringPrints ==
  ASSUME NEW p, p.width \in IntRange, p.precision \in IntRange, p.arg \in 0 .. IntMax,
         String(p).width <= IntMax
  PROVE  Fills1(String(p))
<1> DEFINE u == Unsigned(p.width)
           wide == IF p.arg > u THEN p.arg ELSE p.width
           cut  == IF p.precision >= 0 /\ p.precision < wide THEN p.precision ELSE wide
           short == p.precision >= 0 /\ p.precision < p.arg
           len  == IF short THEN p.precision ELSE p.arg
           v == IF short THEN p.precision ELSE cut
           width == Unsigned(v)
           s == Times(len, Char("text", 0))
           n == IF width > IntMax THEN 0 ELSE width - len
           ss == Padded(p, n, <<s>>)
<1>1. String(p).width = width /\ String(p).prints = ss BY DEF String
<1>2. width <= IntMax BY <1>1
<1> HIDE DEF width, ss
<1>3. p.width \in Int /\ p.precision \in Int /\ p.arg \in Nat /\ p.arg <= IntMax /\ IntMax \in Nat
      /\ p.width <= IntMax /\ p.precision <= IntMax
  BY IntAssumption DEF IntRange
<1>4. (p.width < 0 => u > IntMax) /\ (p.width >= 0 => u = p.width) /\ u \in Int
  <2>1. u \in Unsigneds BY UnsignedTyped
  <2>2. u \in Nat BY <2>1, UnsignedTyped DEF Unsigneds
  <2>3. p.width < 0 => u > IntMax BY UnsignedTyped
  <2>4. p.width >= 0 => p.width \in 0 .. IntMax BY <1>3
  <2>5. p.width >= 0 => u = p.width BY <2>4, UnsignedTyped
  <2> QED BY <2>2, <2>3, <2>5
<1> HIDE DEF u
<1>5. len \in 0 .. IntMax /\ (v \in len .. IntMax \/ (v \in IntRange /\ v < 0))
  <2>1. CASE short BY <2>1, <1>3
  <2>2. CASE ~short /\ p.width < 0
    <3>1. wide = p.width BY <2>2, <1>3, <1>4
    <3>2. cut = p.width BY <3>1, <2>2, <1>3
    <3> QED BY <3>2, <2>2, <1>3
  <2>3. CASE ~short /\ p.width >= 0
    <3>1. wide \in p.arg .. IntMax BY <2>3, <1>3, <1>4
    <3> HIDE DEF wide
    <3>2. cut \in p.arg .. IntMax BY <3>1, <2>3, <1>3
    <3> HIDE DEF cut
    <3> QED BY <3>2, <2>3, <1>3
  <2> QED BY <2>1, <2>2, <2>3, <1>3
<1> HIDE DEF v, len
<1>6. width \in Nat /\ width >= len
  <2>1. CASE v \in len .. IntMax
    <3>1. v \in 0 .. IntMax BY <2>1, <1>5
    <3>2. width = v BY <3>1, UnsignedTyped DEF width
    <3> QED BY <3>1, <3>2, <2>1, <1>5
  <2>2. CASE v \in IntRange /\ v < 0
    <3>1. width > IntMax BY <2>2, UnsignedTyped DEF width
    <3>2. width \in Unsigneds BY <2>2, UnsignedTyped DEF width
    <3>3. width \in Int BY <3>2, UnsignedTyped DEF Unsigneds
    <3> QED BY <3>1, <3>3, <1>2, <1>3
  <2> QED BY <2>1, <2>2, <1>5
<1>7. n = width - len /\ n \in Nat
  <2>1. ~(width > IntMax) BY <1>2, <1>3, <1>6
  <2> QED BY <2>1, <1>5, <1>6
<1> HIDE DEF n
<1>8. s \in Seq(Chars) /\ Len(s) = len BY <1>5, CharTyped, TimesTyped
<1> HIDE DEF s
<1>9. ss \in Seq(Seq(Chars)) /\ Len(FlattenSeq(ss)) = n + Len(s) BY <1>7, <1>8, PaddedLength DEF ss
<1>10. Len(FlattenSeq(ss)) = width BY <1>5, <1>6, <1>7, <1>8, <1>9
<1> QED BY <1>1, <1>6, <1>9, <1>10 DEF Fills1

\* A width is a natural number, be it too large for an int.
LEMMA WidthTyped ==
  ASSUME NEW p, IsRead(p)
  PROVE  Printed(p).width \in Nat
<1>1. CASE p.conv \in Numbers
  <2> DEFINE g == NumberOfPiece(p)
  <2>1. g.width \in Nat BY <1>1, NumberField DEF NumberIs
  <2>2. Printed(p).width = g.width BY <1>1 DEF Printed, NumberOfPiece
  <2> QED BY <2>1, <2>2
<1>2. CASE p.conv = "text"
  <2>1. Printed(p) = Ordinary(p) BY <1>2 DEF Printed, Numbers, Signed
  <2>2. Len(p.chars) \in Nat BY <1>2 DEF IsRead, Conversions
  <2> QED BY <2>1, <2>2 DEF Ordinary
<1>3. CASE p.conv = "c"
  <2>1. Printed(p) = Character(p) BY <1>3 DEF Printed, Numbers, Signed
  <2>2. p.width \in Int BY <1>3, IntAssumption DEF IsRead, IntRange
  <2>3. Larger(p.width, 1) \in Nat BY <2>2 DEF Larger
  <2> QED BY <2>1, <2>3 DEF Character
<1>4. CASE p.conv = "s"
  <2>1. Printed(p) = String(p) BY <1>4 DEF Printed, Numbers, Signed
  <2>2. p.width \in Int /\ p.precision \in Int /\ p.arg \in Int
    BY <1>4, IntAssumption DEF IsRead, IntRange, Conversions
  <2> DEFINE wide == IF p.arg > Unsigned(p.width) THEN p.arg ELSE p.width
             cut  == IF p.precision >= 0 /\ p.precision < wide THEN p.precision ELSE wide
             v == IF p.precision >= 0 /\ p.precision < p.arg THEN p.precision ELSE cut
  <2>3. v \in Int BY <2>2
  <2>4. String(p).width = Unsigned(v) BY DEF String
  <2> HIDE DEF v
  <2>5. Unsigned(v) \in Nat
    <3>1. UMod \in Nat \ {0} BY IntAssumption DEF UMod
    <3> HIDE DEF UMod
    <3> QED BY <3>1, <2>3 DEF Unsigned
  <2> QED BY <2>1, <2>4, <2>5
<1> QED BY <1>1, <1>2, <1>3, <1>4 DEF IsRead, Conversions, Numbers, Signed

LEMMA PiecePrints ==
  ASSUME NEW p, IsRead(p), Printed(p).width <= IntMax
  PROVE  Fills1(Printed(p))
<1>1. CASE p.conv \in Numbers
  <2>1. /\ Printed(p).width \in Nat /\ Printed(p).prints \in Seq(Seq(Chars))
        /\ NumberIs(p, Printed(p).width, FlattenSeq(Printed(p).prints), Unsigned(p.arg), Base(p))
    BY <1>1, NumberPrints
  <2> QED BY <2>1 DEF NumberIs, Fills1
<1>2. CASE p.conv = "text"
  <2>1. Printed(p) = Ordinary(p) BY <1>2 DEF Printed, Numbers, Signed
  <2>2. Len(p.chars) \in Nat BY <1>2 DEF IsRead, Conversions
  <2> QED BY <2>1, <2>2, <1>2, TextPrints
<1>3. CASE p.conv = "c"
  <2>1. Printed(p) = Character(p) BY <1>3 DEF Printed, Numbers, Signed
  <2>2. p.width \in IntRange BY <1>3 DEF IsRead
  <2> QED BY <2>1, <2>2, CharacterPrints
<1>4. CASE p.conv = "s"
  <2>1. Printed(p) = String(p) BY <1>4 DEF Printed, Numbers, Signed
  <2>2. p.width \in IntRange /\ p.precision \in IntRange /\ p.arg \in 0 .. IntMax BY <1>4 DEF IsRead
  <2> QED BY <2>1, <2>2, StringPrints
<1> QED BY <1>1, <1>2, <1>3, <1>4 DEF IsRead, Conversions, Numbers, Signed

-------------------------------------------------------------------------------
(* The invariant of the printing *)

\* The piece that is printed is one that was meant.
LEMMA LastIs ==
  ASSUME ReadInv, stage = "print"
  PROVE  IsRead(Last(pieces))
<1> DEFINE x == Len(pieces)
<1>1. x \in 0 .. Len(meaning) /\ pieces = [k \in 1 .. x |-> Meant(meaning[k])] /\ x > 0
  BY DEF ReadInv, PiecesRead
<1>2. IsMeaning(meaning) BY MeaningRead
<1>3. Len(meaning) \in Nat /\ DOMAIN meaning = 1 .. Len(meaning) BY <1>2, FormatAt
<1>4. Last(pieces) = pieces[x] BY DEF Last
<1> HIDE DEF x
<1>5. x \in 1 .. x /\ x \in DOMAIN meaning BY <1>1, <1>3
<1>6. Last(pieces) = Meant(meaning[x]) BY <1>1, <1>4, <1>5
<1>7. IsTextPiece(meaning[x]) \/ IsDirective(meaning[x]) BY <1>2, <1>5 DEF IsMeaning
<1> QED BY <1>6, <1>7, MeantTyped

\* What is counted is what is printed.
CountIs ==
    /\ written \in 0 .. IntMax
    /\ ret = Running => out \in Seq(Chars) /\ written = Len(out)
    /\ ret \in {Running, -1} \/ (ret = written /\ written = Len(out))

PrintInv == ReadInv /\ CountIs /\ ValuePrinted /\ FieldFilled

\* A number is printed whole: no print of one character fails.
LEMMA NumberWhole ==
  ASSUME NEW p, IsRead(p), p.conv \in Numbers, Printed(p).width <= IntMax
  PROVE  {k \in DOMAIN Printed(p).prints : ~PrintWorks(Printed(p).prints[k])} = {}
<1> DEFINE prints == Printed(p).prints
<1>1. \A k \in DOMAIN prints : Len(prints[k]) = 1 BY NumberPrints
<1> HIDE DEF prints
<1>2. 1 % BoolValues # 0
  <2>1. BoolValues \in Nat /\ BoolValues > 1 BY BoolAssumption
  <2> QED BY <2>1
<1>3. \A k \in DOMAIN prints : PrintWorks(prints[k])
  <2> SUFFICES ASSUME NEW k \in DOMAIN prints PROVE Len(prints[k]) % BoolValues # 0 BY DEF PrintWorks
  <2> QED BY <1>1, <1>2
<1>4. {k \in DOMAIN prints : ~PrintWorks(prints[k])} = {} BY <1>3
<1> QED BY <1>4 DEF prints

\* Printing a piece keeps the count, the value and the field.
LEMMA PieceCounted ==
  ASSUME PrintInv, PrintPiece
  PROVE  CountIs' /\ ValuePrinted' /\ FieldFilled'
<1> DEFINE p == Last(pieces)
           f == Printed(p)
           failed == {k \in DOMAIN f.prints : ~PrintWorks(f.prints[k])}
           shown == IF failed = {} THEN f.prints
                   ELSE SubSeq(f.prints, 1, CHOOSE k \in failed : \A j \in failed : k <= j)
<1>1. /\ ret = Running /\ stage = "print" /\ Fits(f.width)
      /\ text' = FlattenSeq(shown) /\ out' = out \o FlattenSeq(shown)
      /\ ret' = (IF failed = {} THEN Running ELSE -1)
      /\ written' = (IF failed = {} THEN written + f.width ELSE written)
      /\ piece' = p
  BY DEF PrintPiece
<1>2. written \in 0 .. IntMax /\ out \in Seq(Chars) /\ written = Len(out) BY <1>1 DEF PrintInv, CountIs
<1>3. IsRead(p) BY <1>1, LastIs DEF PrintInv
<1>4. Fits(f.width) /\ IntMax \in Nat BY <1>1, IntAssumption
<1>5. failed = {} => shown = f.prints OBVIOUS
<1>6. ASSUME p.conv \in Numbers, f.width <= IntMax PROVE failed = {} BY <1>3, <1>6, NumberWhole
<1>7. ASSUME p.conv \in Numbers, f.width <= IntMax
      PROVE  f.width \in Nat /\ NumberIs(p, f.width, FlattenSeq(f.prints), Unsigned(p.arg), Base(p))
  BY <1>3, <1>7, NumberPrints
<1>8. f.width <= IntMax => Fills1(f) BY <1>3, PiecePrints
<1> HIDE DEF shown, failed, f, p
<1>9. f.width <= IntMax
  <2>1. f.width \in Nat BY <1>3, WidthTyped DEF f
  <2> QED BY <2>1, <1>2, <1>4 DEF Fits
<1>10. CountIs'
  <2>1. CASE failed = {}
    <3> DEFINE s == FlattenSeq(f.prints)
    <3>1. f.width \in Nat /\ s \in Seq(Chars) /\ Len(s) = f.width
      <4>1. f.width \in Nat /\ f.prints \in Seq(Seq(Chars)) /\ Len(s) = f.width BY <1>8, <1>9 DEF Fills1
      <4> DEFINE S == Chars
      <4>2. f.prints \in Seq(Seq(S)) BY <4>1
      <4> HIDE DEF S
      <4>3. s \in Seq(S) BY <4>2, Flattened
      <4> QED BY <4>1, <4>3 DEF S
    <3>2. out' = out \o s /\ written' = written + f.width /\ ret' = Running BY <2>1, <1>1, <1>5
    <3> HIDE DEF s
    <3>3. out \o s \in Seq(Chars) /\ Len(out \o s) = Len(out) + Len(s)
      <4>1. out \in Seq(Chars) /\ s \in Seq(Chars) BY <3>1, <1>2
      <4> QED BY <4>1
    <3>4. written' \in 0 .. IntMax BY <3>1, <3>2, <1>2, <1>4 DEF Fits
    <3>5. out' \in Seq(Chars) /\ written' = Len(out') BY <3>1, <3>2, <3>3, <1>2
    <3> QED BY <3>2, <3>4, <3>5 DEF CountIs
  <2>2. CASE failed # {}
    <3>1. written' = written /\ ret' = -1 BY <2>2, <1>1
    <3>2. ret' # Running /\ written' \in 0 .. IntMax BY <3>1, <1>2 DEF Running
    <3> QED BY <3>1, <3>2 DEF CountIs
  <2> QED BY <2>1, <2>2
<1>11. ASSUME p.conv \in Numbers
       PROVE  /\ ~Copied(p) => ValueOf(text', Base(p)) = Unsigned(p.arg)
              /\ \/ Len(text') = p.width
                 \/ Len(text') > p.width /\ \A k \in DOMAIN text' : ~IsFill(text'[k])
  <2>1. text' = FlattenSeq(f.prints) BY <1>1, <1>5, <1>6, <1>9, <1>11
  <2>2. NumberIs(p, f.width, text', Unsigned(p.arg), Base(p)) BY <2>1, <1>7, <1>9, <1>11
  <2> QED BY <2>2, <1>9 DEF NumberIs
<1>12. ValuePrinted'
  <2> SUFFICES ASSUME p.conv \in Numbers, ~Spoiled(p)
               PROVE  ValueOf(text', Base(p)) = IF p.conv \in Signed THEN p.arg ELSE Unsigned(p.arg)
    BY <1>1 DEF ValuePrinted
  <2>1. ~Copied(p) BY DEF Spoiled, Copied
  <2>2. ValueOf(text', Base(p)) = Unsigned(p.arg) BY <2>1, <1>11
  <2>3. p.conv \in Signed => Unsigned(p.arg) = p.arg
    <3> SUFFICES ASSUME p.conv \in Signed PROVE Unsigned(p.arg) = p.arg OBVIOUS
    <3>1. p.arg \in IntRange BY <1>3 DEF IsRead, Numbers, Signed
    <3>2. ~(p.arg < 0) BY DEF Spoiled
    <3>3. p.arg \in 0 .. IntMax BY <3>1, <3>2, IntAssumption DEF IntRange
    <3> QED BY <3>3, UnsignedTyped
  <2> QED BY <2>2, <2>3
<1>13. FieldFilled'
  <2>1. p.conv \in Numbers =>
          \/ Len(text') = p.width
          \/ Len(text') > p.width /\ \A k \in DOMAIN text' : ~IsFill(text'[k])
    BY <1>11
  <2> QED BY <2>1, <1>1 DEF FieldFilled
<1> QED BY <1>10, <1>12, <1>13

\* The invariant of the printing is inductive, and says what printf returns.
LEMMA PrintInvInit == PrintfInit => PrintInv
<1> SUFFICES ASSUME PrintfInit PROVE PrintInv OBVIOUS
<1>1. ReadInv BY ReadStarts DEF PrintfInit
<1>2. written = 0 /\ ret = Running /\ out = <<>> /\ piece = NoPiece BY DEF PrintfInit
<1>3. CountIs
  <2>1. <<>> \in Seq(Chars) /\ Len(<<>>) = 0 /\ 0 \in 0 .. IntMax BY IntAssumption
  <2> QED BY <2>1, <1>2 DEF CountIs
<1>4. piece.conv \notin Numbers BY <1>2 DEF NoPiece, Text, Numbers, Signed
<1> QED BY <1>1, <1>3, <1>4 DEF PrintInv, ValuePrinted, FieldFilled

LEMMA PrintInvNext == PrintInv /\ [PrintfNext]_printfVars => PrintInv'
<1> SUFFICES ASSUME PrintInv, [PrintfNext]_printfVars PROVE PrintInv' OBVIOUS
<1>1. ReadInv' BY ReadInductive DEF PrintInv
<1>2. CountIs /\ ValuePrinted /\ FieldFilled BY DEF PrintInv
<1>3. ASSUME UNCHANGED <<piece, text>> PROVE ValuePrinted' /\ FieldFilled'
  BY <1>2, <1>3 DEF ValuePrinted, FieldFilled
<1>4. CASE ReadPiece
  <2>1. UNCHANGED <<written, ret, out, piece, text>> BY <1>4 DEF ReadPiece
  <2>2. CountIs' BY <2>1, <1>2 DEF CountIs
  <2> QED BY <2>1, <2>2, <1>1, <1>3 DEF PrintInv
<1>5. CASE Overflow
  <2>1. ret' = -1 /\ UNCHANGED <<written, out, piece, text>> BY <1>5 DEF Overflow
  <2>2. CountIs' BY <2>1, <1>2 DEF CountIs, Running
  <2> QED BY <2>1, <2>2, <1>1, <1>3 DEF PrintInv
<1>6. CASE PrintPiece BY <1>6, <1>1, PieceCounted DEF PrintInv
<1>7. CASE Finish
  <2>1. ret = Running /\ ret' = written /\ UNCHANGED <<written, out, piece, text>> BY <1>7 DEF Finish
  <2>2. written \in 0 .. IntMax /\ written = Len(out) BY <2>1, <1>2 DEF CountIs
  <2>3. ret' # Running BY <2>1, <2>2, IntAssumption DEF Running
  <2>4. CountIs' BY <2>1, <2>2, <2>3 DEF CountIs
  <2> QED BY <2>1, <2>4, <1>1, <1>3 DEF PrintInv
<1>8. CASE UNCHANGED printfVars
  <2>1. UNCHANGED <<written, ret, out, piece, text>> BY <1>8 DEF printfVars
  <2>2. CountIs' BY <2>1, <1>2 DEF CountIs
  <2> QED BY <2>1, <2>2, <1>1, <1>3 DEF PrintInv
<1> QED BY <1>4, <1>5, <1>6, <1>7, <1>8 DEF PrintfNext

LEMMA CountReturned == CountIs => ReturnsLength
<1> SUFFICES ASSUME CountIs PROVE ReturnsLength OBVIOUS
<1>1. ASSUME ret >= 0 PROVE ret = Len(out) /\ ret <= IntMax
  <2>1. ret \notin {Running, -1} BY <1>1 DEF Running
  <2> QED BY <2>1, IntAssumption DEF CountIs
<1> QED BY <1>1 DEF CountIs, ReturnsLength

\* What printf returns is the number of characters it printed, and an int.
THEOREM ReturningLength == PrintfSpec => []ReturnsLength
<1>1. PrintInv => ReturnsLength BY CountReturned DEF PrintInv
<1> QED BY <1>1, PrintInvInit, PrintInvNext, PTL DEF PrintfSpec

\* The digits of a printed number, read back, are the value that was passed, for
\* every flag, width and precision, but for negative numbers (%d, %i) and for the
\* prefixes of %o and %u.
THEOREM PrintingValues == PrintfSpec => []ValuePrinted
<1>1. PrintInv => ValuePrinted BY DEF PrintInv
<1> QED BY <1>1, PrintInvInit, PrintInvNext, PTL DEF PrintfSpec

\* A printed number fills its field, and one that is wider has no fill.
THEOREM FillingFields == PrintfSpec => []FieldFilled
<1>1. PrintInv => FieldFilled BY DEF PrintInv
<1> QED BY <1>1, PrintInvInit, PrintInvNext, PTL DEF PrintfSpec
===============================================================================
