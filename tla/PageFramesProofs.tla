--------------------------- MODULE PageFramesProofs ---------------------------
(***************************************************************************)
(* Theorems about PageFrames, for every number of words and of bits; and   *)
(* about BootMemory, which adds init_bitmap to it, for every page size and *)
(* whatever a boot loader leaves.                                          *)
(***************************************************************************)
EXTENDS BootMemory, SequenceTheorems, TLAPS

-------------------------------------------------------------------------------
(* Frame numbers and (word, bit) pairs *)

LEMMA TotalIsNat == TotalFrames \in Nat /\ TotalFrames > 0
  BY SizeAssumption, SMT DEF TotalFrames

LEMMA ProductMonotone ==
  ASSUME NEW x \in Int, NEW y \in Int, NEW k \in Nat, x <= y
  PROVE  x * k <= y * k
  BY SMT

\* A frame's word and bit are in range, and name it.
LEMMA Unpack ==
  ASSUME NEW f \in Frames
  PROVE  WordOf(f) \in Words /\ BitOf(f) \in Bits /\ FrameOf(WordOf(f), BitOf(f)) = f
<1> DEFINE B == WordBits  q == f \div B  r == f % B
<1>1. B \in Nat /\ B > 0 /\ NumWords \in Nat /\ f \in Nat /\ f < NumWords * B
  BY SizeAssumption, TotalIsNat DEF Frames, TotalFrames
<1>2. q \in Int /\ r \in 0 .. B - 1 /\ f = B * q + r
  BY <1>1, SMT
<1>3. q >= 0
  <2> SUFFICES ASSUME q <= -1 PROVE FALSE
    BY <1>2
  <2>1. q * B <= (-1) * B
    BY <1>1, <1>2, ProductMonotone
  <2> QED BY <2>1, <1>1, <1>2
<1>4. q < NumWords
  <2> SUFFICES ASSUME NumWords <= q PROVE FALSE
    BY <1>1, <1>2
  <2>1. NumWords * B <= q * B
    BY <1>1, <1>2, ProductMonotone
  <2> QED BY <2>1, <1>1, <1>2
<1> QED BY <1>1, <1>2, <1>3, <1>4 DEF WordOf, BitOf, FrameOf, Words, Bits

\* Frames of a lower word are lower.
LEMMA WordOrder ==
  ASSUME NEW v \in Words, NEW w \in Words, NEW a \in Bits, NEW b \in Bits, v < w
  PROVE  FrameOf(v, a) < FrameOf(w, b)
<1>1. WordBits \in Nat /\ v \in Nat /\ w \in Nat /\ a \in 0 .. WordBits - 1 /\ b \in Nat
  BY SizeAssumption DEF Words, Bits
<1>2. (v + 1) * WordBits <= w * WordBits
  BY <1>1, ProductMonotone
<1>3. (v + 1) * WordBits = v * WordBits + WordBits
  BY <1>1
<1> QED BY <1>1, <1>2, <1>3 DEF FrameOf

\* A word and a bit make a frame, which has that word and that bit.
LEMMA Pack ==
  ASSUME NEW w \in Words, NEW b \in Bits
  PROVE  FrameOf(w, b) \in Frames /\ WordOf(FrameOf(w, b)) = w /\ BitOf(FrameOf(w, b)) = b
<1> DEFINE f == FrameOf(w, b)
<1>1. WordBits \in Nat \ {0} /\ NumWords \in Nat /\ w \in 0 .. NumWords - 1 /\ b \in 0 .. WordBits - 1
  BY SizeAssumption DEF Words, Bits
<1>2. w * WordBits \in Nat /\ (w + 1) * WordBits = w * WordBits + WordBits
  BY <1>1
<1>3. (w + 1) * WordBits <= NumWords * WordBits
  BY <1>1, ProductMonotone
<1>4. f \in Frames
  BY <1>1, <1>2, <1>3 DEF FrameOf, Frames, TotalFrames
<1>5. WordOf(f) \in Words /\ BitOf(f) \in Bits /\ FrameOf(WordOf(f), BitOf(f)) = f
  BY <1>4, Unpack
<1>6. WordOf(f) = w
  <2>1. ~(WordOf(f) < w) /\ ~(w < WordOf(f))
    BY <1>4, <1>5, WordOrder DEF Frames
  <2> QED BY <2>1, <1>5, <1>1 DEF Words
<1>7. BitOf(f) = b
  BY <1>5, <1>6, <1>1, <1>2 DEF FrameOf, Bits
<1> QED BY <1>4, <1>6, <1>7

-------------------------------------------------------------------------------
(* The set of used frames under the two updates of the bitmap *)

LEMMA SetBits ==
  ASSUME TypeOK, NEW w \in Words, NEW S \in SUBSET Bits,
         bitmap' = [bitmap EXCEPT ![w] = @ \cup S]
  PROVE  UsedFrames' = UsedFrames \cup {FrameOf(w, b) : b \in S}
<1>1. \A v \in Words : bitmap'[v] = IF v = w THEN bitmap[v] \cup S ELSE bitmap[v]
  BY DEF TypeOK
<1>2. ASSUME NEW f \in Frames
      PROVE  BitOf(f) \in bitmap'[WordOf(f)] <=>
                 BitOf(f) \in bitmap[WordOf(f)] \/ \E b \in S : f = FrameOf(w, b)
  <2>1. WordOf(f) \in Words /\ BitOf(f) \in Bits /\ FrameOf(WordOf(f), BitOf(f)) = f
    BY Unpack
  <2>2. (WordOf(f) = w /\ BitOf(f) \in S) <=> \E b \in S : f = FrameOf(w, b)
    BY <2>1, Pack
  <2> QED BY <2>1, <2>2, <1>1
<1>3. \A b \in S : FrameOf(w, b) \in Frames
  BY Pack
<1> QED BY <1>2, <1>3 DEF UsedFrames, CheckUsed

LEMMA SetBit ==
  ASSUME TypeOK, NEW w \in Words, NEW b \in Bits, bitmap' = [bitmap EXCEPT ![w] = @ \cup {b}]
  PROVE  UsedFrames' = UsedFrames \cup {FrameOf(w, b)}
<1>1. {b} \in SUBSET Bits
  OBVIOUS
<1>2. UsedFrames' = UsedFrames \cup {FrameOf(w, c) : c \in {b}}
  BY <1>1, SetBits
<1> QED BY <1>2

LEMMA ClearBit ==
  ASSUME TypeOK, NEW f \in Frames,
         bitmap' = [bitmap EXCEPT ![WordOf(f)] = ClearedWord(WordOf(f), BitOf(f))]
  PROVE  UsedFrames' = UsedFrames \ {f}
<1>1. \A v \in Words : bitmap'[v] = IF v = WordOf(f) THEN bitmap[v] \ {BitOf(f)} ELSE bitmap[v]
  BY DEF TypeOK, ClearedWord
<1>2. ASSUME NEW g \in Frames
      PROVE  BitOf(g) \in bitmap'[WordOf(g)] <=> BitOf(g) \in bitmap[WordOf(g)] /\ g # f
  <2>1. bitmap'[WordOf(g)] = IF WordOf(g) = WordOf(f) THEN bitmap[WordOf(g)] \ {BitOf(f)}
                                                      ELSE bitmap[WordOf(g)]
    BY <1>1, Unpack
  <2>2. g = f <=> (WordOf(g) = WordOf(f) /\ BitOf(g) = BitOf(f))
    BY Unpack
  <2> QED BY <2>1, <2>2
<1> QED BY <1>2 DEF UsedFrames, CheckUsed

-------------------------------------------------------------------------------
(* Type correctness *)

LEMMA RunFacts ==
  ASSUME TypeOK, mark.num > 0
  PROVE  /\ RunLength \in 1 .. mark.num /\ Run \subseteq Bits
         /\ mark.num # RunLength =>
               /\ mark.offset + 1 \in Words /\ 0 \in Bits
               /\ mark.num - RunLength \in 0 .. TotalFrames
               /\ FrameOf(mark.offset + 1, 0) = FrameOf(mark.offset, mark.bit) + RunLength
<1> DEFINE o == mark.offset  b == mark.bit  n == mark.num
<1>1. /\ o \in 0 .. NumWords - 1 /\ b \in 0 .. WordBits - 1 /\ n \in 0 .. TotalFrames
      /\ o * WordBits + b + n <= NumWords * WordBits
      /\ NumWords \in Nat /\ WordBits \in Nat /\ WordBits > 0 /\ TotalFrames \in Nat
  BY SizeAssumption, TotalIsNat DEF TypeOK, Words, Bits, FrameOf, TotalFrames
<1>2. RunLength \in 1 .. n /\ Run \subseteq Bits
  BY <1>1 DEF RunLength, Run, Bits
<1>3. CASE n # RunLength
  <2>1. RunLength = WordBits - b /\ n > WordBits - b
    BY <1>1, <1>3 DEF RunLength
  <2>2. o * WordBits \in Int /\ (o + 1) * WordBits = o * WordBits + WordBits
    BY <1>1
  <2>3. o + 1 < NumWords
    <3> SUFFICES ASSUME NumWords <= o + 1 PROVE FALSE
      BY <1>1
    <3>1. NumWords * WordBits <= (o + 1) * WordBits
      BY <1>1, ProductMonotone
    <3> QED BY <3>1, <2>1, <2>2, <1>1
  <2> QED BY <1>1, <1>2, <2>1, <2>2, <2>3 DEF Words, Bits, FrameOf
<1> QED BY <1>2, <1>3

LEMMA TypeInit == Init => TypeOK
<1>1. 0 \in Words /\ 0 \in Bits /\ 0 \in Frames /\ FrameOf(0, 0) = 0 /\ 0 <= TotalFrames
  BY TotalIsNat, SizeAssumption DEF Words, Bits, Frames, FrameOf
<1> SUFFICES ASSUME Init PROVE TypeOK
  OBVIOUS
<1>2. mark = [offset |-> 0, bit |-> 0, num |-> 0]
  BY DEF Init, Idle
<1>3. mark \in [offset : Words, bit : Bits, num : 0 .. TotalFrames]
      /\ FrameOf(mark.offset, mark.bit) + mark.num <= TotalFrames
  BY <1>1, <1>2, TotalIsNat
<1>4. bitmap \in [Words -> SUBSET Bits]
  BY DEF Init
<1> QED BY <1>1, <1>3, <1>4 DEF Init, TypeOK

LEMMA TypeStep == TypeOK /\ [Next]_vars => TypeOK'
<1> SUFFICES ASSUME TypeOK, [Next]_vars PROVE TypeOK'
  OBVIOUS
<1> USE DEF TypeOK
<1>1. CASE \E start \in Frames, num \in 1 .. TotalFrames : BeginMark(start, num)
  <2>1. PICK start \in Frames, num \in 1 .. TotalFrames : BeginMark(start, num)
    BY <1>1
  <2>2. WordOf(start) \in Words /\ BitOf(start) \in Bits /\ FrameOf(WordOf(start), BitOf(start)) = start
    BY Unpack
  <2>3. mark' \in [offset : Words, bit : Bits, num : 0 .. TotalFrames]
        /\ FrameOf(mark'.offset, mark'.bit) + mark'.num <= TotalFrames
    BY <2>1, <2>2 DEF BeginMark
  <2>4. start .. start + num - 1 \subseteq Frames
    BY <2>1, TotalIsNat DEF BeginMark, Frames
  <2>5. UNCHANGED <<bitmap, scanVars, booted, held>> /\ reserved' \subseteq Frames
    BY <2>1, <2>4 DEF BeginMark
  <2> QED BY <2>3, <2>5 DEF scanVars
<1>2. CASE MarkWord
  <2>1. Run \subseteq Bits
    BY <1>2, RunFacts DEF MarkWord
  <2>2. bitmap' \in [Words -> SUBSET Bits]
    BY <1>2, <2>1 DEF MarkWord
  <2>3. mark' \in [offset : Words, bit : Bits, num : 0 .. TotalFrames]
        /\ FrameOf(mark'.offset, mark'.bit) + mark'.num <= TotalFrames
    <3>1. CASE mark.num = RunLength
      BY <3>1, <1>2, TotalIsNat, SizeAssumption DEF MarkWord, Idle, FrameOf, Words, Bits
    <3>2. CASE mark.num # RunLength
      <4>1. mark' = [offset |-> mark.offset + 1, bit |-> 0, num |-> mark.num - RunLength]
        BY <3>2, <1>2 DEF MarkWord, NextBit
      <4>2. FrameOf(mark.offset, mark.bit) \in Frames
        BY Pack
      <4> QED BY <4>1, <4>2, <3>2, <1>2, RunFacts, TotalIsNat DEF MarkWord, Frames
    <3> QED BY <3>1, <3>2
  <2> QED BY <1>2, <2>2, <2>3 DEF MarkWord, scanVars
<1>3. CASE EndBoot
  BY <1>3 DEF EndBoot, scanVars
<1>4. CASE AllocateNextPage
  <2>1. PICK w \in Words, b \in Bits :
           /\ bitmap' = [bitmap EXCEPT ![w] = @ \cup {b}]
           /\ lastAllocated' = w /\ freed' = FALSE
           /\ page' = FrameOf(w, b) /\ held' = held \cup {FrameOf(w, b)}
    BY <1>4 DEF AllocateNextPage
  <2>2. FrameOf(w, b) \in Frames
    BY Pack
  <2> QED BY <2>1, <2>2, <1>4 DEF AllocateNextPage
<1>5. CASE AllocateFails
  BY <1>5, TotalIsNat DEF AllocateFails, Frames
<1>6. CASE \E f \in Frames : FreePhysicalPage(f)
  BY <1>6 DEF FreePhysicalPage, ClearedWord, FreedFlag
<1>7. CASE UNCHANGED vars
  BY <1>7 DEF vars, scanVars
<1> QED BY <1>1, <1>2, <1>3, <1>4, <1>5, <1>6, <1>7 DEF Next

\* Every reachable state is well typed; in particular mark_used never runs
\* past the bitmap, whatever ranges init_bitmap is given.
THEOREM TypeCorrect == Spec => []TypeOK
<1> QED BY TypeInit, TypeStep, PTL DEF Spec

-------------------------------------------------------------------------------
(* The inductive invariant *)

\* Until init_bitmap has returned nothing is allocated, and afterwards
\* mark_used is not called: the two halves of the allocator never overlap.
Phases ==
    /\ booted => mark.num = 0
    /\ ~booted => held = {}

IInv == TypeOK /\ Phases /\ MarkExact /\ FullBelowCursor /\ HeldExclusively

\* What one iteration of mark_used marks is what it takes off the remainder.
LEMMA RunSplits ==
  ASSUME TypeOK, MarkWord
  PROVE  Remaining = {FrameOf(mark.offset, b) : b \in Run} \cup Remaining'
<1> DEFINE o == mark.offset  b == mark.bit  n == mark.num  m == FrameOf(o, b)
<1>1. m \in Nat /\ n \in Nat /\ n > 0 /\ b \in Nat /\ RunLength \in 1 .. n /\ o * WordBits \in Nat
  <2>1. n \in Nat /\ n > 0 /\ RunLength \in 1 .. n
    BY RunFacts, TotalIsNat DEF TypeOK, MarkWord
  <2>2. m \in Nat /\ b \in Nat /\ o \in Nat
    BY Pack, TotalIsNat, SizeAssumption DEF TypeOK, Frames, Bits, Words
  <2> QED BY <2>1, <2>2, SizeAssumption
<1> DEFINE Rest == m + RunLength .. m + n - 1
<1>a. Remaining = (m .. m + RunLength - 1) \cup Rest
  BY <1>1 DEF Remaining
<1>2. {FrameOf(o, c) : c \in Run} = m .. m + RunLength - 1
  <2>1. \A c \in Run : FrameOf(o, c) \in m .. m + RunLength - 1
    BY <1>1 DEF Run, FrameOf
  <2>2. ASSUME NEW f \in m .. m + RunLength - 1
        PROVE  \E c \in Run : f = FrameOf(o, c)
    <3>1. f - o * WordBits \in Run /\ f = FrameOf(o, f - o * WordBits)
      BY <1>1 DEF Run, FrameOf
    <3> QED BY <3>1
  <2> QED BY <2>1, <2>2
<1>3. CASE n = RunLength
  <2>1. mark' = [offset |-> 0, bit |-> 0, num |-> 0] /\ FrameOf(0, 0) = 0
    BY <1>3, SizeAssumption DEF MarkWord, Idle, FrameOf
  <2>2. FrameOf(mark'.offset, mark'.bit) = 0 /\ mark'.num = 0
    BY <2>1
  <2>3. Remaining' = {} /\ Rest = {}
    BY <2>2, <1>1, <1>3 DEF Remaining
  <2> QED BY <1>a, <1>2, <2>3
<1>4. CASE n # RunLength
  <2>1. mark' = [offset |-> o + 1, bit |-> 0, num |-> n - RunLength]
    BY <1>4 DEF MarkWord, NextBit
  <2>2. FrameOf(mark'.offset, mark'.bit) = m + RunLength /\ mark'.num = n - RunLength
    BY <2>1, <1>1, <1>4, RunFacts
  <2>3. Remaining' = Rest
    BY <1>1, <2>2 DEF Remaining
  <2> QED BY <1>a, <1>2, <2>3
<1> QED BY <1>3, <1>4

LEMMA InitUnused == Init => UsedFrames = {}
<1> SUFFICES ASSUME Init PROVE UsedFrames = {}
  OBVIOUS
<1>1. \A f \in Frames : bitmap[WordOf(f)] = {}
  BY Unpack DEF Init
<1> QED BY <1>1 DEF UsedFrames, CheckUsed

\* Wherever the scan starts, the words before it are full, so the first word
\* it finds is the first of the whole bitmap.
LEMMA CursorFull ==
  ASSUME TypeOK, FullBelowCursor, NEW w \in Words,
         \A v \in Words : ScanFrom <= v /\ v < w => ~HasClearBit(v)
  PROVE  \A v \in Words : v < w => ~HasClearBit(v)
<1> QED BY DEF FullBelowCursor, ScanFrom, TypeOK, Words, NoWord

LEMMA InitInvariant == Init => IInv
<1> SUFFICES ASSUME Init PROVE IInv
  OBVIOUS
<1>1. TypeOK
  BY TypeInit
<1>2. mark.num = 0 /\ mark.offset = 0 /\ mark.bit = 0 /\ FrameOf(0, 0) = 0
  BY SizeAssumption DEF Init, Idle, FrameOf
<1>3. UsedFrames = {} /\ Remaining = {}
  <2>1. FrameOf(mark.offset, mark.bit) = 0
    BY <1>2
  <2> QED BY <2>1, <1>2, InitUnused DEF Remaining
<1> QED BY <1>1, <1>2, <1>3 DEF Init, IInv, Phases, MarkExact, FullBelowCursor, HeldExclusively

LEMMA StepInvariant == IInv /\ [Next]_vars => IInv'
<1> SUFFICES ASSUME IInv, [Next]_vars PROVE IInv'
  OBVIOUS
<1> TypeOK /\ TypeOK'
  BY TypeStep DEF IInv
<1>0. ASSUME UsedFrames' = UsedFrames, bitmap' = bitmap, UNCHANGED <<scanVars, booted, held>>,
             Phases', MarkExact', booted => reserved' = reserved
      PROVE  IInv'
  BY <1>0 DEF IInv, FullBelowCursor, HeldExclusively, HasClearBit, scanVars
<1>1. CASE \E start \in Frames, num \in 1 .. TotalFrames : BeginMark(start, num)
  <2>1. PICK start \in Frames, num \in 1 .. TotalFrames : BeginMark(start, num)
    BY <1>1
  <2>2. UsedFrames' = UsedFrames /\ Remaining = {}
    <3>1. FrameOf(mark.offset, mark.bit) \in Int
      BY Pack DEF TypeOK, Frames
    <3> QED BY <2>1, <3>1 DEF BeginMark, UsedFrames, CheckUsed, Remaining
  <2>3. Remaining' = start .. start + num - 1
    <3>1. mark'.num = num /\ FrameOf(mark'.offset, mark'.bit) = start
      BY <2>1, Unpack DEF BeginMark
    <3> QED BY <3>1 DEF Remaining
  <2> QED BY <1>0, <2>1, <2>2, <2>3 DEF BeginMark, IInv, MarkExact, Phases
<1>2. CASE MarkWord
  <2>1. UsedFrames' = UsedFrames \cup {FrameOf(mark.offset, b) : b \in Run}
    BY <1>2, SetBits, RunFacts DEF MarkWord, TypeOK
  <2>2. MarkExact'
    BY <1>2, <2>1, RunSplits DEF IInv, MarkExact, MarkWord
  <2>3. ~booted /\ Phases'
    BY <1>2 DEF MarkWord, IInv, Phases, TypeOK
  <2>4. FullBelowCursor'
    BY <1>2, RunFacts DEF IInv, FullBelowCursor, MarkWord, HasClearBit, scanVars, TypeOK
  <2> QED BY <1>2, <2>2, <2>3, <2>4 DEF IInv, HeldExclusively, MarkWord
<1>3. CASE EndBoot
  <2>1. UsedFrames = reserved /\ held = {}
    <3>1. FrameOf(mark.offset, mark.bit) \in Int
      BY Pack DEF TypeOK, Frames
    <3>2. Remaining = {}
      BY <1>3, <3>1 DEF EndBoot, Remaining
    <3> QED BY <1>3, <3>2 DEF EndBoot, IInv, MarkExact, Phases
  <2>2. UsedFrames' = UsedFrames
    BY <1>3 DEF EndBoot, UsedFrames, CheckUsed
  <2> QED BY <1>3, <2>1, <2>2
          DEF EndBoot, IInv, Phases, MarkExact, FullBelowCursor, HeldExclusively, HasClearBit, scanVars
<1>4. CASE AllocateNextPage
  <2>1. PICK w \in Words, b \in Bits :
           /\ FirstClear(w, b)
           /\ bitmap' = [bitmap EXCEPT ![w] = @ \cup {b}]
           /\ lastAllocated' = w /\ freed' = FALSE
           /\ page' = FrameOf(w, b) /\ held' = held \cup {FrameOf(w, b)}
    BY <1>4 DEF AllocateNextPage
  <2>2. UsedFrames' = UsedFrames \cup {FrameOf(w, b)}
    BY <2>1, SetBit
  <2>3. FrameOf(w, b) \in Frames \ UsedFrames
    BY <2>1, Pack DEF FirstClear, UsedFrames, CheckUsed
  <2>4. HeldExclusively'
    BY <1>4, <2>1, <2>2, <2>3 DEF AllocateNextPage, IInv, HeldExclusively
  <2>5. FullBelowCursor'
    <3>1. \A v \in Words : v < w => ~HasClearBit(v)
      BY <2>1, CursorFull DEF FirstClear, IInv
    <3>2. \A v \in Words : v < w => bitmap'[v] = bitmap[v]
      BY <2>1 DEF TypeOK, Words
    <3> QED BY <2>1, <3>1, <3>2 DEF FullBelowCursor, HasClearBit
  <2> QED BY <1>4, <2>4, <2>5 DEF AllocateNextPage, IInv, Phases, MarkExact
<1>5. CASE AllocateFails
  <2>1. UsedFrames' = UsedFrames
    BY <1>5 DEF AllocateFails, UsedFrames, CheckUsed
  <2>2. HeldExclusively'
    BY <1>5, <2>1 DEF AllocateFails, IInv, HeldExclusively
  <2>3. FullBelowCursor'
    BY <1>5 DEF AllocateFails, IInv, FullBelowCursor, HasClearBit
  <2>4. Phases' /\ MarkExact'
    BY <1>5 DEF AllocateFails, IInv, Phases, MarkExact
  <2> QED BY <2>2, <2>3, <2>4 DEF IInv
<1>6. CASE \E f \in Frames : FreePhysicalPage(f)
  <2>1. PICK f \in Frames : FreePhysicalPage(f)
    BY <1>6
  <2>2. UsedFrames' = UsedFrames \ {f}
    BY <2>1, ClearBit DEF FreePhysicalPage
  <2>3. HeldExclusively'
    BY <2>1, <2>2 DEF FreePhysicalPage, IInv, HeldExclusively
  <2>4. Phases' /\ MarkExact' /\ FullBelowCursor'
    BY <2>1 DEF FreePhysicalPage, FreedFlag, IInv, Phases, MarkExact, FullBelowCursor
  <2> QED BY <2>3, <2>4 DEF IInv
<1>7. CASE UNCHANGED vars
  <2>1. UsedFrames' = UsedFrames /\ Remaining' = Remaining
    BY <1>7 DEF vars, scanVars, UsedFrames, CheckUsed, Remaining
  <2>2. Phases' /\ MarkExact'
    BY <1>7, <2>1 DEF vars, IInv, Phases, MarkExact
  <2> QED BY <1>0, <1>7, <2>1, <2>2 DEF vars, scanVars
<1> QED BY <1>1, <1>2, <1>3, <1>4, <1>5, <1>6, <1>7 DEF Next

LEMMA Inductive == Spec => []IInv
<1> QED BY InitInvariant, StepInvariant, PTL DEF Spec

\* mark_used reserves exactly the ranges it is asked for, for every bitmap
\* size and every series of ranges.
THEOREM MarksExactly == Spec => []MarkExact
<1>1. IInv => MarkExact
  BY DEF IInv
<1> QED BY <1>1, Inductive, PTL

\* The scan of allocate_next_page may start at last_allocated: no free frame
\* lies before it unless something was freed.
THEOREM NothingFreeBelowCursor == Spec => []FullBelowCursor
<1>1. IInv => FullBelowCursor
  BY DEF IInv
<1> QED BY <1>1, Inductive, PTL

\* No frame has two holders, and no boot reservation is ever handed out.
THEOREM HoldersExclusive == Spec => []HeldExclusively
<1>1. IInv => HeldExclusively
  BY DEF IInv
<1> QED BY <1>1, Inductive, PTL

-------------------------------------------------------------------------------
(* page.c implements first fit *)

LEMMA StepRefines == IInv /\ [Next]_vars => [FF!Next]_(FF!vars)
<1> SUFFICES ASSUME IInv, [Next]_vars PROVE [FF!Next]_(FF!vars)
  OBVIOUS
<1> TypeOK /\ TypeOK'
  BY TypeStep DEF IInv
<1> Frames = FF!Frames
  BY DEF Frames, FF!Frames
<1> USE DEF FF!Next, FF!vars
<1>1. CASE \E start \in Frames, num \in 1 .. TotalFrames : BeginMark(start, num)
  BY <1>1 DEF BeginMark, UsedFrames, CheckUsed, scanVars
<1>2. CASE MarkWord
  <2>1. UsedFrames' = UsedFrames \cup {FrameOf(mark.offset, b) : b \in Run}
    BY <1>2, SetBits, RunFacts DEF MarkWord, TypeOK
  <2>2. UsedFrames' \subseteq Frames
    BY DEF UsedFrames
  <2>3. FF!Reserve
    BY <1>2, <2>1, <2>2 DEF FF!Reserve, MarkWord, scanVars, IInv, Phases, TypeOK
  <2> QED BY <2>3
<1>3. CASE EndBoot
  <2>1. FF!Boot
    BY <1>3 DEF FF!Boot, EndBoot, UsedFrames, CheckUsed, scanVars
  <2> QED BY <2>1
<1>4. CASE AllocateNextPage
  <2>1. PICK w \in Words, b \in Bits :
           /\ FirstClear(w, b)
           /\ bitmap' = [bitmap EXCEPT ![w] = @ \cup {b}]
           /\ page' = FrameOf(w, b)
    BY <1>4 DEF AllocateNextPage
  <2>2. UsedFrames' = UsedFrames \cup {FrameOf(w, b)}
    BY <2>1, SetBit
  <2>3. FrameOf(w, b) \in Frames \ UsedFrames
    BY <2>1, Pack DEF FirstClear, UsedFrames, CheckUsed
  <2>4. ASSUME NEW g \in Frames \ UsedFrames
        PROVE  FrameOf(w, b) <= g
    <3>1. WordOf(g) \in Words /\ BitOf(g) \in Bits /\ FrameOf(WordOf(g), BitOf(g)) = g
          /\ BitOf(g) \notin bitmap[WordOf(g)]
      BY Unpack DEF UsedFrames, CheckUsed
    <3>2. \A v \in Words : v < w => ~HasClearBit(v)
      BY <2>1, CursorFull DEF FirstClear, IInv
    <3>3. ~(WordOf(g) < w)
      BY <3>1, <3>2 DEF HasClearBit
    <3>4. CASE w < WordOf(g)
      BY <3>1, <3>4, WordOrder, <2>3 DEF Frames
    <3>5. CASE w = WordOf(g)
      <4>1. ~(BitOf(g) < b)
        BY <2>1, <3>1, <3>5 DEF FirstClear
      <4> QED BY <4>1, <3>1, <3>5, <2>3, SizeAssumption DEF FrameOf, Bits, Words
    <3> QED BY <3>1, <3>3, <3>4, <3>5 DEF Words
  <2>5. FF!Grant
    BY <1>4, <2>1, <2>2, <2>3, <2>4 DEF FF!Grant, AllocateNextPage
  <2> QED BY <2>5
<1>5. CASE AllocateFails
  <2>1. \A w \in Words : ~HasClearBit(w)
    BY <1>5 DEF AllocateFails, IInv, FullBelowCursor, ScanFrom, TypeOK, Words, NoWord
  <2>2. Frames \subseteq UsedFrames
    BY <2>1, Unpack DEF UsedFrames, CheckUsed, HasClearBit
  <2>3. FF!Refuse
    BY <1>5, <2>2 DEF FF!Refuse, AllocateFails, UsedFrames, CheckUsed
  <2> QED BY <2>3
<1>6. CASE \E f \in Frames : FreePhysicalPage(f)
  <2>1. PICK f \in Frames : FreePhysicalPage(f)
    BY <1>6
  <2>2. UsedFrames' = UsedFrames \ {f}
    BY <2>1, ClearBit DEF FreePhysicalPage
  <2>3. FF!Release
    BY <2>1, <2>2 DEF FF!Release, FreePhysicalPage
  <2> QED BY <2>3
<1>7. CASE UNCHANGED vars
  BY <1>7 DEF vars, scanVars, UsedFrames, CheckUsed
<1> QED BY <1>1, <1>2, <1>3, <1>4, <1>5, <1>6, <1>7 DEF Next

\* The bitmap, its cursor and its freed flag implement the abstract first-fit
\* allocator: every step is a step of FirstFit or leaves its state alone.
THEOREM ImplementsFirstFit == Spec => FirstFitSpec
<1>1. Init => FF!Init
  BY InitUnused DEF Init, FF!Init
<1> QED BY <1>1, StepRefines, Inductive, PTL DEF Spec, FirstFitSpec, FF!Spec
-------------------------------------------------------------------------------
(* BootMemory: addresses and the frames of a range *)

LEMMA QuotientIs ==
  ASSUME NEW x \in Int, NEW p \in Nat \ {0}, NEW q \in Int, NEW r \in 0 .. p - 1, x = q * p + r
  PROVE  x \div p = q /\ x % p = r
<1> DEFINE d == x \div p  m == x % p
<1>1. d \in Int /\ m \in 0 .. p - 1 /\ x = p * d + m
  BY SMT
<1> HIDE DEF d, m
<1>2. d * p \in Int /\ q * p \in Int /\ d * p + m = q * p + r
  BY <1>1
<1>3. ~(d < q)
  <2> SUFFICES ASSUME d + 1 <= q PROVE FALSE
    BY <1>1
  <2>1. (d + 1) * p <= q * p
    BY <1>1, ProductMonotone
  <2>2. (d + 1) * p = d * p + p
    BY <1>1
  <2> QED BY <2>1, <2>2, <1>1, <1>2
<1>4. ~(q < d)
  <2> SUFFICES ASSUME q + 1 <= d PROVE FALSE
    BY <1>1
  <2>1. (q + 1) * p <= d * p
    BY <1>1, ProductMonotone
  <2>2. (q + 1) * p = q * p + p
    OBVIOUS
  <2> QED BY <2>1, <2>2, <1>1, <1>2
<1>5. d = q /\ m = r
  BY <1>1, <1>2, <1>3, <1>4
<1> QED BY <1>5 DEF d, m

LEMMA Quotient ==
  ASSUME NEW x \in Int, NEW p \in Nat \ {0}
  PROVE  x \div p \in Int /\ x % p \in 0 .. p - 1 /\ x = (x \div p) * p + (x % p)
<1> DEFINE d == x \div p  m == x % p
<1>1. d \in Int /\ m \in 0 .. p - 1 /\ x = p * d + m
  BY SMT
<1> HIDE DEF d, m
<1>2. d \in Int /\ m \in 0 .. p - 1 /\ x = d * p + m
  BY <1>1
<1> QED BY <1>2 DEF d, m

LEMMA Sizes ==
  /\ PageSize \in Nat \ {0} /\ PageSize > 3 /\ TotalFrames \in Nat \ {0}
  /\ AddressSpace \in Nat \ {0} /\ AddressSpace = TotalFrames * PageSize
  /\ TotalFrames < AddressSpace /\ (TotalFrames - 1) * PageSize = AddressSpace - PageSize
<1>1. PageSize \in Nat \ {0} /\ PageSize > 3 /\ TotalFrames \in Nat \ {0}
  BY BootAssumption, TotalIsNat
<1>2. (PageSize - 1) * TotalFrames >= 1 * TotalFrames
  BY <1>1, ProductMonotone
<1>3. TotalFrames * PageSize = (PageSize - 1) * TotalFrames + TotalFrames
  BY <1>1
<1>4. (TotalFrames - 1) * PageSize = TotalFrames * PageSize - PageSize
  BY <1>1
<1>5. TotalFrames * PageSize \in Int /\ (PageSize - 1) * TotalFrames \in Int
  BY <1>1
<1> QED BY <1>1, <1>2, <1>3, <1>4, <1>5 DEF AddressSpace

\* An address is its low word; the address after the last has low word 0.
LEMMA LowIs ==
  /\ \A x \in 0 .. AddressSpace - 1 : Low(x) = x
  /\ Low(AddressSpace) = 0
<1>1. ASSUME NEW x \in 0 .. AddressSpace - 1 PROVE Low(x) = x
  <2>1. x = 0 * AddressSpace + x
    BY Sizes
  <2> QED BY <2>1, Sizes, QuotientIs DEF Low
<1>2. Low(AddressSpace) = 0
  <2>1. AddressSpace = 1 * AddressSpace + 0 /\ 0 \in 0 .. AddressSpace - 1
    BY Sizes
  <2> QED BY <2>1, Sizes, QuotientIs DEF Low
<1> QED BY <1>1, <1>2

LEMMA LowTyped == \A x \in Int : Low(x) \in 0 .. AddressSpace - 1
<1> SUFFICES ASSUME NEW x \in Int PROVE Low(x) \in 0 .. AddressSpace - 1
  OBVIOUS
<1> QED BY Sizes, Quotient DEF Low

LEMMA NumPagesTyped ==
  ASSUME NEW s \in Int, NEW e \in Int PROVE NumPages(s, e) \in 0 .. AddressSpace - 1
<1> DEFINE a == s \div PageSize  d == e \div PageSize
<1>1. a \in Int /\ d \in Int
  BY Sizes, Quotient
<1>2. NumPages(s, e) = Low(d - a + IF e % PageSize # 0 THEN 1 ELSE 0)
  BY DEF NumPages
<1> HIDE DEF a, d
<1> QED BY <1>1, <1>2, LowTyped

\* The frames of a range are NUM_PAGES many, from the frame of its first byte on.
LEMMA Ranged ==
  ASSUME NEW s \in Nat, NEW e \in Nat, s <= e, e <= AddressSpace
  PROVE  /\ s \div PageSize \in Nat /\ NumPages(s, e) \in 0 .. TotalFrames
         /\ s \div PageSize + NumPages(s, e) <= TotalFrames
         /\ s \div PageSize .. s \div PageSize + NumPages(s, e) - 1 = FramesOf(s, e)
<1> DEFINE P == PageSize  a == s \div P  d == e \div P  r == e % P
           c == d + (IF r # 0 THEN 1 ELSE 0)
<1>1. P \in Nat \ {0} /\ TotalFrames \in Nat
  BY Sizes
<1>2. a \in Int /\ d \in Int /\ r \in 0 .. P - 1 /\ e = d * P + r
      /\ a * P <= s /\ s < a * P + P /\ a * P \in Int /\ d * P \in Int
  <2>1. a \in Int /\ s % P \in 0 .. P - 1 /\ s = a * P + (s % P)
    BY <1>1, Quotient
  <2>2. d \in Int /\ r \in 0 .. P - 1 /\ e = d * P + r
    BY <1>1, Quotient
  <2>3. a * P \in Int /\ d * P \in Int
    BY <1>1, <2>1, <2>2
  <2> QED BY <1>1, <2>1, <2>2, <2>3
<1> HIDE DEF a, d, r
<1>3. \A f \in Int : f * P < e <=> f < c
  <2> SUFFICES ASSUME NEW f \in Int PROVE f * P < e <=> f < c
    OBVIOUS
  <2>0. f * P \in Int /\ (d + 1) * P = d * P + P /\ (d - 1) * P = d * P - P
    BY <1>1, <1>2
  <2>1. ASSUME f < c PROVE f * P < e
    <3>1. CASE r # 0
      <4>1. f * P <= d * P
        BY <1>1, <1>2, <2>1, <3>1, ProductMonotone
      <4> QED BY <4>1, <3>1, <1>1, <1>2, <2>0
    <3>2. CASE r = 0
      <4>1. f <= d - 1 BY <1>2, <2>1, <3>2
      <4>2. f * P <= (d - 1) * P
        BY <1>1, <1>2, <4>1, ProductMonotone
      <4> QED BY <4>2, <3>2, <1>1, <1>2, <2>0
    <3> QED BY <3>1, <3>2
  <2>2. ASSUME c <= f PROVE ~(f * P < e)
    <3>1. CASE r # 0
      <4>1. (d + 1) * P <= f * P
        BY <1>1, <1>2, <2>2, <3>1, ProductMonotone
      <4> QED BY <4>1, <1>1, <1>2, <2>0
    <3>2. CASE r = 0
      <4>1. d * P <= f * P
        BY <1>1, <1>2, <2>2, <3>2, ProductMonotone
      <4> QED BY <4>1, <3>2, <1>1, <1>2, <2>0
    <3> QED BY <3>1, <3>2
  <2> QED BY <2>1, <2>2, <1>2
<1>4. \A f \in Int : s < (f + 1) * P <=> a <= f
  <2> SUFFICES ASSUME NEW f \in Int PROVE s < (f + 1) * P <=> a <= f
    OBVIOUS
  <2>0. f * P \in Int /\ (f + 1) * P = f * P + P
    BY <1>1
  <2>1. ASSUME a <= f PROVE s < (f + 1) * P
    <3>1. a * P <= f * P
      BY <1>1, <1>2, <2>1, ProductMonotone
    <3> QED BY <3>1, <2>0, <1>1, <1>2
  <2>2. ASSUME f < a PROVE ~(s < (f + 1) * P)
    <3>1. (f + 1) * P <= a * P
      BY <1>1, <1>2, <2>2, ProductMonotone
    <3> QED BY <3>1, <2>0, <1>1, <1>2
  <2> QED BY <2>1, <2>2, <1>2
<1>5. a >= 0 /\ a <= c /\ c <= TotalFrames
  <2>1. s < (a + 1) * P
    BY <1>2, <1>4
  <2>2. a >= 0
    <3> SUFFICES ASSUME a + 1 <= 0 PROVE FALSE
      BY <1>2
    <3>1. (a + 1) * P <= 0 * P
      BY <1>1, <1>2, ProductMonotone
    <3> QED BY <3>1, <2>1, <1>1, <1>2
  <2>3. a <= c
    <3> SUFFICES ASSUME c < a PROVE FALSE
      BY <1>2
    <3>1. c \in Int /\ c + 1 <= a
      BY <1>2
    <3>2. (c + 1) * P <= a * P /\ c * P \in Int /\ (c + 1) * P = c * P + P
      BY <1>1, <1>2, <3>1, ProductMonotone
    <3>3. ~(c * P < e)
      BY <1>2, <1>3
    <3> QED BY <3>2, <3>3, <1>1, <1>2
  <2>4. c <= TotalFrames
    <3>1. ~(TotalFrames * P < e)
      BY Sizes
    <3> QED BY <3>1, <1>1, <1>2, <1>3
  <2> QED BY <2>2, <2>3, <2>4
<1>6. NumPages(s, e) = c - a
  <2>1. c - a \in 0 .. AddressSpace - 1 /\ c - a = d - a + (IF r # 0 THEN 1 ELSE 0)
    BY <1>2, <1>5, Sizes
  <2>2. NumPages(s, e) = Low(d - a + (IF r # 0 THEN 1 ELSE 0))
    BY DEF NumPages, a, d, r
  <2> QED BY <2>1, <2>2, LowIs
<1>7. a .. c - 1 = FramesOf(s, e)
  BY <1>2, <1>3, <1>4, <1>5, <1>1 DEF FramesOf, Frames
<1>8. a + (c - a) = c /\ c - a \in 0 .. TotalFrames
  BY <1>1, <1>2, <1>5
<1>9. a \in Nat /\ NumPages(s, e) \in 0 .. TotalFrames /\ a + NumPages(s, e) <= TotalFrames
      /\ a .. a + NumPages(s, e) - 1 = FramesOf(s, e)
  BY <1>1, <1>2, <1>5, <1>6, <1>7, <1>8
<1> QED BY <1>9 DEF a

\* The same range at its virtual address has as many pages, and its first is
\* KERNEL_VIRTUAL_BASE further on.
LEMMA Shifted ==
  ASSUME NEW x \in Nat
  PROVE  (x + VirtualBase) \div PageSize = x \div PageSize + VirtualBase \div PageSize
         /\ (x + VirtualBase) % PageSize = x % PageSize
<1> DEFINE v == VirtualBase \div PageSize  q == x \div PageSize  r == x % PageSize
<1>1. PageSize \in Nat \ {0} /\ VirtualBase \in Nat
  BY BootAssumption
<1>2. v \in Int /\ VirtualBase = v * PageSize + (VirtualBase % PageSize)
  BY <1>1, Quotient
<1>3. VirtualBase = v * PageSize
  <2>1. VirtualBase % PageSize = 0
    BY BootAssumption
  <2>2. v * PageSize \in Int
    BY <1>1, <1>2
  <2> QED BY <1>2, <2>1, <2>2
<1>4. q \in Int /\ r \in 0 .. PageSize - 1 /\ x = q * PageSize + r
  BY <1>1, Quotient
<1> HIDE DEF v, q, r
<1>5. (q + v) * PageSize = q * PageSize + v * PageSize
  BY <1>1, <1>2, <1>4
<1>6. x + VirtualBase = (q + v) * PageSize + r
  BY <1>1, <1>2, <1>3, <1>4, <1>5
<1>7. (x + VirtualBase) \div PageSize = q + v /\ (x + VirtualBase) % PageSize = r
  <2>1. x + VirtualBase \in Int /\ q + v \in Int
    BY <1>1, <1>2, <1>4
  <2> QED BY ONLY <1>1, <1>4, <1>6, <2>1, QuotientIs, Zenon
<1> QED BY <1>7 DEF v, q, r

LEMMA NumPagesShifted ==
  ASSUME NEW x \in Nat, NEW y \in Nat
  PROVE  NumPages(x + VirtualBase, y + VirtualBase) = NumPages(x, y)
<1> DEFINE a == x \div PageSize  b == y \div PageSize  v == VirtualBase \div PageSize
<1>1. a \in Int /\ b \in Int /\ v \in Int
  <2>1. PageSize \in Nat \ {0} /\ VirtualBase \in Int
    BY BootAssumption
  <2> QED BY <2>1, Quotient
<1>2. (x + VirtualBase) \div PageSize = a + v /\ (y + VirtualBase) \div PageSize = b + v
      /\ (y + VirtualBase) % PageSize = y % PageSize
  BY Shifted
<1> HIDE DEF a, b, v
<1>3. (b + v) - (a + v) = b - a
  BY <1>1
<1>4. NumPages(x, y) = Low(b - a + IF y % PageSize # 0 THEN 1 ELSE 0)
  BY DEF NumPages, a, b
<1>5. NumPages(x + VirtualBase, y + VirtualBase) =
        Low((b + v) - (a + v) + IF y % PageSize # 0 THEN 1 ELSE 0)
  BY <1>2 DEF NumPages
<1> QED BY <1>3, <1>4, <1>5

-------------------------------------------------------------------------------
(* BootMemory: the calls of mark_used *)

Turns == IF loader.hasMap THEN Len(loader.entries) ELSE 0

LEMMA LoaderFacts ==
  ASSUME loader \in Loaders
  PROVE  /\ loader.kernelEnd \in Nat /\ KernelStart \in Nat \ {0} /\ KernelStart <= loader.kernelEnd
         /\ KernelStart % PageSize = 0 /\ VirtualBase \in Nat /\ InfoSize \in Nat \ {0}
         /\ loader.kernelEnd + VirtualBase + PageSize <= AddressSpace
         /\ loader.info \in Nat /\ loader.info < AddressSpace
         /\ Len(loader.modules) \in Nat /\ DOMAIN loader.modules = 1 .. Len(loader.modules)
         /\ \A i \in 1 .. Len(loader.modules) :
                /\ loader.modules[i].start \in Nat /\ loader.modules[i].end \in Nat
                /\ loader.modules[i].start <= loader.modules[i].end
                /\ loader.modules[i].end < AddressSpace
         /\ loader.hasMap \in BOOLEAN
         /\ Len(loader.entries) \in Nat /\ DOMAIN loader.entries = 1 .. Len(loader.entries)
         /\ \A i \in 1 .. Len(loader.entries) :
                loader.entries[i].addr \in Nat /\ loader.entries[i].len \in Nat
<1>1. /\ KernelStart \in Nat \ {0} /\ KernelStart % PageSize = 0
      /\ VirtualBase \in Nat /\ InfoSize \in Nat \ {0}
  BY BootAssumption
<1> DEFINE M == [start : 0 .. AddressSpace - 1, end : 0 .. AddressSpace - 1]
           E == [addr : WideNumbers, len : WideNumbers, type : Nat]
           ms == loader.modules  es == loader.entries
<1>2. ms \in Seq(M) /\ es \in Seq(E)
  BY LoaderAssumption
<1>3. /\ loader.kernelEnd \in Nat /\ KernelStart <= loader.kernelEnd
      /\ loader.kernelEnd + VirtualBase + PageSize <= AddressSpace
      /\ loader.info \in 0 .. AddressSpace - 1 /\ loader.hasMap \in BOOLEAN
      /\ \A i \in DOMAIN ms : ms[i].start <= ms[i].end
  BY LoaderAssumption
<1>4. Len(ms) \in Nat /\ DOMAIN ms = 1 .. Len(ms) /\ \A i \in 1 .. Len(ms) : ms[i] \in M
  BY <1>2, LenProperties, ElementOfSeq
<1>5. Len(es) \in Nat /\ DOMAIN es = 1 .. Len(es) /\ \A i \in 1 .. Len(es) : es[i] \in E
  BY <1>2, LenProperties, ElementOfSeq
<1>6. ASSUME NEW i \in 1 .. Len(ms)
      PROVE  ms[i].start \in Nat /\ ms[i].end \in Nat /\ ms[i].start <= ms[i].end
             /\ ms[i].end < AddressSpace
  <2>1. ms[i] \in M /\ ms[i].start <= ms[i].end
    BY <1>3, <1>4
  <2> HIDE DEF ms
  <2> QED BY <2>1, Sizes
<1>7. ASSUME NEW i \in 1 .. Len(es)
      PROVE  es[i].addr \in Nat /\ es[i].len \in Nat
  <2>1. es[i] \in E
    BY <1>5
  <2> HIDE DEF es
  <2>2. AddressSpace * AddressSpace \in Int
    BY Sizes
  <2>3. WideNumbers \subseteq Nat
    BY <2>2 DEF WideNumbers
  <2> QED BY <2>1, <2>3
<1> QED BY <1>1, <1>3, <1>4, <1>5, <1>6, <1>7, Sizes

LEMMA FunctionSeq ==
  ASSUME NEW n \in Nat, NEW S, NEW f \in [1 .. n -> S]
  PROVE  f \in Seq(S) /\ Len(f) = n
<1>1. f \in Seq(S)
  BY SeqDef
<1>2. Len(f) \in Nat /\ 1 .. Len(f) = 1 .. n
  BY <1>1, LenProperties
<1> QED BY <1>1, <1>2

\* u is s and then t.
Joins(u, s, t) ==
    /\ Len(u) = Len(s) + Len(t)
    /\ \A i \in 1 .. Len(s) : u[i] = s[i]
    /\ \A i \in 1 .. Len(t) : u[Len(s) + i] = t[i]

LEMMA Joined ==
  ASSUME NEW S, NEW s \in Seq(S), NEW t \in Seq(S)
  PROVE  s \o t \in Seq(S) /\ Joins(s \o t, s, t)
<1>1. s \o t \in Seq(S) /\ Len(s \o t) = Len(s) + Len(t)
  BY ConcatProperties
<1>2. \A i \in 1 .. Len(s) + Len(t) : (s \o t)[i] = IF i <= Len(s) THEN s[i] ELSE t[i - Len(s)]
  BY ConcatProperties
<1>3. ASSUME NEW i \in 1 .. Len(s) PROVE (s \o t)[i] = s[i]
  BY <1>2
<1>4. ASSUME NEW i \in 1 .. Len(t) PROVE (s \o t)[Len(s) + i] = t[i]
  <2>1. Len(s) + i \in 1 .. Len(s) + Len(t) /\ ~(Len(s) + i <= Len(s)) /\ Len(s) + i - Len(s) = i
    OBVIOUS
  <2> QED BY <1>2, <2>1
<1> QED BY <1>1, <1>3, <1>4 DEF Joins

LowCall == Call(0, KernelStart \div PageSize, InfoFrames)
KernelCall == Call(KernelStart, NumPages(KernelStart, loader.kernelEnd), InfoFrames)
InfoCall ==
    Call(InfoVirtual - VirtualBase, NumPages(InfoVirtual, Low(InfoVirtual + InfoSize)), InfoFrames)

\* What is where in Calls.
LEMMA CallsAre ==
  ASSUME loader \in Loaders
  PROVE  /\ Turns \in Nat /\ Len(Calls) = 3 + Len(loader.modules) + Turns
         /\ Calls[1] = LowCall /\ Calls[2] = KernelCall /\ Calls[3] = InfoCall
         /\ \A i \in 1 .. Len(loader.modules) : Calls[3 + i] = ModuleCall(loader.modules[i])
         /\ \A i \in 1 .. Turns : Calls[3 + Len(loader.modules) + i] = MapCall(i)
<1> DEFINE n == Len(loader.modules)
           ms == [i \in DOMAIN loader.modules |-> ModuleCall(loader.modules[i])]
           S == {LowCall, KernelCall, InfoCall} \cup {ModuleCall(loader.modules[i]) : i \in 1 .. n}
                \cup {MapCall(i) : i \in 1 .. Turns}
           three == LowFirst \o <<InfoCall>>
           more == three \o ms
<1>1. n \in Nat /\ DOMAIN loader.modules = 1 .. n /\ Turns \in Nat
  BY LoaderFacts DEF Turns
<1>2. LowFirst = <<LowCall, KernelCall>> /\ MapCalls = [i \in 1 .. Turns |-> MapCall(i)]
  BY DEF LowFirst, LowCall, KernelCall, MapCalls, Turns
<1>3. ms \in Seq(S) /\ Len(ms) = n /\ \A i \in 1 .. n : ms[i] = ModuleCall(loader.modules[i])
  <2>1. ms \in [1 .. n -> S] /\ \A i \in 1 .. n : ms[i] = ModuleCall(loader.modules[i])
    BY <1>1
  <2> HIDE DEF ms, S
  <2> QED BY <1>1, <2>1, FunctionSeq
<1>4. MapCalls \in Seq(S) /\ Len(MapCalls) = Turns /\ \A i \in 1 .. Turns : MapCalls[i] = MapCall(i)
  <2>1. MapCalls \in [1 .. Turns -> S] /\ \A i \in 1 .. Turns : MapCalls[i] = MapCall(i)
    BY <1>2
  <2> HIDE DEF S
  <2> QED BY <1>1, <2>1, FunctionSeq
<1>5. Calls = more \o MapCalls
  BY DEF Calls, InfoCall
<1>6. LowCall \in S /\ KernelCall \in S /\ InfoCall \in S
  OBVIOUS
<1> HIDE DEF S, ms
<1>7. LowFirst \in Seq(S) /\ Len(LowFirst) = 2 /\ LowFirst[1] = LowCall /\ LowFirst[2] = KernelCall
      /\ <<InfoCall>> \in Seq(S) /\ Len(<<InfoCall>>) = 1 /\ <<InfoCall>>[1] = InfoCall
  BY <1>2, <1>6
<1>8. three \in Seq(S) /\ Joins(three, LowFirst, <<InfoCall>>)
  BY ONLY <1>7, Joined, Zenon
<1>9. Len(three) = 3 /\ three[1] = LowCall /\ three[2] = KernelCall /\ three[3] = InfoCall
  <2> HIDE DEF three
  <2> QED BY <1>7, <1>8 DEF Joins
<1> HIDE DEF three
<1>10. more \in Seq(S) /\ Joins(more, three, ms)
  BY ONLY <1>3, <1>8, Joined, Zenon
<1>11. Len(more) = 3 + n /\ more[1] = LowCall /\ more[2] = KernelCall /\ more[3] = InfoCall
       /\ \A i \in 1 .. n : more[3 + i] = ModuleCall(loader.modules[i])
  <2> HIDE DEF more
  <2> QED BY <1>3, <1>9, <1>10 DEF Joins
<1> HIDE DEF more
<1>12. Joins(Calls, more, MapCalls)
  BY ONLY <1>4, <1>5, <1>10, Joined, Zenon
<1> HIDE DEF n
<1>13. Len(Calls) = 3 + n + Turns /\ Calls[1] = LowCall /\ Calls[2] = KernelCall /\ Calls[3] = InfoCall
  BY <1>1, <1>4, <1>11, <1>12 DEF Joins
<1>14. \A i \in 1 .. n : Calls[3 + i] = ModuleCall(loader.modules[i])
  BY <1>1, <1>4, <1>11, <1>12 DEF Joins
<1>15. \A i \in 1 .. Turns : Calls[3 + n + i] = MapCall(i)
  BY <1>1, <1>4, <1>11, <1>12 DEF Joins
<1> QED BY <1>1, <1>13, <1>14, <1>15 DEF n

\* The frames the k-th call reserves.
Asked(k) == Calls[k].frame .. Calls[k].frame + Calls[k].num - 1

\* A call of mark_used for frames that the bitmap has.
Fitting(c) == c.frame \in Nat /\ c.num \in 0 .. TotalFrames /\ c.frame + c.num <= TotalFrames

\* The structure of the boot loader that the kernel has mapped is below its end.
LEMMA InfoFits ==
  ASSUME loader \in Loaders, InfoFrames \subseteq Mapped
  PROVE  loader.info + InfoSize + VirtualBase < AddressSpace
<1> DEFINE P == PageSize  x == loader.info + InfoSize  g == (x - 1) \div P
<1>1. P \in Nat \ {0} /\ P > 3 /\ TotalFrames \in Nat \ {0} /\ AddressSpace \in Nat
      /\ AddressSpace = TotalFrames * P /\ (TotalFrames - 1) * P = AddressSpace - P
  BY Sizes
<1>2. /\ loader.info \in Nat /\ InfoSize \in Nat \ {0} /\ VirtualBase \in Nat /\ loader.kernelEnd \in Nat
      /\ loader.info < AddressSpace /\ loader.kernelEnd + VirtualBase + P <= AddressSpace
  BY LoaderFacts
<1>3. x \in Nat /\ x - 1 \in Nat /\ loader.info <= x - 1
  BY <1>2
<1>4. g \in Int /\ (x - 1) % P \in 0 .. P - 1 /\ x - 1 = g * P + ((x - 1) % P)
  <2> HIDE DEF x
  <2>1. x - 1 \in Int
    BY <1>3
  <2> QED BY <1>1, <2>1, Quotient
<1>5. InfoFrames = {f \in Frames : f * P < x /\ loader.info < (f + 1) * P}
  BY DEF InfoFrames, FramesOf
<1>6. \A f \in Frames : f * P < x /\ loader.info < (f + 1) * P => f * P + 3 < loader.kernelEnd
  BY <1>5 DEF Mapped
<1> HIDE DEF g, x
<1>7. g * P \in Int /\ (g + 1) * P = g * P + P /\ g * P < x /\ x <= g * P + P
  BY <1>1, <1>3, <1>4
<1>8. g >= 0
  <2> SUFFICES ASSUME g + 1 <= 0 PROVE FALSE
    BY <1>4
  <2>1. (g + 1) * P <= 0 * P
    BY <1>1, <1>4, ProductMonotone
  <2>2. 0 * P = 0
    BY <1>1
  <2>3. g * P + P <= 0
    BY <2>1, <2>2, <1>7
  <2> QED BY <2>3, <1>1, <1>3, <1>7
<1>9. CASE g < TotalFrames
  <2>1. g \in Frames
    BY <1>1, <1>4, <1>8, <1>9 DEF Frames
  <2>0. g * P < x /\ loader.info < (g + 1) * P
    BY <1>1, <1>2, <1>3, <1>7
  <2>2. g * P + 3 < loader.kernelEnd
    BY ONLY <2>0, <2>1, <1>6, Zenon
  <2>3. x + VirtualBase < AddressSpace
    BY <2>2, <1>1, <1>2, <1>3, <1>7
  <2> QED BY <2>3 DEF x
<1>10. CASE TotalFrames <= g
  <2> DEFINE l == TotalFrames - 1
  <2>1. l \in Frames
    BY <1>1 DEF Frames
  <2>2. TotalFrames * P <= g * P
    BY <1>1, <1>4, <1>10, ProductMonotone
  <2>3. l * P = AddressSpace - P /\ (l + 1) * P = AddressSpace
    BY <1>1
  <2>4. l * P < x /\ loader.info < (l + 1) * P
    BY <2>2, <2>3, <1>1, <1>2, <1>3, <1>7
  <2>5. l * P + 3 < loader.kernelEnd
    BY <2>1, <2>4, <1>6
  <2> QED BY <2>3, <2>5, <1>1, <1>2
<1> QED BY <1>1, <1>4, <1>9, <1>10

LEMMA LowAsked ==
  ASSUME loader \in Loaders
  PROVE  Fitting(LowCall) /\ LowCall.frame = 0 /\ LowCall.num > 0
         /\ 0 .. LowCall.num - 1 = FramesOf(0, KernelStart)
<1> DEFINE q == KernelStart \div PageSize
<1>1. KernelStart \in Nat \ {0} /\ KernelStart % PageSize = 0 /\ KernelStart <= AddressSpace
      /\ PageSize \in Nat \ {0}
  BY LoaderFacts, Sizes
<1>2. 0 \div PageSize = 0 /\ 0 % PageSize = 0
  <2>1. 0 = 0 * PageSize + 0 /\ 0 \in 0 .. PageSize - 1
    BY <1>1
  <2> QED BY <2>1, <1>1, QuotientIs
<1>3. q \in Int /\ KernelStart = q * PageSize + (KernelStart % PageSize)
  BY <1>1, Quotient
<1>4. NumPages(0, KernelStart) \in 0 .. TotalFrames
      /\ 0 \div PageSize + NumPages(0, KernelStart) <= TotalFrames
      /\ 0 \div PageSize .. 0 \div PageSize + NumPages(0, KernelStart) - 1 = FramesOf(0, KernelStart)
      /\ KernelStart \div PageSize \in Nat
  BY <1>1, Ranged
<1> HIDE DEF q
<1>5. q > 0
  <2> SUFFICES ASSUME q <= 0 PROVE FALSE
    BY <1>3
  <2>1. q * PageSize <= 0 * PageSize
    BY <1>1, <1>3, ProductMonotone
  <2> QED BY <2>1, <1>1, <1>3
<1>6. q < AddressSpace
  <2>1. q <= TotalFrames
    <3> SUFFICES ASSUME TotalFrames + 1 <= q PROVE FALSE
      BY <1>3, Sizes
    <3>1. (TotalFrames + 1) * PageSize <= q * PageSize
      BY <1>1, <1>3, Sizes, ProductMonotone
    <3>2. (TotalFrames + 1) * PageSize = TotalFrames * PageSize + PageSize
      BY Sizes
    <3> QED BY <3>1, <3>2, <1>1, <1>3, Sizes
  <2> QED BY <2>1, <1>3, Sizes
<1>7. NumPages(0, KernelStart) = Low(q - 0 + 0)
  BY <1>1, <1>2 DEF NumPages, q
<1>8. q - 0 + 0 = q /\ q \in 0 .. AddressSpace - 1
  BY <1>3, <1>5, <1>6, Sizes
<1>9. NumPages(0, KernelStart) = q
  BY <1>7, <1>8, LowIs
<1>10. LowCall.frame = 0 /\ LowCall.num = q
  BY <1>2 DEF LowCall, Call, q
<1> QED BY <1>2, <1>4, <1>5, <1>9, <1>10, <1>3, Sizes DEF Fitting

LEMMA KernelAsked ==
  ASSUME loader \in Loaders
  PROVE  Fitting(KernelCall) /\ KernelCall.frame .. KernelCall.frame + KernelCall.num - 1
                                  = FramesOf(KernelStart, loader.kernelEnd)
<1>1. KernelStart \in Nat /\ loader.kernelEnd \in Nat /\ KernelStart <= loader.kernelEnd
      /\ loader.kernelEnd <= AddressSpace
  BY LoaderFacts, Sizes
<1> QED BY <1>1, Ranged DEF Fitting, KernelCall, Call

LEMMA InfoAsked ==
  ASSUME loader \in Loaders, InfoFrames \subseteq Mapped
  PROVE  Fitting(InfoCall) /\ InfoCall.frame .. InfoCall.frame + InfoCall.num - 1 = InfoFrames
<1> DEFINE i == loader.info  e == loader.info + InfoSize
<1>1. /\ i \in Nat /\ e \in Nat /\ i <= e /\ e <= AddressSpace /\ VirtualBase \in Nat
      /\ i + VirtualBase \in 0 .. AddressSpace - 1 /\ e + VirtualBase \in 0 .. AddressSpace - 1
  <2>1. loader.info \in Nat /\ InfoSize \in Nat \ {0} /\ VirtualBase \in Nat
    BY LoaderFacts
  <2>2. loader.info + InfoSize + VirtualBase < AddressSpace /\ AddressSpace \in Nat
    BY InfoFits, Sizes
  <2> QED BY <2>1, <2>2
<1>2. InfoVirtual = i + VirtualBase
  BY <1>1, LowIs DEF InfoVirtual, ToVirtual
<1>3. Low(InfoVirtual + InfoSize) = e + VirtualBase
  <2>1. i + VirtualBase + InfoSize = e + VirtualBase
    BY LoaderFacts
  <2> QED BY <2>1, <1>1, <1>2, LowIs
<1>4. InfoVirtual - VirtualBase = i
  BY <1>1, <1>2
<1> HIDE DEF i, e
<1>5. InfoCall = Call(i, NumPages(i, e), InfoFrames)
  BY <1>1, <1>2, <1>3, <1>4, NumPagesShifted DEF InfoCall
<1>6. InfoCall.frame = i \div PageSize /\ InfoCall.num = NumPages(i, e)
  BY <1>5 DEF Call
<1>7. InfoFrames = FramesOf(i, e)
  BY DEF InfoFrames, i, e
<1> QED BY <1>1, <1>6, <1>7, Ranged DEF Fitting

LEMMA ModuleAsked ==
  ASSUME loader \in Loaders, NEW i \in 1 .. Len(loader.modules)
  PROVE  /\ Fitting(ModuleCall(loader.modules[i]))
         /\ ModuleCall(loader.modules[i]).frame
                .. ModuleCall(loader.modules[i]).frame + ModuleCall(loader.modules[i]).num - 1
            = FramesOf(loader.modules[i].start, loader.modules[i].end)
<1> DEFINE m == loader.modules[i]
<1>1. m.start \in Nat /\ m.end \in Nat /\ m.start <= m.end /\ m.end <= AddressSpace
  BY LoaderFacts, Sizes
<1> HIDE DEF m
<1>2. ModuleCall(m).frame = m.start \div PageSize /\ ModuleCall(m).num = NumPages(m.start, m.end)
  BY DEF ModuleCall, Call
<1>3. Fitting(ModuleCall(m)) /\ ModuleCall(m).frame .. ModuleCall(m).frame + ModuleCall(m).num - 1
                                    = FramesOf(m.start, m.end)
  BY <1>1, <1>2, Ranged DEF Fitting
<1> QED BY <1>3 DEF m

\* The words of the i-th entry are the i-th six of the map.
LEMMA MapWordAt ==
  ASSUME loader \in Loaders, NEW i \in 1 .. Len(loader.entries), NEW j \in 1 .. 6
  PROVE  MapWords[6 * i - 6 + j] = EntryWords(loader.entries[i])[j]
<1> DEFINE n == Len(loader.entries)  k == 6 * i - 6 + j
<1>1. n \in Nat
  BY LoaderFacts
<1> HIDE DEF n
<1>2. k \in 1 .. 6 * n /\ k - 1 = (i - 1) * 6 + (j - 1) /\ j - 1 \in 0 .. 5 /\ i - 1 \in Int
  BY <1>1 DEF n
<1> HIDE DEF k
<1>3. (k - 1) \div 6 = i - 1 /\ (k - 1) % 6 = j - 1
  <2>1. k - 1 \in Int /\ 6 \in Nat \ {0} /\ j - 1 \in 0 .. 6 - 1
    BY <1>2
  <2> QED BY ONLY <1>2, <2>1, QuotientIs, Zenon
<1>4. 1 + (k - 1) \div 6 = i /\ 1 + ((k - 1) % 6) = j
  BY <1>3
<1>5. MapWords[k] = EntryWords(loader.entries[1 + (k - 1) \div 6])[1 + ((k - 1) % 6)]
  BY <1>2 DEF MapWords, n
<1> QED BY <1>4, <1>5 DEF k

\* What the loop reads of an entry.
LEMMA MapRead ==
  ASSUME loader \in Loaders, NEW i \in 1 .. Len(loader.entries)
  PROVE  /\ MapStart(i) = Low(loader.entries[i].addr) /\ MapLength(i) = Low(loader.entries[i].len)
         /\ MapType(i) = loader.entries[i].type
<1> DEFINE e == loader.entries[i]
<1>1. 6 * i - 6 + 2 = 6 * i - 4 /\ 6 * i - 6 + 4 = 6 * i - 2 /\ 6 * i - 6 + 6 = 6 * i
  BY LoaderFacts
<1>2. \A j \in 1 .. 6 : MapWords[6 * i - 6 + j] = EntryWords(e)[j]
  BY ONLY MapWordAt, loader \in Loaders, i \in 1 .. Len(loader.entries), Zenon DEF e
<1> HIDE DEF e
<1>3. 2 \in 1 .. 6 /\ 4 \in 1 .. 6 /\ 6 \in 1 .. 6
  OBVIOUS
<1>4. MapWords[6 * i - 6 + 2] = EntryWords(e)[2] /\ MapWords[6 * i - 6 + 4] = EntryWords(e)[4]
      /\ MapWords[6 * i - 6 + 6] = EntryWords(e)[6]
  BY ONLY <1>2, <1>3, Zenon
<1>5. /\ MapStart(i) = EntryWords(e)[2] /\ MapLength(i) = EntryWords(e)[4]
      /\ MapType(i) = EntryWords(e)[6]
  BY <1>1, <1>4 DEF MapStart, MapLength, MapType
<1>6. MapStart(i) = Low(e.addr) /\ MapLength(i) = Low(e.len) /\ MapType(i) = e.type
  BY <1>5 DEF EntryWords
<1> QED BY <1>6 DEF e

\* The low words are addresses, whatever the entry holds.
LEMMA MapWordsTyped ==
  ASSUME loader \in Loaders, NEW i \in 1 .. Len(loader.entries)
  PROVE  MapStart(i) \in 0 .. AddressSpace - 1 /\ MapLength(i) \in 0 .. AddressSpace - 1
<1>1. loader.entries[i].addr \in Int /\ loader.entries[i].len \in Int
  BY LoaderFacts
<1>2. Low(loader.entries[i].addr) \in 0 .. AddressSpace - 1
      /\ Low(loader.entries[i].len) \in 0 .. AddressSpace - 1
  BY ONLY <1>1, LowTyped, Zenon
<1> QED BY ONLY <1>2, MapRead, loader \in Loaders, i \in 1 .. Len(loader.entries), Zenon

\* From the low words of an entry in reach: its range, but for the last byte of
\* the address space, which shares its frame with others.
LEMMA MapRange ==
  ASSUME loader \in Loaders, NEW i \in 1 .. Len(loader.entries), InReach(loader.entries[i])
  PROVE  LET e == loader.entries[i]
         IN  /\ MapStart(i) = e.addr /\ MapType(i) = e.type
             /\ e.addr <= End(e.addr, MapLength(i))
             /\ End(e.addr, MapLength(i)) \in 0 .. AddressSpace - 1
             /\ FramesOf(e.addr, End(e.addr, MapLength(i))) = FramesOf(e.addr, e.addr + e.len)
<1> DEFINE e == loader.entries[i]  A == AddressSpace
<1>1. /\ e.addr \in Nat /\ e.addr < A /\ e.len \in Nat \ {0} /\ e.addr + e.len <= A
      /\ A \in Nat \ {0} /\ e.addr \in 0 .. A - 1
  <2>1. e.addr \in Nat /\ e.len \in Nat
    BY LoaderFacts
  <2>2. e.len > 0 /\ e.addr + e.len <= A
    BY DEF InReach
  <2>3. A \in Nat \ {0}
    BY Sizes
  <2> HIDE DEF e, A
  <2> QED BY ONLY <2>1, <2>2, <2>3
<1>3. MapStart(i) = Low(e.addr) /\ MapLength(i) = Low(e.len) /\ MapType(i) = e.type
  BY MapRead
<1> HIDE DEF e
<1>4. MapStart(i) = e.addr
  BY <1>1, <1>3, LowIs
<1>5. End(e.addr, MapLength(i)) = IF e.addr + e.len = A THEN A - 1 ELSE e.addr + e.len
  <2>1. CASE e.len = A
    <3>1. Low(e.len) = 0 /\ e.addr + 0 = 0 /\ 0 \in 0 .. A - 1 /\ e.addr + e.len = A
      BY <1>1, <2>1, LowIs
    <3>2. Low(e.addr + 0) = 0
      BY <3>1, LowIs
    <3> QED BY <1>3, <3>1, <3>2 DEF End
  <2>2. CASE e.len < A
    <3>1. Low(e.len) = e.len
      BY <1>1, <2>2, LowIs
    <3>2. CASE e.addr + e.len = A
      BY <1>3, <3>1, <3>2, LowIs DEF End
    <3>3. CASE e.addr + e.len < A
      <4>1. Low(e.addr + e.len) = e.addr + e.len /\ e.addr + e.len # 0 /\ e.addr + e.len # A
        BY <1>1, <3>3, LowIs
      <4> QED BY <1>3, <3>1, <4>1 DEF End
    <3> QED BY <1>1, <3>2, <3>3
  <2> QED BY <1>1, <2>1, <2>2
<1>6. FramesOf(e.addr, A - 1) = FramesOf(e.addr, A)
  <2> SUFFICES ASSUME NEW f \in Frames PROVE f * PageSize < A - 1 <=> f * PageSize < A
    BY DEF FramesOf
  <2>1. f * PageSize <= (TotalFrames - 1) * PageSize
    BY Sizes, ProductMonotone DEF Frames
  <2>2. f * PageSize \in Int /\ f * PageSize <= A - PageSize
    BY <2>1, Sizes DEF Frames
  <2> QED BY <2>2, Sizes
<1>7. FramesOf(e.addr, End(e.addr, MapLength(i))) = FramesOf(e.addr, e.addr + e.len)
  BY <1>5, <1>6
<1>8. e.addr <= End(e.addr, MapLength(i)) /\ End(e.addr, MapLength(i)) \in 0 .. A - 1
  BY <1>1, <1>5
<1> QED BY <1>3, <1>4, <1>7, <1>8 DEF e

\* The range of a turn, for an entry that is available or in reach.
LEMMA MapAsked ==
  ASSUME loader \in Loaders, NEW i \in 1 .. Len(loader.entries),
         loader.entries[i].type = 1 \/ InReach(loader.entries[i])
  PROVE  /\ Fitting(MapCall(i))
         /\ MapCall(i).frame .. MapCall(i).frame + MapCall(i).num - 1
            = IF loader.entries[i].type # 1
              THEN FramesOf(loader.entries[i].addr, loader.entries[i].addr + loader.entries[i].len)
              ELSE {}
<1> DEFINE a == MapStart(i)  b == End(a, MapLength(i))
<1>1. MapType(i) = loader.entries[i].type
  BY MapRead
<1>2. MapCall(i).frame = a \div PageSize
      /\ MapCall(i).num = IF loader.entries[i].type # 1 THEN NumPages(a, b) ELSE 0
  BY <1>1 DEF MapCall, Call, ReservedType
<1>3. CASE loader.entries[i].type # 1
  <2>1. /\ a = loader.entries[i].addr /\ a \in Nat /\ b \in Nat /\ a <= b /\ b <= AddressSpace
        /\ FramesOf(a, b) = FramesOf(a, a + loader.entries[i].len)
    <3> DEFINE e == loader.entries[i]
    <3>1. e.addr \in Nat /\ AddressSpace \in Nat
      BY LoaderFacts, Sizes
    <3>2. InReach(e)
      BY <1>3
    <3>3. /\ a = e.addr /\ e.addr <= End(e.addr, MapLength(i))
          /\ End(e.addr, MapLength(i)) \in 0 .. AddressSpace - 1
          /\ FramesOf(e.addr, End(e.addr, MapLength(i))) = FramesOf(e.addr, e.addr + e.len)
      BY <3>2, MapRange
    <3> HIDE DEF e
    <3>4. a = e.addr /\ e.addr <= b /\ b \in 0 .. AddressSpace - 1
          /\ FramesOf(a, b) = FramesOf(a, e.addr + e.len)
      BY <3>3
    <3>5. a = e.addr /\ a \in Nat /\ b \in Nat /\ a <= b /\ b <= AddressSpace
          /\ FramesOf(a, b) = FramesOf(a, a + e.len)
      <4> HIDE DEF a, b
      <4> QED BY <3>1, <3>4
    <3> QED BY <3>5 DEF e
  <2> HIDE DEF a, b
  <2>2. a \div PageSize \in Nat /\ NumPages(a, b) \in 0 .. TotalFrames
        /\ a \div PageSize + NumPages(a, b) <= TotalFrames
        /\ a \div PageSize .. a \div PageSize + NumPages(a, b) - 1 = FramesOf(a, b)
    BY <2>1, Ranged
  <2> QED BY <1>2, <1>3, <2>1, <2>2 DEF Fitting
<1>4. CASE loader.entries[i].type = 1
  <2>1. a \in 0 .. AddressSpace - 1
    BY MapWordsTyped
  <2> HIDE DEF a, b
  <2>2. a \div PageSize \in Nat /\ NumPages(a, a) \in 0 .. TotalFrames
        /\ a \div PageSize + NumPages(a, a) <= TotalFrames
    BY <2>1, Sizes, Ranged
  <2>3. a \div PageSize <= TotalFrames /\ TotalFrames \in Nat
    BY <2>2, Sizes
  <2>4. a \div PageSize .. a \div PageSize + 0 - 1 = {} /\ 0 \in 0 .. TotalFrames
    BY <2>2, <2>3
  <2> QED BY <1>2, <1>4, <2>2, <2>3, <2>4 DEF Fitting
<1> QED BY <1>3, <1>4

\* The range of any turn starts at an address and has a number of pages.
LEMMA MapTyped ==
  ASSUME loader \in Loaders, NEW i \in 1 .. Len(loader.entries)
  PROVE  MapCall(i).frame \in Nat /\ MapCall(i).num \in Nat
<1> DEFINE a == MapStart(i)  b == End(a, MapLength(i))
<1>1. MapCall(i).frame = a \div PageSize
      /\ MapCall(i).num = IF ReservedType(i) THEN NumPages(a, b) ELSE 0
  BY DEF MapCall, Call
<1>2. a \in 0 .. AddressSpace - 1 /\ MapLength(i) \in 0 .. AddressSpace - 1
  BY MapWordsTyped
<1>3. b \in Int
  <2>1. a + MapLength(i) \in Int
    BY <1>2, Sizes
  <2>2. Low(a + MapLength(i)) \in 0 .. AddressSpace - 1
    BY <2>1, LowTyped
  <2> QED BY <2>2, Sizes DEF End
<1> HIDE DEF a, b
<1>4. a \div PageSize \in Nat
  <2>1. a \in Nat /\ a <= a /\ a <= AddressSpace
    BY <1>2, Sizes
  <2> QED BY ONLY <2>1, Ranged, Zenon
<1>5. NumPages(a, b) \in Nat
  <2>0. a \in Int
    BY <1>2, Sizes
  <2>1. NumPages(a, b) \in 0 .. AddressSpace - 1
    BY ONLY <2>0, <1>3, NumPagesTyped, Zenon
  <2> QED BY <2>1, Sizes
<1> QED BY <1>1, <1>4, <1>5

\* With no reserved region out of reach, every turn's is available or in reach.
LEMMA TurnsInReach ==
  ASSUME loader \in Loaders, MapInReach, NEW i \in 1 .. Turns
  PROVE  loader.entries[i].type = 1 \/ InReach(loader.entries[i])
<1>1. loader.hasMap /\ i \in DOMAIN loader.entries
  BY LoaderFacts DEF Turns
<1>2. loader.entries[i] \in ToSet(loader.entries)
  BY <1>1 DEF ToSet
<1> QED BY <1>1, <1>2 DEF MapInReach, ReservedRegions

\* The k-th call is one of five kinds.
LEMMA CallKinds ==
  ASSUME loader \in Loaders, NEW k \in 1 .. Len(Calls)
  PROVE  \/ k = 1 /\ Calls[k] = LowCall
         \/ k = 2 /\ Calls[k] = KernelCall
         \/ k = 3 /\ Calls[k] = InfoCall
         \/ \E i \in 1 .. Len(loader.modules) : k = 3 + i /\ Calls[k] = ModuleCall(loader.modules[i])
         \/ \E i \in 1 .. Turns : k = 3 + Len(loader.modules) + i /\ Calls[k] = MapCall(i)
<1> DEFINE n == Len(loader.modules)
<1>1. n \in Nat /\ Turns \in Nat /\ k \in 1 .. 3 + n + Turns
  BY CallsAre, LoaderFacts
<1>2. CASE k \in 1 .. 3
  BY <1>2, CallsAre
<1>3. CASE k \in 4 .. 3 + n
  <2>1. k - 3 \in 1 .. n /\ k = 3 + (k - 3)
    BY <1>1, <1>3
  <2> HIDE DEF n
  <2>2. Calls[3 + (k - 3)] = ModuleCall(loader.modules[k - 3])
    BY <2>1, CallsAre DEF n
  <2> QED BY <2>1, <2>2 DEF n
<1>4. CASE k \in 4 + n .. 3 + n + Turns
  <2>1. k - 3 - n \in 1 .. Turns /\ k = 3 + n + (k - 3 - n)
    BY <1>1, <1>4
  <2> HIDE DEF n
  <2>2. Calls[3 + n + (k - 3 - n)] = MapCall(k - 3 - n)
    BY <2>1, CallsAre DEF n
  <2> QED BY <2>1, <2>2 DEF n
<1> QED BY <1>1, <1>2, <1>3, <1>4

\* Every call reads the boot loader's structure, and reserves frames the bitmap has,
\* if no reserved region is out of reach.
LEMMA CallFits ==
  ASSUME loader \in Loaders, NEW k \in 1 .. Len(Calls)
  PROVE  /\ InfoFrames \subseteq Calls[k].reads
         /\ InfoFrames \subseteq Mapped => Calls[k].frame \in Nat /\ Calls[k].num \in Nat
         /\ InfoFrames \subseteq Mapped /\ MapInReach => Fitting(Calls[k])
<1>1. Turns \in 0 .. Len(loader.entries)
  BY LoaderFacts DEF Turns
<1>2. InfoFrames \subseteq Calls[k].reads
  <2>1. \A a, b, R : Call(a, b, R).reads = R
    BY DEF Call
  <2>2. LowCall.reads = InfoFrames /\ KernelCall.reads = InfoFrames /\ InfoCall.reads = InfoFrames
    BY <2>1 DEF LowCall, KernelCall, InfoCall
  <2>3. \A m : ModuleCall(m).reads = InfoFrames \cup ListFrames
    BY <2>1 DEF ModuleCall
  <2>4. \A i : MapCall(i).reads = InfoFrames \cup MapFrames
    BY <2>1 DEF MapCall
  <2>5. \/ Calls[k] = LowCall \/ Calls[k] = KernelCall \/ Calls[k] = InfoCall
        \/ \E m : Calls[k] = ModuleCall(m)
        \/ \E i : Calls[k] = MapCall(i)
    BY ONLY CallKinds, loader \in Loaders, k \in 1 .. Len(Calls), Zenon
  <2> QED BY ONLY <2>2, <2>3, <2>4, <2>5
<1>3. ASSUME InfoFrames \subseteq Mapped
      PROVE  /\ Fitting(LowCall) /\ Fitting(KernelCall) /\ Fitting(InfoCall)
             /\ \A i \in 1 .. Len(loader.modules) : Fitting(ModuleCall(loader.modules[i]))
  BY <1>3, LowAsked, KernelAsked, InfoAsked, ModuleAsked
<1>4. ASSUME InfoFrames \subseteq Mapped, MapInReach PROVE Fitting(Calls[k])
  <2>1. \A i \in 1 .. Turns : Fitting(MapCall(i))
    BY <1>1, <1>4, LoaderFacts, TurnsInReach, MapAsked
  <2> QED BY ONLY CallKinds, <1>3, <1>4, <2>1, loader \in Loaders, k \in 1 .. Len(Calls), Zenon
<1>5. ASSUME InfoFrames \subseteq Mapped PROVE Calls[k].frame \in Nat /\ Calls[k].num \in Nat
  <2> DEFINE IsCall(c) == c.frame \in Nat /\ c.num \in Nat
  <2>1. \A c : Fitting(c) => IsCall(c)
    BY Sizes DEF Fitting
  <2>2. \A i \in 1 .. Turns : IsCall(MapCall(i))
    BY <1>1, LoaderFacts, MapTyped
  <2> HIDE DEF IsCall
  <2>3. IsCall(Calls[k])
    BY ONLY CallKinds, <1>3, <1>5, <2>1, <2>2, loader \in Loaders, k \in 1 .. Len(Calls), Zenon
  <2> QED BY <2>3 DEF IsCall
<1> QED BY <1>2, <1>4, <1>5

\* All calls together reserve what is taken and in reach, and nothing else if no
\* region is out of reach.
LEMMA AllAsked ==
  ASSUME loader \in Loaders, InfoFrames \subseteq Mapped
  PROVE  \A f : /\ f \in TakenInReach => \E k \in 1 .. Len(Calls) : f \in Asked(k)
                /\ MapInReach /\ (\E k \in 1 .. Len(Calls) : f \in Asked(k)) => f \in TakenInReach
<1> DEFINE n == Len(loader.modules)
           ms == loader.modules
           es == loader.entries
           regions == {d \in ReservedRegions : InReach(d)}
<1>0. n \in Nat /\ Turns \in 0 .. Len(es) /\ Len(es) \in Nat /\ Len(Calls) = 3 + n + Turns
      /\ DOMAIN ms = 1 .. n /\ DOMAIN es = 1 .. Len(es)
  <2>1. n \in Nat /\ Len(es) \in Nat /\ DOMAIN ms = 1 .. n /\ DOMAIN es = 1 .. Len(es)
    BY LoaderFacts
  <2>2. Len(Calls) = 3 + n + Turns
    BY CallsAre
  <2> QED BY <2>1, <2>2 DEF Turns
<1>1. Asked(1) = FramesOf(0, KernelStart)
  <2>1. 0 + LowCall.num - 1 = LowCall.num - 1
    BY LowAsked DEF Fitting
  <2> QED BY <2>1, CallsAre, LowAsked DEF Asked
<1>2. Asked(2) = FramesOf(KernelStart, loader.kernelEnd)
  BY CallsAre, KernelAsked DEF Asked
<1>3. Asked(3) = InfoFrames
  BY CallsAre, InfoAsked DEF Asked
<1>4. \A i \in 1 .. n : Asked(3 + i) = FramesOf(ms[i].start, ms[i].end)
  BY CallsAre, ModuleAsked DEF Asked
<1>5. \A i \in 1 .. Turns :
          es[i].type = 1 \/ InReach(es[i]) =>
          Asked(3 + n + i) = IF es[i].type # 1 THEN FramesOf(es[i].addr, es[i].addr + es[i].len) ELSE {}
  <2> SUFFICES ASSUME NEW i \in 1 .. Turns, es[i].type = 1 \/ InReach(es[i])
               PROVE Asked(3 + n + i)
                       = IF es[i].type # 1 THEN FramesOf(es[i].addr, es[i].addr + es[i].len) ELSE {}
    OBVIOUS
  <2>1. i \in 1 .. Len(es)
    BY <1>0
  <2>2. Calls[3 + n + i] = MapCall(i)
    BY CallsAre
  <2> QED BY <2>1, <2>2, MapAsked DEF Asked
<1>6. FramesOf(0, loader.kernelEnd) = Asked(1) \cup Asked(2)
  <2> SUFFICES ASSUME NEW f \in Frames
               PROVE  f * PageSize < loader.kernelEnd /\ 0 < (f + 1) * PageSize
                      <=> \/ f * PageSize < KernelStart /\ 0 < (f + 1) * PageSize
                          \/ f * PageSize < loader.kernelEnd /\ KernelStart < (f + 1) * PageSize
    BY <1>1, <1>2 DEF FramesOf
  <2>1. f * PageSize \in Int /\ (f + 1) * PageSize = f * PageSize + PageSize
        /\ PageSize \in Nat \ {0}
    BY Sizes DEF Frames
  <2> QED BY <2>1, LoaderFacts
<1>7. \A f : f \in UNION {FramesOf(m.start, m.end) : m \in ToSet(ms)}
             <=> \E i \in 1 .. n : f \in Asked(3 + i)
  BY <1>0, <1>4 DEF ToSet
<1>8. \A f : /\ f \in UNION {FramesOf(e.addr, e.addr + e.len) : e \in regions}
                  => \E i \in 1 .. Turns : f \in Asked(3 + n + i)
             /\ MapInReach /\ (\E i \in 1 .. Turns : f \in Asked(3 + n + i))
                  => f \in UNION {FramesOf(e.addr, e.addr + e.len) : e \in regions}
  <2>1. ASSUME NEW f, NEW e \in regions, f \in FramesOf(e.addr, e.addr + e.len)
        PROVE  \E i \in 1 .. Turns : f \in Asked(3 + n + i)
    <3>1. loader.hasMap /\ e \in ToSet(es) /\ e.type # 1 /\ InReach(e)
      BY <2>1 DEF ReservedRegions
    <3>2. PICK i \in 1 .. Len(es) : es[i] = e
      BY <3>1, <1>0 DEF ToSet
    <3>3. i \in 1 .. Turns
      BY <3>1 DEF Turns
    <3>4. Asked(3 + n + i) = FramesOf(e.addr, e.addr + e.len)
      BY <1>5, <3>1, <3>2, <3>3
    <3> QED BY <2>1, <3>3, <3>4
  <2>2. ASSUME NEW f, MapInReach, NEW i \in 1 .. Turns, f \in Asked(3 + n + i)
        PROVE  f \in UNION {FramesOf(e.addr, e.addr + e.len) : e \in regions}
    <3>1. loader.hasMap /\ i \in 1 .. Len(es)
      BY <1>0 DEF Turns
    <3>2. es[i].type = 1 \/ InReach(es[i])
      BY <2>2, TurnsInReach
    <3>3. es[i].type # 1 /\ f \in FramesOf(es[i].addr, es[i].addr + es[i].len)
      BY <1>5, <2>2, <3>2
    <3>4. es[i] \in regions
      BY <1>0, <3>1, <3>2, <3>3 DEF ReservedRegions, ToSet
    <3> QED BY <3>3, <3>4
  <2> QED BY <2>1, <2>2
<1> DEFINE M == UNION {FramesOf(m.start, m.end) : m \in ToSet(ms)}
           E == UNION {FramesOf(e.addr, e.addr + e.len) : e \in regions}
<1>9. \A f : f \in TakenInReach <=> \/ f \in Asked(1) \/ f \in Asked(2) \/ f \in Asked(3)
                                    \/ \E i \in 1 .. n : f \in Asked(3 + i)
                                    \/ f \in E
  <2>1. TakenInReach = FramesOf(0, loader.kernelEnd) \cup InfoFrames \cup M \cup E
    BY DEF TakenInReach
  <2>2. \A f : f \in M <=> \E i \in 1 .. n : f \in Asked(3 + i)
    BY <1>7
  <2> HIDE DEF M, E
  <2>3. \A f : f \in TakenInReach <=> f \in Asked(1) \/ f \in Asked(2) \/ f \in Asked(3) \/ f \in M \/ f \in E
    BY <2>1, <1>3, <1>6
  <2> QED BY ONLY <2>2, <2>3, Zenon
<1> HIDE DEF M
<1>10. ASSUME NEW f
       PROVE  (\E k \in 1 .. 3 + n + Turns : f \in Asked(k))
              <=> \/ f \in Asked(1) \/ f \in Asked(2) \/ f \in Asked(3)
                  \/ \E i \in 1 .. n : f \in Asked(3 + i)
                  \/ \E i \in 1 .. Turns : f \in Asked(3 + n + i)
  <2>1. ASSUME NEW k \in 1 .. 3 + n + Turns, f \in Asked(k), k > 3 + n
        PROVE  \E i \in 1 .. Turns : f \in Asked(3 + n + i)
    <3>1. k - 3 - n \in 1 .. Turns /\ 3 + n + (k - 3 - n) = k
      BY <1>0, <2>1
    <3> QED BY <2>1, <3>1
  <2>2. ASSUME NEW k \in 1 .. 3 + n + Turns, f \in Asked(k), k > 3, k <= 3 + n
        PROVE  \E i \in 1 .. n : f \in Asked(3 + i)
    <3>1. k - 3 \in 1 .. n /\ 3 + (k - 3) = k
      BY <1>0, <2>2
    <3> QED BY <2>2, <3>1
  <2>3. ASSUME NEW k \in 1 .. 3 + n + Turns, f \in Asked(k), k <= 3
        PROVE  f \in Asked(1) \/ f \in Asked(2) \/ f \in Asked(3)
    <3>1. k = 1 \/ k = 2 \/ k = 3
      BY <1>0, <2>3
    <3> QED BY <2>3, <3>1
  <2>4. {1, 2, 3} \subseteq 1 .. 3 + n + Turns /\ (\A i \in 1 .. n : 3 + i \in 1 .. 3 + n + Turns)
        /\ (\A i \in 1 .. Turns : 3 + n + i \in 1 .. 3 + n + Turns)
    BY <1>0
  <2>5. \A k \in 1 .. 3 + n + Turns : k <= 3 \/ (k > 3 /\ k <= 3 + n) \/ k > 3 + n
    BY <1>0
  <2> QED BY <2>1, <2>2, <2>3, <2>4, <2>5
<1>11. Len(Calls) = 3 + n + Turns
  BY <1>0
<1>12. \A f : /\ f \in E => \E i \in 1 .. Turns : f \in Asked(3 + n + i)
              /\ MapInReach /\ (\E i \in 1 .. Turns : f \in Asked(3 + n + i)) => f \in E
  BY <1>8
<1> HIDE DEF E
<1>13. ASSUME NEW f, f \in TakenInReach PROVE \E k \in 1 .. Len(Calls) : f \in Asked(k)
  <2>1. \E k \in 1 .. 3 + n + Turns : f \in Asked(k)
    BY ONLY <1>9, <1>10, <1>12, <1>13, Zenon
  <2> QED BY <2>1, <1>11
<1>14. ASSUME NEW f, MapInReach, NEW k \in 1 .. Len(Calls), f \in Asked(k) PROVE f \in TakenInReach
  <2>1. k \in 1 .. 3 + n + Turns
    BY <1>11
  <2> QED BY ONLY <2>1, <1>9, <1>10, <1>12, <1>14, Zenon
<1> QED BY ONLY <1>13, <1>14, Zenon

-------------------------------------------------------------------------------
(* BootMemory: what init_bitmap has reserved *)

\* After each call, the frames reserved are those of the calls so far, which all
\* read only what is mapped; between two calls nothing is left to mark.
BootInv ==
    /\ loader \in Loaders
    /\ calls \in 0 .. Len(Calls)
    /\ calls > 0 => InfoFrames \subseteq Mapped
    /\ \A f : f \in reserved <=> \E k \in 1 .. calls : f \in Asked(k)
    /\ mark.num = 0 => mark = Idle
    /\ booted => calls = Len(Calls)
    /\ fault = "bitmap" => ~MapInReach

LEMMA LoaderSame ==
  ASSUME loader' = loader
  PROVE  Calls' = Calls /\ Mapped' = Mapped /\ InfoFrames' = InfoFrames /\ MapInReach' = MapInReach
<1>1. Mapped' = Mapped
  BY DEF Mapped
<1>2. InfoFrames' = InfoFrames /\ InfoVirtual' = InfoVirtual
  BY DEF InfoFrames, InfoVirtual
<1>3. ListFrames' = ListFrames
  BY DEF ListFrames
<1>4. MapWords' = MapWords
  BY DEF MapWords
<1>5. MapFrames' = MapFrames
  BY <1>4 DEF MapFrames
<1>6. \A i : MapStart(i)' = MapStart(i) /\ MapLength(i)' = MapLength(i) /\ MapType(i)' = MapType(i)
  BY <1>4 DEF MapStart, MapLength, MapType
<1>7. \A i : MapCall(i)' = MapCall(i)
  BY <1>2, <1>5, <1>6 DEF MapCall, ReservedType
<1>8. MapCalls' = MapCalls
  BY <1>7 DEF MapCalls
<1>9. LowFirst' = LowFirst
  BY <1>2 DEF LowFirst
<1>10. \A m : ModuleCall(m)' = ModuleCall(m)
  BY <1>2, <1>3 DEF ModuleCall
<1>11. [i \in DOMAIN loader.modules |-> ModuleCall(loader.modules[i])]'
        = [i \in DOMAIN loader.modules |-> ModuleCall(loader.modules[i])]
  BY <1>10
<1>12. Calls' = Calls
  BY <1>2, <1>8, <1>9, <1>11 DEF Calls
<1>13. MapInReach' = MapInReach
  BY DEF MapInReach, ReservedRegions
<1> QED BY <1>1, <1>2, <1>12, <1>13

LEMMA BootInitInvariant == BootInit => BootInv
<1> SUFFICES ASSUME BootInit PROVE BootInv
  OBVIOUS
<1>1. loader \in Loaders /\ calls = 0 /\ reserved = {} /\ mark = Idle /\ ~booted
      /\ fault = "none"
  BY DEF BootInit, Init
<1>2. Len(Calls) \in Nat
  BY <1>1, CallsAre, LoaderFacts
<1> QED BY <1>1, <1>2 DEF BootInv

\* A call of mark_used is one that PageFrames allows, or reserves nothing.
LEMMA MarkUsedStep ==
  ASSUME IInv, BootInv, MarkUsed
  PROVE  [Next]_vars /\ BootInv'
<1> DEFINE k == calls + 1  c == Calls[k]
<1>1. /\ ~booted /\ fault = "none" /\ mark.num = 0 /\ calls < Len(Calls) /\ c.reads \subseteq Mapped
      /\ c.frame + c.num <= TotalFrames
      /\ calls' = k /\ reserved' = reserved \cup (c.frame .. c.frame + c.num - 1)
      /\ mark' = IF c.num = 0 THEN Idle
                 ELSE [offset |-> WordOf(c.frame), bit |-> BitOf(c.frame), num |-> c.num]
      /\ UNCHANGED <<bitmap, scanVars, booted, held, loader, fault>>
  BY DEF MarkUsed, Begins, StaysIn
<1>2. loader \in Loaders /\ calls \in Nat /\ Len(Calls) \in Nat /\ k \in 1 .. Len(Calls) /\ mark = Idle
  <2>1. Len(Calls) \in Nat
    BY CallsAre, LoaderFacts DEF BootInv
  <2> QED BY <1>1, <2>1 DEF BootInv
<1>3. InfoFrames \subseteq Mapped /\ Fitting(c)
  <2>1. InfoFrames \subseteq Mapped
    BY <1>1, <1>2, CallFits
  <2>2. c.frame \in Nat /\ c.num \in Nat
    BY <1>2, <2>1, CallFits
  <2> HIDE DEF c
  <2> QED BY <1>1, <2>1, <2>2, Sizes DEF Fitting
<1>4. Calls' = Calls /\ Mapped' = Mapped /\ InfoFrames' = InfoFrames
  BY <1>1, LoaderSame
<1>5. reserved' = reserved \cup Asked(k)
  BY <1>1 DEF Asked
<1> HIDE DEF c
<1>6. [Next]_vars
  <2>1. CASE c.num = 0
    <3>1. c.frame .. c.frame + c.num - 1 = {}
      BY <1>3, <2>1 DEF Fitting
    <3>2. mark' = mark /\ reserved' = reserved
      BY <1>1, <1>2, <2>1, <3>1
    <3> QED BY <1>1, <3>2 DEF vars, scanVars
  <2>2. CASE c.num > 0
    <3>1. c.frame \in Frames /\ c.num \in 1 .. TotalFrames /\ c.frame + c.num <= TotalFrames
      BY <1>3, <2>2, Sizes DEF Fitting, Frames
    <3>2. reserved = {} => c.frame = 0
      <4>1. CASE calls = 0
        <5>1. c = LowCall
          BY <4>1, <1>2, CallsAre DEF c
        <5> QED BY <5>1, <1>2, LowAsked
      <4>2. CASE calls > 0
        <5>1. 0 \in Asked(1)
          <6>1. Calls[1] = LowCall /\ LowCall.frame = 0 /\ LowCall.num \in Nat /\ LowCall.num > 0
            BY <1>2, CallsAre, LowAsked, Sizes DEF Fitting
          <6> QED BY <6>1 DEF Asked
        <5>2. 1 \in 1 .. calls
          BY <4>2, <1>2
        <5>3. 0 \in reserved
          BY <5>1, <5>2 DEF BootInv
        <5> QED BY <5>3
      <4> QED BY <1>2, <4>1, <4>2
    <3>3. mark' = [offset |-> WordOf(c.frame), bit |-> BitOf(c.frame), num |-> c.num]
      BY <1>1, <2>2
    <3>4. BeginMark(c.frame, c.num)
      BY <1>1, <3>1, <3>2, <3>3 DEF BeginMark
    <3> QED BY <3>1, <3>4 DEF Next
  <2> QED BY <1>3, <2>1, <2>2, Sizes DEF Fitting
<1>7. mark'.num = 0 => mark' = Idle
  BY <1>1
<1>8. \A j : Asked(j)' = Asked(j)
  BY <1>4 DEF Asked
<1>9. \A f : f \in reserved' <=> \E j \in 1 .. k : f \in Asked(j)
  <2> SUFFICES ASSUME NEW f
               PROVE  f \in reserved' <=> \E j \in 1 .. k : f \in Asked(j)
    OBVIOUS
  <2>1. f \in reserved <=> \E j \in 1 .. calls : f \in Asked(j)
    BY DEF BootInv
  <2>2. 1 .. k = (1 .. calls) \cup {k}
    BY <1>2
  <2> HIDE DEF k
  <2> QED BY <1>5, <2>1, <2>2
<1>10. \A f : f \in reserved' <=> \E j \in 1 .. calls' : f \in Asked(j)'
  BY <1>1, <1>8, <1>9
<1>11. loader' \in Loaders /\ calls' \in 0 .. Len(Calls') /\ InfoFrames' \subseteq Mapped' /\ ~booted'
  BY <1>1, <1>2, <1>3, <1>4
<1>12. fault' # "bitmap" /\ (calls' > 0 => InfoFrames' \subseteq Mapped')
  BY <1>1, <1>11
<1>13. BootInv'
  BY ONLY <1>7, <1>10, <1>11, <1>12, Zenon DEF BootInv
<1> QED BY <1>6, <1>13

LEMMA BootStep == IInv /\ BootInv /\ [BootNext]_allVars => [Next]_vars /\ BootInv'
<1> SUFFICES ASSUME IInv, BootInv, [BootNext]_allVars PROVE [Next]_vars /\ BootInv'
  OBVIOUS
<1>0. ASSUME UNCHANGED <<loader, calls, reserved>>, mark'.num = 0 => mark' = Idle,
             booted' => calls = Len(Calls), fault' = "bitmap" => ~MapInReach
      PROVE  BootInv'
  <2>1. Calls' = Calls /\ Mapped' = Mapped /\ InfoFrames' = InfoFrames /\ MapInReach' = MapInReach
    BY <1>0, LoaderSame
  <2>2. \A j : Asked(j)' = Asked(j)
    BY <2>1 DEF Asked
  <2>3. \A f : f \in reserved' <=> \E j \in 1 .. calls' : f \in Asked(j)'
    BY <1>0, <2>2 DEF BootInv
  <2> QED BY <1>0, <2>1, <2>3 DEF BootInv
<1>1. CASE MarkUsed
  BY <1>1, MarkUsedStep
<1>2. CASE MarkWord /\ UNCHANGED bootVars
  <2>1. mark'.num = 0 => mark' = Idle
    <3>1. CASE mark.num = RunLength
      BY <1>2, <3>1 DEF MarkWord
    <3>2. CASE mark.num # RunLength
      <4>1. mark'.num = mark.num - RunLength /\ mark.num \in Nat /\ RunLength \in 1 .. mark.num
        BY <1>2, <3>2, RunFacts, TotalIsNat DEF MarkWord, IInv, TypeOK
      <4> QED BY <4>1, <3>2
    <3> QED BY <3>1, <3>2
  <2> QED BY <1>0, <1>2, <2>1 DEF MarkWord, bootVars, BootInv, Next
<1>3. CASE Fault
  BY <1>0, <1>3 DEF Fault, Begins, vars, BootInv
<1>a. CASE Overrun
  <2> DEFINE k == calls + 1
  <2>1. k \in 1 .. Len(Calls) /\ Calls[k].reads \subseteq Mapped /\ ~StaysIn(Calls[k])
        /\ UNCHANGED vars /\ UNCHANGED <<loader, calls>>
    <3>1. Len(Calls) \in Nat
      BY CallsAre, LoaderFacts DEF BootInv
    <3> QED BY <1>a, <3>1 DEF Overrun, Begins, BootInv
  <2>2. ~MapInReach
    <3>1. InfoFrames \subseteq Mapped
      BY <2>1, CallFits DEF BootInv
    <3>2. MapInReach => Fitting(Calls[k])
      BY <2>1, <3>1, CallFits DEF BootInv
    <3> QED BY <2>1, <3>2 DEF Fitting, StaysIn
  <2>3. fault' = "bitmap" /\ reserved' = reserved /\ mark' = mark /\ booted' = booted /\ ~booted
        /\ UNCHANGED <<loader, calls, reserved>>
    BY <1>a, <2>1 DEF Overrun, Begins, vars
  <2>4. mark'.num = 0 => mark' = Idle
    BY <2>3 DEF BootInv
  <2>5. booted' => calls = Len(Calls)
    BY <2>3
  <2>6. fault' = "bitmap" => ~MapInReach
    BY <2>2
  <2>7. UNCHANGED <<loader, calls, reserved>>
    BY <2>3
  <2>8. BootInv'
    BY ONLY <1>0, <2>4, <2>5, <2>6, <2>7, Zenon
  <2> QED BY <2>1, <2>8
<1>4. CASE ReturnFromInit
  BY <1>0, <1>4 DEF ReturnFromInit, EndBoot, bootVars, BootInv, Next
<1>5. CASE /\ AllocateNextPage \/ AllocateFails \/ \E f \in Frames : FreePhysicalPage(f)
           /\ UNCHANGED bootVars
  <2>1. UNCHANGED <<loader, calls, fault, reserved, mark, booted>>
    BY <1>5 DEF AllocateNextPage, AllocateFails, FreePhysicalPage, bootVars
  <2> QED BY <1>0, <1>5, <2>1 DEF BootInv, Next
<1>6. CASE UNCHANGED allVars
  BY <1>0, <1>6 DEF allVars, vars, bootVars, BootInv
<1> QED BY <1>1, <1>2, <1>3, <1>a, <1>4, <1>5, <1>6 DEF BootNext

LEMMA BootInductive == BootSpec => [](IInv /\ BootInv)
<1>1. BootInit => IInv /\ BootInv
  BY InitInvariant, BootInitInvariant DEF BootInit
<1>2. IInv /\ BootInv /\ [BootNext]_allVars => (IInv /\ BootInv)'
  BY BootStep, StepInvariant
<1> QED BY <1>1, <1>2, PTL DEF BootSpec

\* Whatever a boot loader leaves, every call of mark_used that init_bitmap makes and
\* that ends is one of those PageFrames allows: its theorems hold from the boot on.
THEOREM BootMarksInBitmap == BootSpec => Spec
<1>1. BootInit => Init
  BY DEF BootInit
<1> QED BY <1>1, BootStep, BootInductive, PTL DEF BootSpec, Spec

\* No call leaves the bitmap, wherever regions lie below the top of the address
\* space and up to it; regions that are available may lie anywhere.
THEOREM MarksStayInBitmap == BootSpec => []StaysInBitmap
<1>1. BootInv => StaysInBitmap
  BY DEF BootInv, StaysInBitmap
<1> QED BY <1>1, BootInductive, PTL

LEMMA ReservedIsTaken ==
  ASSUME BootInv, booted
  PROVE  TakenInReach \subseteq reserved /\ (MapInReach => reserved = TakenInReach)
<1>1. loader \in Loaders /\ calls = Len(Calls) /\ Len(Calls) \in Nat /\ Len(Calls) > 0
  <2>1. Len(loader.modules) \in Nat /\ Turns \in Nat /\ Len(Calls) = 3 + Len(loader.modules) + Turns
    BY CallsAre, LoaderFacts DEF BootInv
  <2> QED BY <2>1 DEF BootInv
<1>2. \A f : f \in reserved <=> \E k \in 1 .. Len(Calls) : f \in Asked(k)
  BY <1>1 DEF BootInv
<1>3. InfoFrames \subseteq Mapped
  BY <1>1 DEF BootInv
<1>4. ASSUME NEW f PROVE f \in TakenInReach => f \in reserved
  <2>1. f \in TakenInReach => \E k \in 1 .. Len(Calls) : f \in Asked(k)
    <3>1. loader \in Loaders
      BY <1>1
    <3>2. \A g : /\ g \in TakenInReach => \E k \in 1 .. Len(Calls) : g \in Asked(k)
                 /\ MapInReach /\ (\E k \in 1 .. Len(Calls) : g \in Asked(k)) => g \in TakenInReach
      BY ONLY <3>1, <1>3, AllAsked
    <3> QED BY ONLY <3>2, Zenon
  <2> QED BY <1>2, <2>1
<1>5. ASSUME MapInReach, NEW f PROVE f \in reserved => f \in TakenInReach
  <2>1. (\E k \in 1 .. Len(Calls) : f \in Asked(k)) => f \in TakenInReach
    BY ONLY <1>1, <1>3, <1>5, AllAsked, Zenon
  <2> QED BY <1>2, <2>1
<1> QED BY <1>4, <1>5

\* After init_bitmap the frames that the boot loader's data says are taken are
\* marked, and no holder has one, for every page size, kernel, module list and
\* memory map, of the regions within the addresses of 32 bits; and if no reserved
\* region is out of their reach, only they and the frames held are marked.
THEOREM TakenReserved == BootSpec => []TakenIsReserved
<1>1. IInv /\ BootInv => TakenIsReserved
  <2> SUFFICES ASSUME IInv, BootInv, booted
               PROVE  /\ TakenInReach \subseteq UsedFrames \cup {0} /\ held \cap TakenInReach \subseteq {0}
                      /\ MapInReach => UsedFrames \cup {0} = TakenInReach \cup held \cup {0}
    BY DEF TakenIsReserved
  <2>1. HeldExclusively /\ TakenInReach \subseteq reserved /\ (MapInReach => reserved = TakenInReach)
    BY ReservedIsTaken DEF IInv
  <2> QED BY <2>1 DEF HeldExclusively
<1> QED BY <1>1, BootInductive, PTL

\* The frames that boot.S maps at first are taken, so nobody is given one that
\* holds data of the boot loader the kernel can read.
THEOREM LoaderDataSafe == BootSpec => []LoaderDataKept
<1>1. IInv /\ BootInv => LoaderDataKept
  <2> SUFFICES ASSUME IInv, BootInv, booted PROVE held \cap Mapped \subseteq {0}
    BY DEF LoaderDataKept
  <2>1. HeldExclusively /\ TakenInReach \subseteq reserved
    BY ReservedIsTaken DEF IInv
  <2>2. Mapped \subseteq TakenInReach
    <3> SUFFICES ASSUME NEW f \in Frames, f * PageSize + 3 < loader.kernelEnd
                 PROVE  f \in FramesOf(0, loader.kernelEnd)
      BY DEF Mapped, TakenInReach
    <3>1. PageSize \in Nat \ {0} /\ f \in Nat /\ f * PageSize \in Nat /\ loader.kernelEnd \in Nat
      BY Sizes, LoaderFacts DEF Frames, BootInv
    <3>2. (f + 1) * PageSize = f * PageSize + PageSize
      BY <3>1
    <3> QED BY <3>1, <3>2 DEF FramesOf
  <2> QED BY <2>1, <2>2 DEF HeldExclusively
<1> QED BY <1>1, BootInductive, PTL
===============================================================================
