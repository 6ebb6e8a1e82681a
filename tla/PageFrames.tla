------------------------------ MODULE PageFrames ------------------------------
(***************************************************************************)
(* The physical page allocator of kernel/arch/i386/page.c: one bit per     *)
(* page frame, in words, with the two statics that speed up the scan (the  *)
(* word of the latest allocation, and whether anything was freed since).   *)
(*                                                                         *)
(* A frame number stands for the address frame * PAGE_SIZE.  A word is the *)
(* set of its bits that are 1.  init_bitmap is a series of mark_used       *)
(* calls; each outer iteration of mark_used is one step.                   *)
(***************************************************************************)
EXTENDS Integers

CONSTANTS
    NumWords,       \* words of the bitmap (32768 in the code)
    WordBits        \* bits of a word (32 in the code)

ASSUME SizeAssumption == NumWords \in Nat \ {0} /\ WordBits \in Nat \ {0}

VARIABLES
    bitmap,         \* word -> its bits that are set
    lastAllocated,  \* the word last_allocated points to, NoWord for NULL
    freed,          \* the static freed
    page,           \* the frame allocate_next_page returned last, 0 for none
    booted,         \* whether init_bitmap has returned
    mark,           \* where the running mark_used call is; num = 0 for none
    reserved,       \* history: the frames mark_used was asked to reserve
    held            \* history: the frames callers hold

scanVars == <<lastAllocated, freed, page>>
vars == <<bitmap, lastAllocated, freed, page, booted, mark, reserved, held>>

TotalFrames == NumWords * WordBits
Words == 0 .. NumWords - 1
Bits == 0 .. WordBits - 1
Frames == 0 .. TotalFrames - 1
NoWord == -1

WordOf(f) == f \div WordBits
BitOf(f) == f % WordBits
FrameOf(w, b) == w * WordBits + b

\* check_used
CheckUsed(f) == BitOf(f) \in bitmap[WordOf(f)]

UsedFrames == {f \in Frames : CheckUsed(f)}

Idle == [offset |-> 0, bit |-> 0, num |-> 0]

Init ==
    /\ bitmap = [w \in Words |-> {}]
    /\ lastAllocated = NoWord
    /\ freed = FALSE
    /\ page = 0
    /\ booted = FALSE
    /\ mark = Idle
    /\ reserved = {}
    /\ held = {}

-------------------------------------------------------------------------------
(* Boot: init_bitmap reserves ranges with mark_used *)

\* The first range is low memory, which starts at frame 0.  The others (the
\* kernel, the multiboot structure, the modules, the memory map's reserved
\* regions) may lie anywhere and overlap.
BeginMark(start, num) ==
    /\ ~booted /\ mark.num = 0
    /\ reserved = {} => start = 0
    /\ start + num <= TotalFrames
    /\ mark' = [offset |-> WordOf(start), bit |-> BitOf(start), num |-> num]
    /\ reserved' = reserved \cup (start .. start + num - 1)
    /\ UNCHANGED <<bitmap, scanVars, booted, held>>

\* The bits the inner loop of mark_used sets in the word at mark.offset.
RunLength == IF mark.num <= WordBits - mark.bit THEN mark.num ELSE WordBits - mark.bit
Run == mark.bit .. mark.bit + RunLength - 1

NextBit == 0

MarkWord ==
    /\ mark.num > 0
    /\ bitmap' = [bitmap EXCEPT ![mark.offset] = @ \cup Run]
    /\ mark' = IF mark.num = RunLength THEN Idle
               ELSE [offset |-> mark.offset + 1, bit |-> NextBit, num |-> mark.num - RunLength]
    /\ UNCHANGED <<scanVars, booted, reserved, held>>

EndBoot ==
    /\ ~booted /\ mark.num = 0 /\ reserved # {}
    /\ booted' = TRUE
    /\ UNCHANGED <<bitmap, scanVars, mark, reserved, held>>

-------------------------------------------------------------------------------
(* allocate_next_page and free_physical_page *)

ScanFromCursor == IF lastAllocated # NoWord THEN lastAllocated ELSE 0
ScanFrom == IF ~freed /\ lastAllocated # NoWord THEN lastAllocated ELSE 0

HasClearBit(w) == bitmap[w] # Bits

\* w is the first word of the scan with a clear bit, b its lowest clear bit.
FirstClear(w, b) ==
    /\ w >= ScanFrom /\ b \in Bits \ bitmap[w]
    /\ \A v \in Words : ScanFrom <= v /\ v < w => ~HasClearBit(v)
    /\ \A c \in Bits : c < b => c \in bitmap[w]

AllocateNextPage ==
    /\ booted
    /\ \E w \in Words, b \in Bits :
        /\ FirstClear(w, b)
        /\ bitmap' = [bitmap EXCEPT ![w] = @ \cup {b}]
        /\ lastAllocated' = w
        /\ freed' = FALSE
        /\ page' = FrameOf(w, b)
        /\ held' = held \cup {FrameOf(w, b)}
    /\ UNCHANGED <<booted, mark, reserved>>

\* The scan falls off the bitmap: the answer is 0, and the callers map frame 0.
AllocateFails ==
    /\ booted
    /\ \A w \in Words : w >= ScanFrom => ~HasClearBit(w)
    /\ page' = 0
    /\ held' = held \cup {0}
    /\ UNCHANGED <<bitmap, lastAllocated, freed, booted, mark, reserved>>

ClearedWordInverted(w, b) == bitmap[w] \cap {b}
ClearedWord(w, b) == bitmap[w] \ {b}

FreedFlag == TRUE

\* A caller gives back a frame it was given.  Frame 0, mapped after a refusal,
\* may be mapped at several pages and so be given back several times.
FreePhysicalPage(f) ==
    /\ booted /\ f \in held
    /\ bitmap' = [bitmap EXCEPT ![WordOf(f)] = ClearedWord(WordOf(f), BitOf(f))]
    /\ freed' = FreedFlag
    /\ held' = held \ ({f} \ {0})
    /\ UNCHANGED <<lastAllocated, page, booted, mark, reserved>>

Next ==
    \/ \E start \in Frames, num \in 1 .. TotalFrames : BeginMark(start, num)
    \/ MarkWord
    \/ EndBoot
    \/ AllocateNextPage
    \/ AllocateFails
    \/ \E f \in Frames : FreePhysicalPage(f)

Spec == Init /\ [][Next]_vars

-------------------------------------------------------------------------------
(* Properties *)

\* Every variable keeps to its C type: words hold word bits, the cursor is
\* NULL or a word of the bitmap, a mark_used call stays inside the bitmap.
TypeOK ==
    /\ bitmap \in [Words -> SUBSET Bits]
    /\ lastAllocated \in Words \cup {NoWord}
    /\ freed \in BOOLEAN
    /\ page \in Frames
    /\ booted \in BOOLEAN
    /\ mark \in [offset : Words, bit : Bits, num : 0 .. TotalFrames]
    /\ FrameOf(mark.offset, mark.bit) + mark.num <= TotalFrames
    /\ reserved \in SUBSET Frames
    /\ held \in SUBSET Frames

\* What the running mark_used call has still to mark.
Remaining == FrameOf(mark.offset, mark.bit) .. FrameOf(mark.offset, mark.bit) + mark.num - 1

\* mark_used, called with any ranges, adjacent, overlapping or across words,
\* marks exactly the frames of the ranges: at every point of the boot the
\* frames marked and those still to be marked are those asked for.
MarkExact == ~booted => UsedFrames \cup Remaining = reserved

\* The reason allocate_next_page may start at last_allocated: unless something
\* was freed since, there is no free frame in the words before it.
FullBelowCursor ==
    ~freed /\ lastAllocated # NoWord =>
        \A w \in Words : w < lastAllocated => ~HasClearBit(w)

\* A frame that a caller holds is marked, and is not one of the boot's
\* reservations: so no later allocation hands it out again, and no kernel,
\* module or firmware frame is ever handed out.  Frame 0 is apart: it is what
\* a refused request gives, and giving it back clears its bit.
HeldExclusively ==
    booted =>
        /\ (held \cup reserved) \ {0} \subseteq UsedFrames
        /\ held \cap reserved \subseteq {0}
        /\ UsedFrames \subseteq held \cup reserved

\* page.c implements the first-fit allocator: in spite of the cursor, a request
\* is answered with the lowest free frame, and refused only if there is none.
FF == INSTANCE FirstFit WITH used <- UsedFrames
FirstFitSpec == FF!Spec
===============================================================================
