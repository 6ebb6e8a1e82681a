------------------------------- MODULE Interrupts -----------------------------
(***************************************************************************)
(* kernel/arch/i386/interupts.S and input.c: the gates, the two interrupt  *)
(* controllers as initialize_input finds and reprograms them, one access   *)
(* after the other with interrupts already on, the stubs and the common    *)
(* handler, system calls, and the keyboard.                                *)
(*                                                                         *)
(* Interrupt lines and vectors have their numbers.  The controllers (8259) *)
(* are in fully nested mode; line 2 of the first is the second.  Gates are *)
(* interrupt gates, so nothing interrupts a handler or a system call.      *)
(***************************************************************************)
EXTENDS Integers, FiniteSetsExt

CONSTANTS
    Lines,          \* bound: the lines that devices are on
    BiosMasks,      \* bound: the lines the firmware may have left masked
    Faults,         \* bound: the exceptions that come up in programs
    Overwritten     \* the vectors whose gates lie where later calls have their
                    \* frames: the gates are a local variable

ASSUME LineAssumption ==
    /\ Lines \subseteq 0 .. 15 \ {2, 7, 15} /\ {0, 1} \subseteq Lines
    /\ \A m \in BiosMasks : m \subseteq Lines \ {1}

VARIABLES
    pc,             \* where initialize_input is, "done" when it has returned
    cpu,            \* "code", "handler", "syscall", "halt" (interrupts on),
                    \* "spin" (off), or "lost": returned to no return address,
                    \* or a gate is none any more
    back,           \* what the handler interrupted
    vector, framed, \* its vector, and whether its stub fits what the processor pushed
    gates,          \* the vectors with a gate
    mask, irr, isr, \* the controllers: lines masked, requested, in service
    base,           \* controller -> its first vector, or none during its set-up
    saved,          \* a1 and a2 of PIC_remap, then value of IRQ_set_mask
    key,            \* the keyboard's buffer: "empty", or since when it is full
    bios            \* history: the masks at first

controller == <<mask, irr, isr, base>>
handling == <<cpu, back, vector, framed>>
vars == <<pc, handling, gates, controller, saved, key, bios>>

Master == 0 .. 7
Slave == 8 .. 15
Cascade == 2
NoBase == -1

NewBaseUnmoved == [master |-> 8, slave |-> 112]
NewBase == [master |-> 32, slave |-> 40]
LineVectors == 32 .. 47

ASSUME GateAssumption == Faults \subseteq 0 .. 31 /\ Overwritten \subseteq 0 .. 255

\* init_handlers: the gate of a vector leads to the stub that pushes its number.
Handlers == [v \in 0 .. 255 |-> v]

\* The vectors whose stub leaves it to the processor to push an error code, and
\* the exceptions for which it does.
StubsWithoutPush == {7, 10, 11, 12, 13, 14, 17}
PushesErrorCode == {8, 10, 11, 12, 13, 14, 17}
PageFault == 14
KeyboardVector == 33

Init ==
    /\ pc = "idt"
    /\ cpu = "code" /\ back = "code" /\ vector = 0 /\ framed = TRUE
    /\ gates = {}
    /\ mask \in BiosMasks /\ bios = mask
    /\ irr = {} /\ isr = {}
    /\ base = [master |-> 8, slave |-> 112]
    /\ saved = {}
    /\ key = "empty"

-------------------------------------------------------------------------------
(* Entering and leaving a handler *)

InterruptsOn == cpu \in {"code", "halt"} /\ pc \notin {"idt", "load"}

Enter(v, pushed) ==
    /\ vector' = Handlers[v]
    /\ framed' = (pushed <=> Handlers[v] \in StubsWithoutPush)
    /\ back' = cpu
    /\ cpu' = IF v \in gates THEN "handler" ELSE "lost"

BeforeAll(l, others) == \A i \in others : l < i

Deliverable(l) ==
    /\ l \in irr \ mask /\ base.master # NoBase
    /\ IF l \in Master THEN BeforeAll(l, isr \cap Master)
       ELSE /\ base.slave # NoBase
            /\ BeforeAll(l, isr \cap Slave) /\ BeforeAll(Cascade, isr \cap Master)

Rank(l) == IF l \in Slave THEN 8 * Cascade + (l - 8) ELSE 8 * l
VectorOf(l) == IF l \in Slave THEN base.slave + (l - 8) ELSE base.master + l

Interrupt(l) ==
    /\ InterruptsOn /\ Deliverable(l)
    /\ \A other \in Lines \ {l} : Deliverable(other) => Rank(l) < Rank(other)
    /\ isr' = isr \cup {l} \cup (IF l \in Slave THEN {Cascade} ELSE {})
    /\ irr' = irr \ {l}
    /\ Enter(VectorOf(l), FALSE)
    /\ UNCHANGED <<pc, gates, mask, base, saved, key, bios>>

\* A request that is withdrawn too late comes as the last line of the
\* controller, which does not take it as in service.
Spurious(l) ==
    /\ InterruptsOn /\ isr = {} /\ base.master # NoBase
    /\ l \in Slave => base.slave # NoBase
    /\ isr' = IF l \in Slave THEN {Cascade} ELSE {}
    /\ Enter(VectorOf(l), FALSE)
    /\ UNCHANGED <<pc, gates, mask, irr, base, saved, key, bios>>

\* PIC_sendEOI.  A controller drops the line it serves that comes first.
Highest(served) == IF served = {} THEN {} ELSE {Min(served)}
SendEOINotTo8(irq) ==
    isr \ (Highest(isr \cap Master) \cup (IF irq > 8 THEN Highest(isr \cap Slave) ELSE {}))
SendEOI(irq) ==
    isr \ (Highest(isr \cap Master) \cup (IF irq >= 8 THEN Highest(isr \cap Slave) ELSE {}))

KeyLeft == key
KeyRead == "empty"

\* interupt_handler and the return of the stub, which misses the return address
\* if the frame is not the one the stub was written for.
HandleLine ==
    /\ cpu = "handler" /\ vector \in LineVectors
    /\ key' = IF vector = KeyboardVector THEN KeyRead ELSE key
    /\ isr' = SendEOI(vector - 32)
    /\ cpu' = IF framed THEN back ELSE "lost"
    /\ UNCHANGED <<pc, back, vector, framed, gates, mask, irr, base, saved, bios>>

HandleOther ==
    /\ cpu = "handler" /\ vector \notin LineVectors
    /\ cpu' = IF vector = PageFault THEN "spin" ELSE IF framed THEN back ELSE "lost"
    /\ UNCHANGED <<pc, back, vector, framed, gates, controller, saved, key, bios>>

-------------------------------------------------------------------------------
(* initialize_input, one access to a controller at a time *)

At(here, next) == pc = here /\ cpu = "code" /\ pc' = next
unchangedByBoot == <<handling, key, bios>>

FillGates ==
    /\ At("idt", "load") /\ gates' = 0 .. 255
    /\ UNCHANGED <<controller, saved, unchangedByBoot>>

\* lidt and sti: from here on, interrupts come in.
LoadIdt ==
    /\ At("load", "save")
    /\ UNCHANGED <<gates, controller, saved, unchangedByBoot>>

SaveMasks ==
    /\ At("save", "icw1 master") /\ saved' = mask
    /\ UNCHANGED <<gates, controller, unchangedByBoot>>

\* ICW1 resets a controller: requests, lines in service and masks are gone, and
\* a line has to rise again to be seen.  ICW2 and ICW4 end its set-up.
Reset(which, of) ==
    /\ base' = [base EXCEPT ![which] = NoBase]
    /\ mask' = mask \ of /\ irr' = irr \ of /\ isr' = isr \ of
    /\ UNCHANGED <<gates, saved, unchangedByBoot>>

ResetMaster == At("icw1 master", "icw1 slave") /\ Reset("master", Master)
ResetSlave == At("icw1 slave", "icw4 master") /\ Reset("slave", Slave)

SetUp(which) ==
    /\ base' = [base EXCEPT ![which] = NewBase[which]]
    /\ UNCHANGED <<gates, mask, irr, isr, saved, unchangedByBoot>>

SetUpMaster == At("icw4 master", "icw4 slave") /\ SetUp("master")
SetUpSlave == At("icw4 slave", "restore master") /\ SetUp("slave")

MasksOf(of) == saved \cap of

Restore(of) ==
    /\ mask' = (mask \ of) \cup MasksOf(of)
    /\ UNCHANGED <<gates, irr, isr, base, saved, unchangedByBoot>>

RestoreMaster == At("restore master", "restore slave") /\ Restore(Master)
RestoreSlave == At("restore slave", "read mask") /\ Restore(Slave)

\* IRQ_set_mask(0), the timer: a read and a write.
ReadMask ==
    /\ At("read mask", "write mask") /\ saved' = mask \cap Master
    /\ UNCHANGED <<gates, controller, unchangedByBoot>>

WithLineOnly(line) == {line}
WithLine(line) == saved \cup {line}

WriteMask ==
    /\ At("write mask", "key map") /\ mask' = (mask \ Master) \cup WithLine(0)
    /\ UNCHANGED <<gates, irr, isr, base, saved, unchangedByBoot>>

\* init_key_code_map, which only the echo reads; then the function returns, and
\* its local variables are whatever later calls write there.
InitKeyCodeMap ==
    /\ At("key map", "done") /\ gates' = gates \ Overwritten
    /\ UNCHANGED <<controller, saved, unchangedByBoot>>

Boot ==
    \/ FillGates \/ LoadIdt \/ SaveMasks
    \/ ResetMaster \/ ResetSlave \/ SetUpMaster \/ SetUpSlave
    \/ RestoreMaster \/ RestoreSlave \/ ReadMask \/ WriteMask
    \/ InitKeyCodeMap

-------------------------------------------------------------------------------
(* Programs and devices *)

Running == cpu = "code" /\ pc = "done"
unchangedByPrograms == <<pc, gates, controller, saved, key, bios>>

UserGates == {128}

\* The int instruction.  A gate that is not for users is a protection fault.
SoftwareInterrupt(v) ==
    /\ Running
    /\ IF v \notin UserGates THEN Enter(13, TRUE)
       ELSE IF v # 128 THEN Enter(v, FALSE)
       ELSE cpu' = "syscall" /\ UNCHANGED <<back, vector, framed>>
    /\ UNCHANGED unchangedByPrograms

Fault(v) ==
    /\ Running /\ Enter(v, v \in PushesErrorCode)
    /\ UNCHANGED unchangedByPrograms

\* A system call ends in sys_return, or, when the last process exits, in a loop
\* with interrupts on.
SysReturn ==
    /\ cpu = "syscall" /\ cpu' \in {"code", "halt"}
    /\ UNCHANGED <<back, vector, framed, unchangedByPrograms>>

\* A line rises.  The keyboard's stays up until its buffer is read.
Request(l) ==
    /\ l # 1 /\ irr' = irr \cup {l}
    /\ UNCHANGED <<pc, handling, gates, mask, isr, base, saved, key, bios>>

BeforeReset == {"idt", "load", "save", "icw1 master"}

Press ==
    /\ key = "empty"
    /\ key' = IF pc \in BeforeReset THEN "early" ELSE "fresh"
    /\ irr' = irr \cup {1}
    /\ UNCHANGED <<pc, handling, gates, mask, isr, base, saved, bios>>

Next ==
    \/ Boot
    \/ \E l \in Lines : Interrupt(l) \/ Request(l)
    \/ \E l \in {7, 15} : Spurious(l)
    \/ HandleLine \/ HandleOther
    \/ \E v \in {KeyboardVector, 128} : SoftwareInterrupt(v)
    \/ \E v \in Faults : Fault(v)
    \/ SysReturn \/ Press

Spec == Init /\ [][Next]_vars

\* A controller asks again whenever interrupts are on, and the processor answers
\* within an instruction; handlers and system calls end; the boot code gets on
\* between interrupts.
FairSpec ==
    /\ Spec
    /\ WF_vars(HandleLine \/ HandleOther) /\ WF_vars(SysReturn)
    /\ SF_vars(Interrupt(1)) /\ SF_vars(Boot)

-------------------------------------------------------------------------------
(* Properties *)

AfterReset == pc \notin BeforeReset \cup {"icw1 slave"}

\* What is in service while the handler of a vector runs: its line, unless the
\* interrupt was spurious, and the cascade.
Serving(v) ==
    LET l == v - 32
    IN  IF v \notin LineVectors THEN {}
        ELSE (IF l \in Slave THEN {Cascade} ELSE {}) \cup ({l} \ {7, 15})

\* Every interrupt is acknowledged, at the controllers it came through, and
\* nothing else is: once the controllers were reset, exactly the line of the
\* running handler is in service, else none, so that no line blocks another for
\* good.  What came in before the reset at the old vectors, where nothing is
\* acknowledged, does not spoil this; nor does a program that runs a gate.
InServiceWhileHandled ==
    AfterReset /\ cpu # "lost" => isr = IF cpu = "handler" THEN Serving(vector) ELSE {}

\* The exceptions whose stub is not for what the processor pushes: 7, which has no
\* error code and whose stub leaves it to the processor to push one, and 8, which
\* has one and whose stub pushes another.
Misfits == {v \in 0 .. 31 : (v \in StubsWithoutPush) # (v \in PushesErrorCode)}

\* Once the controllers were moved, no handler returns through a frame that its
\* stub was not written for, but those of the exceptions 7 and 8, which always do,
\* and every gate that is used is one, but those whose place was used again.
FramesFit == cpu = "lost" /\ AfterReset => vector \in Misfits \cup Overwritten

\* The handler of every exception finds the frame it expects, the error code and
\* behind it what the processor pushed, and returns through it.  (The code does
\* not keep this: exceptions 7 and 8.)
HandlersReturn == cpu = "lost" /\ AfterReset => vector \in Overwritten

\* PIC_remap's save and restore and IRQ_set_mask leave masked what the firmware
\* had masked, and the timer, although the set-up between them clears the masks.
MasksKept == pc \in {"key map", "done"} => mask = bios \cup {0}

\* A key pressed after the reset is read sooner or later, in the middle of other
\* devices' interrupts, system calls and faults, unless a page fault stopped the
\* kernel.
KeysRead == key = "fresh" ~> (key = "empty" \/ cpu \in {"spin", "lost"})
===============================================================================
