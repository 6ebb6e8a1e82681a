------------------------------ MODULE UserMachine -----------------------------
(***************************************************************************)
(* What the kernel promises a user program: a machine of its own.  Every   *)
(* process has its registers and its memory, which only its own steps      *)
(* change; fork copies them both; yield, exit and the other processes      *)
(* leave them as they were.  Turns are those of RoundRobin.                *)
(***************************************************************************)
EXTENDS RoundRobin

CONSTANTS
    Slots,          \* the pages of a program's memory
    Values          \* what a page, or the registers, may hold

VARIABLES
    regs,           \* live process -> its registers: eax and the others
    memory          \* live process -> its memory

vars == <<ringVars, regs, memory>>

Regs == [eax : 0 .. MaxPid, other : Values]
Contents == [Slots -> Values]

MInit == Init /\ regs = <<>> /\ memory = <<>>

MStart ==
    /\ Start
    /\ \E r \in Regs, m \in Contents :
        regs' = [p \in {nextPid} |-> r] /\ memory' = [p \in {nextPid} |-> m]

\* The running program executes an instruction, on its own registers and memory.
Compute ==
    /\ phase = "on"
    /\ \E v \in Values : regs' = [regs EXCEPT ![running].other = v]
    /\ \/ UNCHANGED memory
       \/ \E s \in Slots, v \in Values : memory' = [memory EXCEPT ![running][s] = v]
    /\ UNCHANGED ringVars

GetPid ==
    /\ phase = "on"
    /\ regs' = [regs EXCEPT ![running].eax = running]
    /\ UNCHANGED <<memory, ringVars>>

MYield == Yield /\ UNCHANGED <<regs, memory>>

\* The child is its parent's copy, and each sees the other's pid or 0 in eax.
MFork ==
    /\ Fork
    /\ regs' = [p \in live' |->
                  IF p = nextPid THEN [regs[running] EXCEPT !.eax = 0]
                  ELSE IF p = running THEN [regs[running] EXCEPT !.eax = nextPid]
                  ELSE regs[p]]
    /\ memory' = [p \in live' |-> IF p = nextPid THEN memory[running] ELSE memory[p]]

MExit ==
    /\ Exit
    /\ regs' = [p \in live' |-> regs[p]]
    /\ memory' = [p \in live' |-> memory[p]]

MStop == Stop /\ UNCHANGED <<regs, memory>>

MNext == MStart \/ Compute \/ GetPid \/ MYield \/ MFork \/ MExit \/ MStop

MSpec == MInit /\ [][MNext]_vars
===============================================================================
