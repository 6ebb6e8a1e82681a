---------------------------- MODULE InterruptsProofs ---------------------------
(***************************************************************************)
(* Proofs for Interrupts: whatever lines and exceptions there are, and     *)
(* whichever gates are overwritten, every interrupt after the reset is     *)
(* acknowledged as it came and returns through its own frame, but those of *)
(* the exceptions 7 and 8, and the masks are what they were.               *)
(***************************************************************************)
EXTENDS Interrupts, TLAPS

ResetPlaces == {"icw1 slave", "icw4 master"}
SavedPlaces == {"icw1 master", "icw1 slave", "icw4 master", "icw4 slave", "restore master", "restore slave"}
Places == BeforeReset \cup SavedPlaces \cup {"read mask", "write mask", "key map", "done"}

\* The vectors the controllers send, at each point of their set-up.
BaseAt ==
    base = [master |-> IF pc \in BeforeReset THEN 8 ELSE IF pc \in ResetPlaces THEN NoBase ELSE 32,
            slave  |-> IF pc \in BeforeReset \cup {"icw1 slave"} THEN 112
                       ELSE IF pc \in {"icw4 master", "icw4 slave"} THEN NoBase ELSE 40]

\* How far the masks are restored, and where they are meanwhile.
MaskAt ==
    /\ bios \subseteq 0 .. 15
    /\ pc \in BeforeReset \cup {"read mask", "write mask"} => mask = bios
    /\ pc = "icw1 slave" => mask = bios \ Master
    /\ pc \in {"icw4 master", "icw4 slave", "restore master"} => mask = {}
    /\ pc = "restore slave" => mask = bios \cap Master
    /\ pc \in SavedPlaces => saved = bios
    /\ pc = "write mask" => saved = bios \cap Master

GatesAt ==
    /\ pc \notin {"idt", "done"} => gates = 0 .. 255
    /\ pc = "done" => gates = (0 .. 255) \ Overwritten

\* The frame of a handler after the reset.
FrameAt == AfterReset /\ cpu = "handler" => vector \in 0 .. 255 /\ (framed \/ vector \in Misfits)

\* What is in service or being handled, before, during and after the reset.
ServiceAt ==
    /\ isr \subseteq 0 .. 15
    /\ back \in {"code", "halt"} /\ cpu \in {"code", "handler", "syscall", "halt", "spin", "lost"}
    /\ pc \in ResetPlaces => cpu = "code"
    /\ pc = "icw1 slave" => isr \subseteq Slave
    /\ FrameAt

IInv ==
    /\ pc \in Places
    /\ BaseAt /\ MaskAt /\ GatesAt /\ ServiceAt
    /\ InServiceWhileHandled /\ FramesFit /\ MasksKept

bootParts == <<gates, mask, base, saved, bios>>

LEMMA InitIsGood == Init => IInv
<1> SUFFICES ASSUME Init PROVE IInv OBVIOUS
<1>1. BaseAt BY DEF Init, BaseAt, BeforeReset
<1>2. MaskAt BY LineAssumption DEF Init, MaskAt, BeforeReset, SavedPlaces
<1>3. GatesAt /\ ServiceAt BY DEF Init, GatesAt, ServiceAt, FrameAt, ResetPlaces, AfterReset, BeforeReset
<1> QED BY <1>1, <1>2, <1>3 DEF Init, IInv, Places, BeforeReset, InServiceWhileHandled, AfterReset, FramesFit, MasksKept

\* Where the boot code stands and what it has set up is not touched by others.
LEMMA BootPartsKept ==
  ASSUME IInv, UNCHANGED <<pc, bootParts>>
  PROVE  pc' \in Places /\ BaseAt' /\ MaskAt' /\ GatesAt' /\ MasksKept'
<1>1. UNCHANGED <<pc, gates, mask, base, saved, bios>> BY DEF bootParts
<1>2. pc' \in Places BY <1>1 DEF IInv
<1>3. BaseAt' BY <1>1 DEF IInv, BaseAt
<1>4. MaskAt' BY <1>1 DEF IInv, MaskAt
<1>5. GatesAt' /\ MasksKept' BY <1>1 DEF IInv, GatesAt, MasksKept
<1> QED BY <1>2, <1>3, <1>4, <1>5

-------------------------------------------------------------------------------
(* Interrupts and their end *)

\* After the reset the vectors of the lines are the ones the handler knows.
LEMMA VectorsMoved ==
  ASSUME BaseAt, AfterReset, NEW l \in 0 .. 15,
         base.master # NoBase, l \in Slave => base.slave # NoBase
  PROVE  VectorOf(l) = 32 + l
<1>1. base.master = 32 BY DEF BaseAt, AfterReset
<1>2. l \in Slave => base.slave = 40 BY DEF BaseAt, AfterReset, BeforeReset
<1>3. CASE l \in Slave BY <1>2, <1>3 DEF VectorOf
<1>4. CASE l \notin Slave BY <1>1, <1>4 DEF VectorOf
<1> QED BY <1>3, <1>4

\* The exceptions whose stubs do not fit are no lines' vectors.
LEMMA MisfitsAre == Misfits = {7, 8}
BY DEF Misfits, StubsWithoutPush, PushesErrorCode

\* A vector that is raised has its gate, unless that was overwritten.
LEMMA EntersGate ==
  ASSUME IInv, InterruptsOn, NEW v \in 0 .. 255, NEW pushed \in BOOLEAN, Enter(v, pushed)
  PROVE  /\ vector' = v /\ back' \in {"code", "halt"}
         /\ framed' = (pushed <=> v \in StubsWithoutPush)
         /\ cpu' = "handler" \/ (cpu' = "lost" /\ v \in Overwritten)
<1>1. v \in gates \/ v \in Overwritten BY DEF IInv, GatesAt, InterruptsOn, Places
<1> QED BY <1>1 DEF Enter, Handlers, InterruptsOn

LEMMA EntersSomehow ==
  ASSUME InterruptsOn, NEW v, NEW pushed, Enter(v, pushed)
  PROVE  cpu' \in {"handler", "lost"} /\ back' \in {"code", "halt"}
BY DEF Enter, InterruptsOn

\* The interrupt of a line, true or spurious.
LEMMA LineEnters ==
  ASSUME IInv, InterruptsOn, NEW l \in 0 .. 15, l # Cascade,
         base.master # NoBase, l \in Slave => base.slave # NoBase,
         Enter(VectorOf(l), FALSE),
         isr' = isr \cup (IF l \in Slave THEN {Cascade} ELSE {}) \cup ({l} \ {7, 15}),
         UNCHANGED <<pc, bootParts>>
  PROVE  IInv'
<1>1. pc' \in Places /\ BaseAt' /\ MaskAt' /\ GatesAt' /\ MasksKept' BY BootPartsKept
<1>2. pc \notin ResetPlaces /\ pc' = pc BY DEF IInv, BaseAt, ResetPlaces, BeforeReset, bootParts
<1>3. isr' \subseteq 0 .. 15
  <2>1. isr \subseteq 0 .. 15 BY DEF IInv, ServiceAt
  <2>2. 2 \in 0 .. 15 OBVIOUS
  <2>3. (IF l \in Slave THEN {Cascade} ELSE {}) \subseteq 0 .. 15 BY <2>2 DEF Cascade
  <2> QED BY <2>1, <2>3
<1>4. cpu' \in {"handler", "lost"} /\ back' \in {"code", "halt"} BY EntersSomehow
<1>5. ASSUME AfterReset
      PROVE  /\ framed' /\ vector' = 32 + l /\ isr' = Serving(32 + l)
             /\ cpu' = "handler" \/ (cpu' = "lost" /\ 32 + l \in Overwritten)
  <2>1. VectorOf(l) = 32 + l BY <1>5, VectorsMoved DEF IInv
  <2>2. 32 + l \in LineVectors BY DEF LineVectors
  <2>3. 32 + l \in 0 .. 255 /\ 32 + l \notin StubsWithoutPush BY DEF StubsWithoutPush
  <2>4. /\ framed' /\ vector' = 32 + l
        /\ cpu' = "handler" \/ (cpu' = "lost" /\ 32 + l \in Overwritten)
    BY <2>1, <2>3, EntersGate
  <2>5. isr = {} BY <1>5 DEF IInv, InServiceWhileHandled, InterruptsOn
  <2> QED BY <2>2, <2>4, <2>5 DEF Serving, LineVectors, Slave, Cascade
<1>6. ServiceAt'
  <2>1. AfterReset => vector' \in 0 .. 255 BY <1>5
  <2> QED BY <2>1, <1>2, <1>3, <1>4, <1>5 DEF ServiceAt, FrameAt, AfterReset, ResetPlaces
<1>7. InServiceWhileHandled' BY <1>2, <1>5 DEF InServiceWhileHandled, AfterReset, Serving
<1>8. FramesFit' BY <1>2, <1>5 DEF FramesFit, AfterReset
<1> QED BY <1>1, <1>6, <1>7, <1>8 DEF IInv

LEMMA InterruptStep == ASSUME IInv, NEW l \in Lines, Interrupt(l) PROVE IInv'
<1>1. l \in 0 .. 15 /\ l \notin {2, 7, 15} BY LineAssumption
<1>2. isr' = isr \cup (IF l \in Slave THEN {Cascade} ELSE {}) \cup ({l} \ {7, 15})
  BY <1>1 DEF Interrupt
<1>3. base.master # NoBase /\ (l \in Slave => base.slave # NoBase)
  BY <1>1 DEF Interrupt, Deliverable, Master, Slave
<1>4. UNCHANGED <<pc, bootParts>> BY DEF Interrupt, bootParts
<1> QED BY <1>1, <1>2, <1>3, <1>4, LineEnters DEF Interrupt, Cascade

LEMMA SpuriousStep == ASSUME IInv, NEW l \in {7, 15}, Spurious(l) PROVE IInv'
<1>1. l \in 0 .. 15 /\ l # Cascade BY DEF Cascade
<1>2. isr' = isr \cup (IF l \in Slave THEN {Cascade} ELSE {}) \cup ({l} \ {7, 15}) BY DEF Spurious
<1>3. UNCHANGED <<pc, bootParts>> BY DEF Spurious, bootParts
<1> QED BY <1>1, <1>2, <1>3, LineEnters DEF Spurious

\* End of interrupt ends the service of what is served.
LEMMA Acknowledged ==
  ASSUME NEW v \in LineVectors, isr = Serving(v) PROVE SendEOI(v - 32) = {}
<1> DEFINE l == v - 32
<1>1. l \in 0 .. 15 /\ l \in Int BY DEF LineVectors
<1>2. ASSUME NEW x \in Int PROVE Highest({x}) = {x}
  <2>1. Min({x}) = x BY DEF Min
  <2> QED BY <2>1 DEF Highest
<1>3. Highest({}) = {} BY DEF Highest
<1>4. CASE l \in Slave
  <2>1. isr = {2} \cup ({l} \ {7, 15}) BY <1>4 DEF Serving, Cascade
  <2>2. isr \cap Master = {2} BY <2>1, <1>1, <1>4 DEF Master, Slave
  <2>3. isr \cap Slave = {l} \ {7, 15} BY <2>1, <1>1, <1>4 DEF Slave
  <2>4. isr \cap Slave = {} \/ isr \cap Slave = {l} BY <2>3
  <2>5. Highest(isr \cap Slave) = isr \cap Slave BY <2>4, <1>1, <1>2, <1>3
  <2>6. Highest(isr \cap Master) = {2} BY <2>2, <1>2
  <2>7. l >= 8 BY <1>4 DEF Slave
  <2> QED BY <2>1, <2>3, <2>5, <2>6, <2>7 DEF SendEOI
<1>5. CASE l \notin Slave
  <2>1. l \in Master /\ ~(l >= 8) BY <1>1, <1>5 DEF Master, Slave
  <2>2. isr = {l} \ {7, 15} BY <1>5 DEF Serving
  <2>3. isr \cap Master = isr /\ (isr = {} \/ isr = {l}) BY <2>1, <2>2
  <2>4. Highest(isr \cap Master) = isr BY <2>3, <1>1, <1>2, <1>3
  <2> QED BY <2>1, <2>4 DEF SendEOI
<1> QED BY <1>4, <1>5

LEMMA HandleLineStep == ASSUME IInv, HandleLine PROVE IInv'
<1>1. pc' \in Places /\ BaseAt' /\ MaskAt' /\ GatesAt' /\ MasksKept'
  BY BootPartsKept DEF HandleLine, bootParts
<1>2. isr' \subseteq isr BY DEF HandleLine, SendEOI
<1>3. pc \notin ResetPlaces BY DEF HandleLine, IInv, ServiceAt
<1>4. cpu' \in {back, "lost"} /\ UNCHANGED <<pc, back>> BY DEF HandleLine
<1>5. ASSUME AfterReset PROVE isr' = {} /\ cpu' = back
  <2>1. vector \notin Misfits BY MisfitsAre DEF HandleLine, LineVectors
  <2>2. isr = Serving(vector) /\ framed
    BY <1>5, <2>1 DEF IInv, InServiceWhileHandled, ServiceAt, FrameAt, HandleLine
  <2> QED BY <2>2, Acknowledged DEF HandleLine
<1>6. ServiceAt'
  BY <1>2, <1>3, <1>4, <1>5 DEF IInv, ServiceAt, FrameAt, AfterReset, ResetPlaces
<1>7. InServiceWhileHandled' /\ FramesFit'
  BY <1>4, <1>5 DEF IInv, ServiceAt, InServiceWhileHandled, FramesFit, AfterReset
<1> QED BY <1>1, <1>6, <1>7 DEF IInv

LEMMA HandleOtherStep == ASSUME IInv, HandleOther PROVE IInv'
<1>1. pc' \in Places /\ BaseAt' /\ MaskAt' /\ GatesAt' /\ MasksKept'
  BY BootPartsKept DEF HandleOther, bootParts, controller
<1>2. pc \notin ResetPlaces BY DEF HandleOther, IInv, ServiceAt
<1>3. cpu' \in {back, "spin", "lost"} /\ UNCHANGED <<pc, back, isr, vector>> BY DEF HandleOther, controller
<1>4. ASSUME AfterReset PROVE isr' = {} /\ (cpu' = "lost" => vector \in Misfits)
  <2>1. isr = Serving(vector) /\ (framed \/ vector \in Misfits) /\ back # "lost"
    BY <1>4 DEF IInv, InServiceWhileHandled, ServiceAt, FrameAt, HandleOther
  <2> QED BY <2>1, <1>3 DEF HandleOther, Serving
<1>5. ServiceAt'
  BY <1>2, <1>3, <1>4 DEF IInv, ServiceAt, FrameAt, AfterReset, ResetPlaces
<1>6. InServiceWhileHandled' /\ FramesFit'
  BY <1>3, <1>4 DEF IInv, ServiceAt, InServiceWhileHandled, FramesFit, AfterReset
<1> QED BY <1>1, <1>5, <1>6 DEF IInv

-------------------------------------------------------------------------------
(* initialize_input *)

LEMMA TwoControllers == 0 .. 15 \subseteq Master \cup Slave
BY DEF Master, Slave

\* While the boot code takes a step no handler runs, so after the reset nothing
\* is in service.
LEMMA BootStep == ASSUME IInv, Boot PROVE IInv'
<1>1. cpu = "code" /\ UNCHANGED <<handling, bios>>
  BY DEF Boot, At, FillGates, LoadIdt, SaveMasks, ResetMaster, ResetSlave, Reset, SetUpMaster, SetUpSlave,
         SetUp, RestoreMaster, RestoreSlave, Restore, ReadMask, WriteMask, InitKeyCodeMap, unchangedByBoot
<1>2. pc' \in Places /\ pc' # "idt" /\ pc # "done"
  BY DEF Boot, At, FillGates, LoadIdt, SaveMasks, ResetMaster, ResetSlave, SetUpMaster, SetUpSlave,
         RestoreMaster, RestoreSlave, ReadMask, WriteMask, InitKeyCodeMap, Places, BeforeReset, SavedPlaces
<1>3. BaseAt'
  BY DEF IInv, BaseAt, Boot, At, FillGates, LoadIdt, SaveMasks, ResetMaster, ResetSlave, Reset, SetUpMaster,
         SetUpSlave, SetUp, RestoreMaster, RestoreSlave, Restore, ReadMask, WriteMask, InitKeyCodeMap,
         controller, NewBase, NoBase, BeforeReset, ResetPlaces
<1>4. MaskAt' /\ MasksKept'
  <2>1. CASE FillGates \/ LoadIdt \/ SaveMasks \/ InitKeyCodeMap
    BY <2>1, <1>1 DEF IInv, MaskAt, MasksKept, At, FillGates, LoadIdt, SaveMasks, InitKeyCodeMap,
         controller, BeforeReset, SavedPlaces
  <2>2. CASE ResetMaster \/ ResetSlave
    <3>1. saved' = bios /\ bios \subseteq Master \cup Slave
      BY <2>2, TwoControllers
         DEF IInv, MaskAt, At, ResetMaster, ResetSlave, Reset, BeforeReset, SavedPlaces
    <3>2. \/ pc' = "icw1 slave" /\ mask' = bios \ Master
          \/ pc' = "icw4 master" /\ mask' = (bios \ Master) \ Slave
      BY <2>2 DEF IInv, MaskAt, At, ResetMaster, ResetSlave, Reset, BeforeReset
    <3>3. (bios \ Master) \ Slave = {} BY <3>1
    <3> QED BY <3>1, <3>2, <3>3, <1>1 DEF IInv, MaskAt, MasksKept, BeforeReset
  <2>3. CASE SetUpMaster \/ SetUpSlave
    BY <2>3, <1>1 DEF IInv, MaskAt, MasksKept, At, SetUpMaster, SetUpSlave, SetUp, BeforeReset, SavedPlaces
  <2>4. CASE RestoreMaster
    <3>1. pc' = "restore slave" /\ mask = {} /\ saved = bios /\ saved' = saved
      BY <2>4 DEF IInv, MaskAt, At, RestoreMaster, Restore, SavedPlaces
    <3>2. mask' = bios \cap Master BY <2>4, <3>1 DEF RestoreMaster, Restore, MasksOf
    <3> QED BY <3>1, <3>2, <1>1 DEF IInv, MaskAt, MasksKept, BeforeReset, SavedPlaces
  <2>5. CASE RestoreSlave
    <3>1. pc' = "read mask" /\ mask = bios \cap Master /\ saved = bios
      BY <2>5 DEF IInv, MaskAt, At, RestoreSlave, SavedPlaces
    <3>2. mask' = ((bios \cap Master) \ Slave) \cup (bios \cap Slave)
      BY <2>5, <3>1 DEF RestoreSlave, Restore, MasksOf
    <3>3. bios \subseteq Master \cup Slave BY TwoControllers DEF IInv, MaskAt
    <3>4. Master \cap Slave = {} BY DEF Master, Slave
    <3>5. mask' = bios BY <3>2, <3>3, <3>4
    <3> QED BY <3>1, <3>5, <1>1 DEF IInv, MaskAt, MasksKept, BeforeReset, SavedPlaces
  <2>6. CASE ReadMask
    <3>1. pc' = "write mask" /\ mask' = mask /\ mask = bios
      BY <2>6 DEF IInv, MaskAt, At, ReadMask, controller
    <3>2. saved' = bios \cap Master BY <2>6, <3>1 DEF ReadMask
    <3> QED BY <3>1, <3>2, <1>1 DEF IInv, MaskAt, MasksKept, BeforeReset, SavedPlaces
  <2>7. CASE WriteMask
    <3>1. pc' = "key map" /\ mask = bios /\ saved = bios \cap Master
      BY <2>7 DEF IInv, MaskAt, At, WriteMask
    <3>2. mask' = (bios \ Master) \cup ((bios \cap Master) \cup {0})
      BY <2>7, <3>1 DEF WriteMask, WithLine
    <3>3. mask' = bios \cup {0} BY <3>2
    <3> QED BY <3>1, <3>3, <1>1 DEF IInv, MaskAt, MasksKept, BeforeReset, SavedPlaces
  <2> QED BY <2>1, <2>2, <2>3, <2>4, <2>5, <2>6, <2>7 DEF Boot
<1>5. GatesAt'
  BY DEF IInv, GatesAt, Boot, At, FillGates, LoadIdt, SaveMasks, ResetMaster, ResetSlave, Reset, SetUpMaster,
         SetUpSlave, SetUp, RestoreMaster, RestoreSlave, Restore, ReadMask, WriteMask, InitKeyCodeMap
<1>6. /\ isr' \subseteq isr
      /\ pc' = "icw1 slave" => isr' \subseteq Slave
      /\ AfterReset' => isr' = {}
  <2>1. CASE ResetMaster
    <3>1. pc' = "icw1 slave" /\ isr' = isr \ Master BY <2>1 DEF At, ResetMaster, Reset
    <3>2. isr \subseteq Master \cup Slave BY TwoControllers DEF IInv, ServiceAt
    <3> QED BY <3>1, <3>2 DEF AfterReset
  <2>2. CASE ResetSlave
    <3>1. pc' = "icw4 master" /\ isr' = isr \ Slave /\ pc = "icw1 slave" BY <2>2 DEF At, ResetSlave, Reset
    <3>2. isr \subseteq Slave BY <3>1 DEF IInv, ServiceAt
    <3> QED BY <3>1, <3>2
  <2>3. CASE FillGates \/ LoadIdt \/ SaveMasks \/ SetUpMaster \/ SetUpSlave \/ RestoreMaster
             \/ RestoreSlave \/ ReadMask \/ WriteMask \/ InitKeyCodeMap
    <3>1. isr' = isr /\ pc' # "icw1 slave" /\ (AfterReset' => AfterReset)
      BY <2>3 DEF At, FillGates, LoadIdt, SaveMasks, SetUpMaster, SetUpSlave, SetUp, RestoreMaster,
         RestoreSlave, Restore, ReadMask, WriteMask, InitKeyCodeMap, controller, AfterReset, BeforeReset
    <3> QED BY <3>1, <1>1 DEF IInv, InServiceWhileHandled
  <2> QED BY <2>1, <2>2, <2>3 DEF Boot
<1>7. ServiceAt' /\ InServiceWhileHandled' /\ FramesFit'
  BY <1>1, <1>6 DEF IInv, ServiceAt, FrameAt, InServiceWhileHandled, FramesFit, handling
<1> QED BY <1>2, <1>3, <1>4, <1>5, <1>7 DEF IInv

-------------------------------------------------------------------------------
(* Programs and devices *)

\* An exception of a program, or one it runs as an instruction.
LEMMA ExceptionStep ==
  ASSUME IInv, Running, NEW v \in 0 .. 31, NEW pushed \in BOOLEAN, Enter(v, pushed),
         (pushed <=> v \in StubsWithoutPush) \/ v \in Misfits,
         UNCHANGED unchangedByPrograms
  PROVE  IInv'
<1>1. UNCHANGED <<pc, isr>> /\ UNCHANGED <<pc, bootParts>> BY DEF unchangedByPrograms, controller, bootParts
<1>2. pc' \in Places /\ BaseAt' /\ MaskAt' /\ GatesAt' /\ MasksKept' BY <1>1, BootPartsKept
<1>3. InterruptsOn /\ v \in 0 .. 255 BY DEF InterruptsOn, Running
<1>4. /\ vector' = v /\ back' \in {"code", "halt"} /\ (framed' \/ v \in Misfits)
      /\ cpu' = "handler" \/ (cpu' = "lost" /\ v \in Overwritten)
  BY <1>3, EntersGate
<1>5. isr = {} BY DEF IInv, InServiceWhileHandled, Running, AfterReset, BeforeReset
<1>6. Serving(v) = {} BY DEF Serving, LineVectors
<1>7. ServiceAt' /\ InServiceWhileHandled' /\ FramesFit'
  BY <1>1, <1>3, <1>4, <1>5, <1>6
     DEF ServiceAt, FrameAt, InServiceWhileHandled, FramesFit, Running, ResetPlaces, AfterReset, Serving
<1> QED BY <1>2, <1>7 DEF IInv

LEMMA FaultStep == ASSUME IInv, NEW v \in Faults, Fault(v) PROVE IInv'
<1>1. v \in 0 .. 31 BY GateAssumption
<1>2. (v \in PushesErrorCode <=> v \in StubsWithoutPush) \/ v \in Misfits BY <1>1 DEF Misfits
<1> DEFINE pushed == v \in PushesErrorCode
<1>3. pushed \in BOOLEAN OBVIOUS
<1>4. Running /\ Enter(v, pushed) /\ UNCHANGED unchangedByPrograms BY DEF Fault
<1>5. (pushed <=> v \in StubsWithoutPush) \/ v \in Misfits BY <1>2
<1> HIDE DEF pushed
<1> QED BY <1>1, <1>3, <1>4, <1>5, ExceptionStep

\* Leaving the processor to a system call or taking it back.
LEMMA CallStep ==
  ASSUME IInv, pc = "done" \/ cpu = "syscall", cpu \in {"code", "syscall"}, cpu' \in {"code", "syscall", "halt"},
         UNCHANGED <<back, unchangedByPrograms>>, cpu = "syscall" => pc \notin ResetPlaces
  PROVE  IInv'
<1>1. UNCHANGED <<pc, isr>> /\ UNCHANGED <<pc, bootParts>> BY DEF unchangedByPrograms, controller, bootParts
<1>2. pc' \in Places /\ BaseAt' /\ MaskAt' /\ GatesAt' /\ MasksKept' BY <1>1, BootPartsKept
<1>3. ServiceAt' /\ InServiceWhileHandled' /\ FramesFit'
  BY <1>1 DEF IInv, ServiceAt, FrameAt, InServiceWhileHandled, FramesFit, ResetPlaces, AfterReset
<1> QED BY <1>2, <1>3 DEF IInv

LEMMA SoftwareInterruptStep ==
  ASSUME IInv, NEW v \in {KeyboardVector, 128}, SoftwareInterrupt(v) PROVE IInv'
<1>1. CASE v = 128
  BY <1>1, CallStep DEF SoftwareInterrupt, UserGates, Running
<1>2. CASE v # 128
  <2>1. Enter(13, TRUE) /\ Running /\ UNCHANGED unchangedByPrograms
    BY <1>2 DEF SoftwareInterrupt, UserGates
  <2>2. 13 \in 0 .. 31 /\ 13 \in StubsWithoutPush BY DEF StubsWithoutPush
  <2> DEFINE pushed == TRUE
  <2>3. pushed \in BOOLEAN /\ Enter(13, pushed) BY <2>1
  <2>4. pushed <=> 13 \in StubsWithoutPush BY <2>2
  <2> HIDE DEF pushed
  <2> QED BY <2>1, <2>2, <2>3, <2>4, ExceptionStep
<1> QED BY <1>1, <1>2

LEMMA SysReturnStep == ASSUME IInv, SysReturn PROVE IInv'
<1>1. pc \notin ResetPlaces BY DEF IInv, ServiceAt, SysReturn
<1> QED BY <1>1, CallStep DEF SysReturn

LEMMA DeviceStep ==
  ASSUME IInv, UNCHANGED <<pc, handling, gates, mask, isr, base, saved, bios>> PROVE IInv'
<1>1. UNCHANGED <<pc, bootParts>> BY DEF bootParts
<1>2. pc' \in Places /\ BaseAt' /\ MaskAt' /\ GatesAt' /\ MasksKept' BY <1>1, BootPartsKept
<1>3. UNCHANGED <<pc, isr, cpu, back, vector, framed>> BY DEF handling
<1>4. UNCHANGED <<pc, isr>> /\ UNCHANGED <<cpu, back, vector>> BY <1>3
<1>5. ServiceAt'
  <2>1. FrameAt' BY <1>3 DEF IInv, ServiceAt, FrameAt, AfterReset
  <2> QED BY <1>4, <2>1 DEF IInv, ServiceAt
<1>6. InServiceWhileHandled' /\ FramesFit'
  BY <1>3 DEF IInv, InServiceWhileHandled, FramesFit, AfterReset, Serving
<1> QED BY <1>2, <1>5, <1>6 DEF IInv

-------------------------------------------------------------------------------

LEMMA Step == IInv /\ [Next]_vars => IInv'
<1> SUFFICES ASSUME IInv, [Next]_vars PROVE IInv' OBVIOUS
<1>1. CASE Boot BY <1>1, BootStep
<1>2. ASSUME NEW l \in Lines, Interrupt(l) PROVE IInv' BY <1>2, InterruptStep
<1>3. ASSUME NEW l \in Lines, Request(l) PROVE IInv' BY <1>3, DeviceStep DEF Request
<1>4. ASSUME NEW l \in {7, 15}, Spurious(l) PROVE IInv' BY <1>4, SpuriousStep
<1>5. CASE HandleLine \/ HandleOther BY <1>5, HandleLineStep, HandleOtherStep
<1>6. ASSUME NEW v \in {KeyboardVector, 128}, SoftwareInterrupt(v) PROVE IInv' BY <1>6, SoftwareInterruptStep
<1>7. ASSUME NEW v \in Faults, Fault(v) PROVE IInv' BY <1>7, FaultStep
<1>8. CASE SysReturn BY <1>8, SysReturnStep
<1>9. CASE Press BY <1>9, DeviceStep DEF Press
<1>10. CASE UNCHANGED vars BY <1>10, DeviceStep DEF vars, controller
<1> QED BY <1>1, <1>2, <1>3, <1>4, <1>5, <1>6, <1>7, <1>8, <1>9, <1>10 DEF Next

\* What the theorems below are parts of.
LEMMA Invariant == Spec => []IInv
BY InitIsGood, Step, PTL DEF Spec

\* Whatever lines and firmware there are: after the reset exactly the line of the
\* running handler is in service, so that no device is ever blocked for good,
\* unless the processor itself is lost.
THEOREM ServiceEnds == Spec => []InServiceWhileHandled
<1>1. IInv => InServiceWhileHandled BY DEF IInv
<1> QED BY <1>1, Invariant, PTL

\* After the reset no handler returns through a frame that is not its own, but
\* those of the exceptions 7 and 8, whose stubs are each for the other kind; and no
\* gate leads nowhere but one that later calls have overwritten.
THEOREM StubsFit == Spec => []FramesFit
<1>1. IInv => FramesFit BY DEF IInv
<1> QED BY <1>1, Invariant, PTL

\* initialize_input leaves every line masked as the firmware had it, but the timer.
THEOREM MasksRestored == Spec => []MasksKept
<1>1. IInv => MasksKept BY DEF IInv
<1> QED BY <1>1, Invariant, PTL
===============================================================================
