-------------------------- MODULE LC3MachineProofs --------------------------
(***************************************************************************)
(* The properties of LC3Machine and LC3MachineRun, for every program,      *)
(* every setting of the privilege encoding and of the protection register, *)
(* and every sequence of interrupts.                                       *)
(*                                                                         *)
(* MachineInv is the inductive invariant of the clocked machine:           *)
(* MachineTypeOK, CoreFlow and the freshness of the word on mem_rdata.     *)
(* RunInv adds, for every state of the controller, how far the instruction *)
(* or the entry into a handler has come since the last boundary; from it   *)
(* follows that the machine implements LC3ISA.  NestInv and RestoreInv     *)
(* relate the contexts of the interrupted programs to the registers.       *)
(***************************************************************************)
EXTENDS LC3MachineRun, LC3CoreProofs

MachineInv == MachineTypeOK /\ CoreFlow /\ ReadDataFresh

\* What the core sees on its inputs has the width of the ports.
LEMMA InputsTyped == ASSUME MachineTypeOK
                     PROVE  CoreInputs \in CoreInput
  BY DEF MachineTypeOK, CoreInputs, CoreInput, Irq

\* A state that consumes a read is entered from the wait state only: the
\* memory forms of FETCH_MEM and EXEC_STORE that skip the wait do not use it.
LEMMA OnlyWaitDelivers ==
  ASSUME CoreFlow, NEW in, CoreStep(in), UsesReadData'
  PROVE  MemWait(in)
  <1>1. SUFFICES ASSUME ~MemWait(in) PROVE FALSE
    OBVIOUS
  <1>2. CASE FetchInstruction(in) \/ FetchMem(in) \/ FetchIndirectPtr(in)
    BY <1>2 DEF FetchInstruction, FetchMem, FetchIndirectPtr, IssueRead,
                AccessFault, UsesReadData
  <1>3. CASE AcceptInterrupt(in) \/ LatchIR(in)
    BY <1>3 DEF AcceptInterrupt, LatchIR, UsesReadData
  <1>4. CASE Decode(in)
    BY <1>4 DEF Decode, Dispatch, UsesReadData, OP_BR, OP_ADD, OP_AND,
                OP_NOT, OP_LEA, OP_LD, OP_LDR, OP_ST, OP_STR, OP_LDI,
                OP_STI, OP_TRAP, OP_JMP, OP_JSR, OP_RTI
  <1>5. CASE ExecBR(in) \/ ExecALU(in) \/ ExecLEA(in) \/ ExecJMP(in)
             \/ ExecJSR(in) \/ RegWriteback(in) \/ ExecTrap(in)
             \/ WriteStore(in) \/ PsrWrite(in) \/ IntSetPC(in)
    BY <1>5 DEF ExecBR, ExecALU, ExecLEA, ExecJMP, ExecJSR, RegWriteback,
                ExecTrap, WriteStore, PsrWrite, IntSetPC, UsesReadData
  <1>6. CASE PcWrite(in)
    <2>1. Opcode(ir) = OP_RTI /\ ir' = ir /\ state' = "FETCH_MEM"
      BY <1>6 DEF PcWrite, CoreFlow, RtiPrivileged, InRti, Bound
    <2>2. Opcode(ir') = OP_RTI
      BY <2>1
    <2> QED
      BY <2>1, <2>2 DEF UsesReadData, OP_RTI, OP_LDI
  <1>7. CASE ExecStore(in)
    BY <1>7 DEF ExecStore, IssueWrite, AccessFault, UsesReadData
  <1>8. CASE IntPushPSR(in) \/ IntPushPC(in) \/ IntWriteComplete(in)
    BY <1>8 DEF IntPushPSR, IntPushPC, IntWriteComplete, Push, IssueWrite,
                IssueRead, AccessFault, UsesReadData
  <1>9. CASE Halted(in)
    BY <1>9 DEF Halted, coreVars, UsesReadData
  <1> QED
    BY <1>1, <1>2, <1>3, <1>4, <1>5, <1>6, <1>7, <1>8, <1>9 DEF CoreStep
-----------------------------------------------------------------------------
\* MachineInv holds after reset.
LEMMA MachineInvInit == MachineInit => MachineInv
  <1>1. SUFFICES ASSUME MachineInit PROVE MachineInv
    OBVIOUS
  <1>2. CoreTypeOK /\ CoreFlow
    BY <1>1, CoreTypeInit, CoreFlowInit DEF MachineInit
  <1>3. IsMemory(mem) /\ mem_rdata \in Word /\ mpr \in Word /\ irq \in Irq
    BY <1>1, MachineParameters, Literals DEF MachineInit
  <1>4. ReadDataFresh
    BY <1>1 DEF MachineInit, CoreInit, ReadDataFresh, UsesReadData
  <1> QED
    BY <1>2, <1>3, <1>4 DEF MachineInv, MachineTypeOK

\* A step of the machine is a clock edge of the core on typed inputs.
LEMMA MachineInvStep ==
  ASSUME MachineInv, Clock
  PROVE  MachineInv'
  <1>1. CoreInputs \in CoreInput /\ CoreClock(CoreInputs)
    BY InputsTyped DEF MachineInv, Clock
  <1>2. CoreTypeOK' /\ CoreFlow'
    BY <1>1, CoreTypeStep, CoreFlowStep DEF MachineInv, MachineTypeOK
  <1>3. IsMemory(mem)' /\ mem_rdata' \in Word
    BY MemoryType DEF MachineInv, MachineTypeOK, CoreTypeOK, Clock,
                      MemoryClock
  <1>4. mpr' \in Word /\ irq' \in Irq
    BY MachineParameters DEF MachineInv, MachineTypeOK, Clock, InputsChange
  <1>5. ReadDataFresh'
    <2>1. SUFFICES ASSUME UsesReadData'
                   PROVE  mem_rdata' = Peek(mem', mem_addr')
      BY DEF ReadDataFresh
    <2>2. CoreStep(CoreInputs)
      BY <1>1 DEF CoreClock, CoreFrozen, CoreInputs
    <2>3. MemWait(CoreInputs)
      BY <2>1, <2>2, OnlyWaitDelivers DEF MachineInv
    <2>4. ~mem_we /\ mem_addr' = mem_addr
      BY <2>3 DEF MemWait, bus, MachineInv, CoreFlow, StrobeDrops
    <2> QED
      BY <2>4 DEF Clock, MemoryClock
  <1> QED
    BY <1>2, <1>3, <1>4, <1>5 DEF MachineInv, MachineTypeOK

\* A step that leaves the machine alone keeps MachineInv.
LEMMA MachineInvStutter ==
  ASSUME MachineInv, UNCHANGED machineVars
  PROVE  MachineInv'
  BY DEF machineVars, coreVars, MachineInv, MachineTypeOK, CoreTypeOK,
         CoreFlow, ReadReturns, RtiPrivileged, RtiHalfDone, VectorOnBus,
         PushOnBus, StrobeDrops, Bound, InRti, ReadDataFresh, UsesReadData

\* Every register and every word of memory keeps its width, the controller
\* stays within its states, and what it assumes of the reads, of RTI, of the
\* vectors and of the write strobe always holds.
THEOREM MachineInvariant == MachineSpec => []MachineInv
  <1>1. MachineInv /\ [Clock]_machineVars => MachineInv'
    BY MachineInvStep, MachineInvStutter
  <1> QED
    BY MachineInvInit, <1>1, PTL DEF MachineSpec

\* Every register holds a value of its width.
THEOREM MachineTypeCorrect == MachineSpec => []MachineTypeOK
  BY MachineInvariant, PTL DEF MachineInv

\* A state that consumes mem_rdata finds the present contents of the word it
\* asked for.
THEOREM ReadsAreFresh == MachineSpec => []ReadDataFresh
  BY MachineInvariant, PTL DEF MachineInv

\* The write strobe is up for one clock per store or push.
THEOREM StrobesDrop == MachineSpec => []StrobeDrops
  <1>1. MachineInv => StrobeDrops
    BY DEF MachineInv, CoreFlow
  <1> QED
    BY MachineInvariant, <1>1, PTL

\* No RTI is left half done when the next instruction starts.
THEOREM RtisComplete == MachineSpec => []RtiComplete
  <1>1. MachineInv => RtiComplete
    BY DEF MachineInv, CoreFlow, RtiHalfDone, Bound, RtiComplete
  <1> QED
    BY MachineInvariant, <1>1, PTL
-----------------------------------------------------------------------------
\* Nothing is read or written that the present privilege does not allow,
\* but the word of a trap vector.
THEOREM AccessesAuthorised == MachineSpec => []BusAuthorised
  <1>1. MachineInit => BusAuthorised
    BY DEF MachineInit, CoreInit, BusAuthorised
  <1>2. ASSUME MachineInv, Clock
        PROVE  BusAuthorised'
    <2>1. CoreInputs \in CoreInput /\ CoreInputs.mpr = mpr /\ mpr' = mpr
      BY <1>2, InputsTyped DEF MachineInv, CoreInputs, Clock, InputsChange
    <2>2. CoreStep(CoreInputs)
      BY <1>2 DEF Clock, CoreClock, CoreFrozen, CoreInputs
    <2>3. SUFFICES ASSUME mem_we' \/ state' = "MEM_WAIT"
                   PROVE  \/ CanAccess(psr', mpr', mem_addr')
                          \/ /\ ~mem_we'
                             /\ return_state' = "EXEC_TRAP"
                             /\ mem_addr' \in Byte
      BY DEF BusAuthorised, CanAccess, IsSupervisor, PageOpen
    <2>4. \/ psr' = psr /\ CanAccess(psr, CoreInputs.mpr, mem_addr')
          \/ ~mem_we' /\ return_state' = "EXEC_TRAP" /\ mem_addr' \in Byte
      BY <1>2, <2>1, <2>2, <2>3, BusStep DEF MachineInv, MachineTypeOK
    <2> QED
      BY <2>1, <2>4
  <1>3. ASSUME BusAuthorised, UNCHANGED machineVars
        PROVE  BusAuthorised'
    BY <1>3 DEF machineVars, coreVars, BusAuthorised, CanAccess,
                IsSupervisor, PageOpen
  <1>4. MachineInv /\ BusAuthorised /\ [Clock]_machineVars => BusAuthorised'
    BY <1>2, <1>3
  <1> QED
    BY <1>1, <1>4, MachineInvariant, PTL DEF MachineSpec
-----------------------------------------------------------------------------
\* The part of ReturnsToFetch that is not about fairness.
InstructionsEnd == /\ [][~Boundary => EdgesLeft' < EdgesLeft]_machineVars
                   /\ [](EdgesLeft \in 0 .. 9)
                   /\ [](EdgesLeft = 0 <=> Boundary)

\* The controller of lc3_core goes round no loop: whatever the instruction,
\* the words it reads and the inputs, every clock edge brings the core nearer
\* to the start of the next instruction, which is ten edges away at the most.
THEOREM InstructionsTerminate == MachineSpec => InstructionsEnd
  <1>1. MachineInv => EdgesLeft \in 0 .. 9 /\ (EdgesLeft = 0 <=> Boundary)
    BY EdgesBounded DEF MachineInv, MachineTypeOK, Boundary
  <1>2. ASSUME MachineInv, Clock, ~Boundary
        PROVE  EdgesLeft' < EdgesLeft
    <2>1. CoreInputs \in CoreInput
      BY <1>2, InputsTyped DEF MachineInv
    <2>2. CoreStep(CoreInputs)
      BY <1>2 DEF Clock, CoreClock, CoreFrozen, CoreInputs
    <2> QED
      BY <1>2, <2>1, <2>2, StepCountsDown
      DEF MachineInv, MachineTypeOK, Boundary
  <1>3. MachineInv /\ [Clock]_machineVars
          => [~Boundary => EdgesLeft' < EdgesLeft]_machineVars
    BY <1>2
  <1> QED
    BY <1>1, <1>3, MachineInvariant, PTL DEF MachineSpec, InstructionsEnd
-----------------------------------------------------------------------------
\* Only TRAP and the entry into an interrupt handler set the privilege.
LEMMA PrivilegeStep ==
  ASSUME CoreTypeOK, CoreFlow, NEW in \in CoreInput, CoreStep(in),
         ~IsSupervisor(psr), IsSupervisor(psr')
  PROVE  ExecTrap(in) \/ IntSetPC(in)
  <1>1. ModeBit(psr') # ModeBit(psr)
    BY DEF IsSupervisor
  <1>2. SUFFICES ASSUME ~ExecTrap(in), ~IntSetPC(in) PROVE FALSE
    OBVIOUS
  <1>3. psr \in Word /\ in.mem_rdata \in Word
    BY DEF CoreTypeOK, CoreInput
  <1>4. psr' # psr
    BY <1>1
  <1>5. CASE ExecALU(in) \/ ExecLEA(in) \/ RegWriteback(in)
    <2>1. PICK v \in Word : WriteRegister(v)
      BY <1>3, <1>5, AluType, AddressTypes DEF ExecALU, ExecLEA,
         RegWriteback
    <2> QED
      BY <1>1, <1>3, <2>1, SetFlagsType DEF WriteRegister
  <1>6. CASE ExecJMP(in)
    <2>1. PICK b \in {0, 1} : b = UserBit
      BY ModeBits
    <2>2. psr' = SetModeBit(psr, b)
      BY <1>1, <1>6, <2>1 DEF ExecJMP
    <2>3. ModeBit(psr') = UserBit
      BY <1>3, <2>1, <2>2, SetModeBitType
    <2> QED
      BY <2>3 DEF IsSupervisor, UserBit, SupervisorBit
  <1>7. CASE PsrWrite(in)
    BY <1>7 DEF PsrWrite, CoreFlow, RtiPrivileged, InRti, Bound
  <1>8. ~ (FetchInstruction(in) \/ AcceptInterrupt(in) \/ LatchIR(in)
           \/ Decode(in) \/ ExecBR(in) \/ ExecJSR(in))
    BY <1>4 DEF FetchInstruction, AcceptInterrupt, LatchIR, Decode, ExecBR,
                ExecJSR
  <1>9. ~ (MemWait(in) \/ FetchIndirectPtr(in) \/ FetchMem(in)
           \/ ExecStore(in) \/ WriteStore(in) \/ PcWrite(in))
    BY <1>4 DEF MemWait, FetchIndirectPtr, FetchMem, ExecStore, WriteStore,
                PcWrite
  <1>10. ~ (IntPushPSR(in) \/ IntPushPC(in))
    <2>1. ASSUME NEW data, NEW next, Push(in, data, next)
          PROVE  psr' = psr
      BY <2>1 DEF Push
    <2> QED
      BY <1>4, <2>1 DEF IntPushPSR, IntPushPC
  <1>11. ~ (IntWriteComplete(in) \/ Halted(in))
    BY <1>4 DEF IntWriteComplete, Halted, coreVars
  <1> QED
    BY <1>2, <1>5, <1>6, <1>7, <1>8, <1>9, <1>10, <1>11
    DEF CoreStep

\* User code gains the supervisor privilege only together with a jump to an
\* address that a trap or an interrupt vector holds.
THEOREM PrivilegeGuarded == MachineSpec => PrivilegeOnlyThroughVectors
  <1> DEFINE Entered == \E v \in VectorTable : pc' = Peek(mem, v)
  <1>1. ASSUME MachineInv, Clock, ~IsSupervisor(psr), IsSupervisor(psr')
        PROVE  Entered
    <2>1. CoreInputs \in CoreInput /\ CoreInputs.mem_rdata = mem_rdata
      BY <1>1, InputsTyped DEF MachineInv, CoreInputs
    <2>2. CoreStep(CoreInputs)
      BY <1>1 DEF Clock, CoreClock, CoreFrozen, CoreInputs
    <2>3. ExecTrap(CoreInputs) \/ IntSetPC(CoreInputs)
      BY <1>1, <2>1, <2>2, PrivilegeStep DEF MachineInv, MachineTypeOK
    <2>4. pc' = mem_rdata /\ UsesReadData
      BY <2>1, <2>3 DEF ExecTrap, IntSetPC, UsesReadData
    <2>5. pc' = Peek(mem, mem_addr)
      BY <1>1, <2>4 DEF MachineInv, ReadDataFresh
    <2>6. mem_addr \in Nat /\ mem_addr < 512
      BY <1>1, <2>3 DEF ExecTrap, IntSetPC, MachineInv, CoreFlow,
         VectorOnBus, Bound, Byte, MachineTypeOK, CoreTypeOK, Word
    <2>7. mem_addr \in VectorTable
      BY <2>6 DEF VectorTable
    <2> QED
      BY <2>5, <2>7
  <1>2. ASSUME MachineInv, [Clock]_machineVars
        PROVE  [~IsSupervisor(psr) /\ IsSupervisor(psr') => Entered]_
                 machineVars
    BY <1>1, <1>2
  <1> QED
    BY <1>2, MachineInvariant, PTL DEF MachineSpec,
       PrivilegeOnlyThroughVectors
-----------------------------------------------------------------------------
(***************************************************************************)
(* The instruction set.  Between two instruction boundaries the registers  *)
(* of the core say how far the instruction has come, and what is to be     *)
(* seen of it is still what `arch' recorded at the boundary: RunInv says   *)
(* it state by state.                                                      *)
(***************************************************************************)
\* The core is executing an instruction.
Executing == ~Boundary /\ ~Handling

\* The instruction that the boundary precedes.
Instruction == Peek(arch.mem, arch.pc)

\* Nothing is seen of an instruction before its last clock, and it was fetched
\* lawfully.
InstructionHidden ==
    Executing =>
      /\ regs = arch.regs /\ psr = arch.psr
      /\ ssp = arch.ssp /\ usp = arch.usp
      /\ mem = arch.mem /\ ~arch.stopped
      /\ CanAccess(psr, mpr, arch.pc)

\* The PC of an RTI has been popped, and its PSR is asked for.
PcPopped == Bound("PSR_WRITE") \/ (state = "FETCH_MEM" /\ pc_loaded)

InstructionFetched ==
    /\ Bound("LATCH_IR") => pc = arch.pc /\ mem_addr = pc
    /\ Executing /\ ~Bound("LATCH_IR") =>
         /\ ir = Instruction
         /\ pc = IF PcPopped THEN Peek(mem, regs[6]) ELSE Plus(arch.pc, 1)

\* The word of data the instruction in ir addresses, its accesses allowed.
DataAddress == CASE Opcode(ir) \in {OP_LD, OP_ST}   -> PcRelative9
                 [] Opcode(ir) \in {OP_LDI, OP_STI} -> Peek(mem, PcRelative9)
                 [] OTHER                           -> BaseOffset

PointerAllowed ==
    Opcode(ir) \in {OP_LDI, OP_STI} => CanAccess(psr, mpr, PcRelative9)

DataOnBus == /\ mem_addr = DataAddress
             /\ PointerAllowed
             /\ CanAccess(psr, mpr, DataAddress)

\* The controller is where the operation code leads.
InstructionDecoded ==
    /\ state = "EXEC_BR" => Opcode(ir) = OP_BR
    /\ state = "EXEC_ALU" => Opcode(ir) \in {OP_ADD, OP_AND, OP_NOT}
    /\ state = "EXEC_LEA" => Opcode(ir) = OP_LEA
    /\ state = "EXEC_JMP" => Opcode(ir) = OP_JMP
    /\ state = "EXEC_JSR" => Opcode(ir) = OP_JSR
    /\ state = "FETCH_INDIRECT_PTR" =>
         Opcode(ir) \in {OP_LDI, OP_STI, OP_TRAP}
    /\ Bound("FETCH_MEM") => Opcode(ir) \in {OP_LD, OP_LDR, OP_LDI, OP_RTI}
    /\ Bound("EXEC_STORE") => Opcode(ir) \in {OP_ST, OP_STR, OP_STI}
    /\ Bound("REG_WRITEBACK") => Opcode(ir) \in {OP_LD, OP_LDR, OP_LDI}
    /\ state = "WRITE_STORE" => Opcode(ir) \in {OP_ST, OP_STR, OP_STI}
    /\ Bound("EXEC_TRAP") => Opcode(ir) = OP_TRAP

\* The bus carries what the instruction needs next.
InstructionOnBus ==
    /\ Bound("EXEC_TRAP") => mem_addr = TrapVector(ir)
    /\ \/ Bound("FETCH_MEM") /\ Opcode(ir) = OP_LDI
       \/ Bound("EXEC_STORE") /\ Opcode(ir) = OP_STI
       => mem_addr = PcRelative9 /\ PointerAllowed
    /\ Bound("REG_WRITEBACK") => DataOnBus
    /\ state = "WRITE_STORE" =>
         DataOnBus /\ mem_we /\ mem_wdata = regs[DR(ir)]
    /\ Bound("PC_WRITE") => mem_addr = regs[6]
    /\ Bound("PSR_WRITE") => mem_addr = Plus(regs[6], 1)

\* The frame an interrupt leaves on the supervisor stack.
FrameTop     == IF IsSupervisor(psr) THEN arch.regs[6] ELSE arch.ssp
FrameSlot(n) == Plus(FrameTop, 65536 - n)
FrameRegs(n) == [arch.regs EXCEPT ![6] = FrameSlot(n)]
Frame1       == Poke(arch.mem, FrameSlot(1), psr)
Frame2       == Poke(Frame1, FrameSlot(2), pc)

\* The entry into a handler has pushed so much of the frame.
HandlerEntered ==
    Handling =>
      /\ irq.pending /\ irq.priority > Priority(psr)
      /\ pc = arch.pc /\ psr = arch.psr /\ ssp = arch.ssp /\ ~arch.stopped
      /\ usp = IF IsSupervisor(psr) THEN arch.usp ELSE arch.regs[6]
      /\ FrameTop \in Word

FramePushed ==
    /\ state = "INT_PUSH_PSR" => regs = FrameRegs(0) /\ mem = arch.mem
    /\ state = "INT_PUSH_PC" =>
         /\ regs = FrameRegs(1) /\ mem = arch.mem
         /\ mem_we /\ mem_addr = FrameSlot(1) /\ mem_wdata = psr
         /\ CanAccess(psr, mpr, FrameSlot(1))
    /\ state = "INT_WRITE_COMPLETE" =>
         /\ regs = FrameRegs(2) /\ mem = Frame1
         /\ mem_we /\ mem_addr = FrameSlot(2) /\ mem_wdata = pc
         /\ CanAccess(psr, mpr, FrameSlot(1))
         /\ CanAccess(psr, mpr, FrameSlot(2))
    /\ Bound("INT_SET_PC") =>
         /\ regs = FrameRegs(2) /\ mem = Frame2
         /\ mem_addr = 256 + irq.vector
         /\ CanAccess(psr, mpr, FrameSlot(1))
         /\ CanAccess(psr, mpr, FrameSlot(2))
         /\ CanAccess(psr, mpr, mem_addr)

RunInv == /\ MachineInv
          /\ irq \in Irqs
          /\ Boundary => arch = Visible
          /\ InstructionHidden
          /\ InstructionFetched
          /\ InstructionDecoded
          /\ InstructionOnBus
          /\ HandlerEntered
          /\ FramePushed
-----------------------------------------------------------------------------
\* What a clock edge does beside the action of the core.
LEMMA RunStep ==
  ASSUME RunInv, Clock, Record
  PROVE  /\ MachineInv'
         /\ CoreStep(CoreInputs)
         /\ mpr' = mpr /\ irq' \in Irqs /\ (state' # "FETCH" => irq' = irq)
         /\ mem' = IF mem_we THEN Poke(mem, mem_addr, mem_wdata) ELSE mem
         /\ ~Boundary' => arch' = arch
         /\ Boundary' => arch' = Visible'
  <1>1. MachineInv'
    BY MachineInvStep DEF RunInv
  <1>2. CoreStep(CoreInputs)
    BY DEF Clock, CoreClock, CoreFrozen, CoreInputs
  <1>3. /\ mpr' = mpr /\ irq' \in Irqs /\ (state' # "FETCH" => irq' = irq)
        /\ mem' = IF mem_we THEN Poke(mem, mem_addr, mem_wdata) ELSE mem
    BY DEF Clock, MemoryClock, InputsChange, RunInv
  <1>4. /\ ~Boundary' => arch' = arch
        /\ Boundary' => arch' = Visible'
    BY DEF Record
  <1> QED
    BY <1>1, <1>2, <1>3, <1>4

\* What the core sees of them.
LEMMA InputsSeen ==
  /\ CoreInputs.mem_rdata = mem_rdata
  /\ CoreInputs.mpr = mpr
  /\ CoreInputs.irq_pending = irq.pending
  /\ CoreInputs.irq_priority = irq.priority
  /\ CoreInputs.irq_vector = irq.vector
  BY DEF CoreInputs

\* At an instruction boundary arch is what is visible.
LEMMA ArchAtBoundary ==
  ASSUME RunInv, Boundary
  PROVE  /\ arch.regs = regs /\ arch.pc = pc /\ arch.psr = psr
         /\ arch.ssp = ssp /\ arch.usp = usp /\ arch.mem = mem
         /\ arch.stopped = (state = "HALT")
  BY DEF RunInv, Visible

\* Before the next boundary nothing is recorded.
LEMMA BoundaryInv ==
  ASSUME RunInv, Clock, Record, Boundary'
  PROVE  RunInv'
  BY RunStep DEF RunInv, Boundary, Executing, Handling, Bound,
     InstructionHidden, InstructionFetched, InstructionDecoded,
     InstructionOnBus, HandlerEntered, FramePushed

\* FETCH asks for the instruction at the PC.
LEMMA FetchSilent ==
  ASSUME RunInv, Clock, Record, ~Boundary',
         FetchInstruction(CoreInputs)
  PROVE  RunInv'
  <1>1. /\ state = "FETCH" /\ state' = "MEM_WAIT"
        /\ return_state' = "LATCH_IR" /\ mem_addr' = pc
        /\ CanAccess(psr, mpr, pc)
        /\ regs' = regs /\ pc' = pc /\ psr' = psr /\ ssp' = ssp /\ usp' = usp
        /\ mem' = mem /\ mpr' = mpr /\ arch' = arch
        /\ irq' \in Irqs /\ MachineInv'
    BY RunStep, InputsSeen
    DEF FetchInstruction, IssueRead, AccessFault, Boundary, RunInv,
        MachineInv, CoreFlow, StrobeDrops
  <1>2. /\ arch.regs = regs /\ arch.pc = pc /\ arch.psr = psr
        /\ arch.ssp = ssp /\ arch.usp = usp /\ arch.mem = mem
        /\ ~arch.stopped
    BY <1>1, ArchAtBoundary DEF Boundary
  <1>3. InstructionHidden' /\ InstructionFetched'
    BY <1>1, <1>2 DEF InstructionHidden, InstructionFetched, Executing,
       Handling,
       Bound, CanAccess, IsSupervisor, PageOpen
  <1> QED
    BY <1>1, <1>3 DEF RunInv, Boundary, Executing, Handling,
       Bound,
       InstructionDecoded, InstructionOnBus, HandlerEntered, FramePushed
\* Conclusions of a clock edge in the middle of an instruction.
LEMMA InstructionSilent ==
  ASSUME RunInv, Clock, Record, ~Boundary', Executing
  PROVE  /\ MachineInv' /\ irq' \in Irqs
         /\ mpr' = mpr /\ arch' = arch /\ CoreStep(CoreInputs)
         /\ state # "WRITE_STORE" => mem' = mem
         /\ regs = arch.regs /\ psr = arch.psr
         /\ ssp = arch.ssp /\ usp = arch.usp
         /\ mem = arch.mem /\ ~arch.stopped
         /\ CanAccess(psr, mpr, arch.pc)
  BY RunStep DEF RunInv, MachineInv, CoreFlow, StrobeDrops, Executing,
     Handling, InstructionHidden

\* LATCH_IR takes the word at the PC of the boundary as the instruction.
LEMMA LatchSilent ==
  ASSUME RunInv, Clock, Record, LatchIR(CoreInputs)
  PROVE  RunInv'
  <1>1. /\ state = "LATCH_IR" /\ state' = "DECODE"
        /\ ir' = mem_rdata /\ pc' = Plus(pc, 1)
        /\ regs' = regs /\ psr' = psr /\ ssp' = ssp /\ usp' = usp
        /\ pc_loaded' = pc_loaded
    BY InputsSeen DEF LatchIR
  <1>2. /\ ~Boundary' /\ Executing
        /\ pc = arch.pc /\ mem_addr = pc /\ mem_rdata = Peek(mem, mem_addr)
    BY <1>1 DEF Boundary, Executing, Handling, Bound, RunInv,
       InstructionFetched, MachineInv, ReadDataFresh, UsesReadData
  <1>3. /\ MachineInv' /\ irq' \in Irqs
        /\ mpr' = mpr /\ arch' = arch /\ mem' = mem
        /\ regs = arch.regs /\ psr = arch.psr
        /\ ssp = arch.ssp /\ usp = arch.usp
        /\ mem = arch.mem /\ ~arch.stopped
        /\ CanAccess(psr, mpr, arch.pc)
    BY <1>1, <1>2, InstructionSilent
  <1>4. ir' = Instruction' /\ pc' = Plus(arch'.pc, 1)
    BY <1>1, <1>2, <1>3 DEF Instruction
  <1> QED
    BY <1>1, <1>3, <1>4 DEF RunInv, Boundary, Executing, Handling,
       Bound, PcPopped, InstructionHidden,
       InstructionFetched, InstructionDecoded, InstructionOnBus,
       HandlerEntered, FramePushed

\* DECODE leads to the state of the operation code, whatever word it is.
LEMMA DecodeSilent ==
  ASSUME RunInv, Clock, Record, ~Boundary', Decode(CoreInputs)
  PROVE  RunInv'
  <1>1. /\ state = "DECODE" /\ state' = Dispatch(Opcode(ir), psr)
        /\ ir' = ir /\ pc' = pc /\ regs' = regs /\ psr' = psr
        /\ ssp' = ssp /\ usp' = usp /\ pc_loaded' = pc_loaded
    BY DEF Decode
  <1>2. Executing /\ ~pc_loaded
    BY <1>1 DEF Boundary, Executing, Handling, Bound, RunInv,
       MachineInv, CoreFlow, RtiHalfDone
  <1>3. /\ MachineInv' /\ irq' \in Irqs
        /\ mpr' = mpr /\ arch' = arch /\ mem' = mem
    BY <1>1, <1>2, InstructionSilent
  <1>4. /\ state' = "EXEC_BR" => Opcode(ir) = OP_BR
        /\ state' = "EXEC_ALU" => Opcode(ir) \in {OP_ADD, OP_AND, OP_NOT}
        /\ state' = "EXEC_LEA" => Opcode(ir) = OP_LEA
        /\ state' = "EXEC_JMP" => Opcode(ir) = OP_JMP
        /\ state' = "EXEC_JSR" => Opcode(ir) = OP_JSR
        /\ state' = "FETCH_INDIRECT_PTR" =>
             Opcode(ir) \in {OP_LDI, OP_STI, OP_TRAP}
        /\ state' = "FETCH_MEM" => Opcode(ir) \in {OP_LD, OP_LDR, OP_RTI}
        /\ state' = "EXEC_STORE" => Opcode(ir) \in {OP_ST, OP_STR}
    BY <1>1 DEF Dispatch
  <1>5. state' \in {"EXEC_BR", "EXEC_ALU", "EXEC_LEA", "EXEC_JMP",
                    "EXEC_JSR", "FETCH_INDIRECT_PTR", "FETCH_MEM",
                    "EXEC_STORE", "HALT"}
    BY <1>1 DEF Dispatch
  <1>6. /\ InstructionHidden' /\ InstructionFetched'
        /\ HandlerEntered' /\ FramePushed'
    BY <1>1, <1>2, <1>3, <1>5 DEF RunInv, Boundary, Executing, Handling,
       Bound, PcPopped, InstructionHidden,
       InstructionFetched, Instruction, HandlerEntered, FramePushed
  <1>7. InstructionDecoded' /\ InstructionOnBus'
    BY <1>1, <1>4, <1>5 DEF InstructionDecoded, InstructionOnBus, Bound,
       OP_LD, OP_LDR, OP_RTI, OP_LDI, OP_ST, OP_STR, OP_STI
  <1> QED
    BY <1>3, <1>6, <1>7 DEF RunInv

\* The wait state changes nothing but the word on mem_rdata.
LEMMA WaitSilent ==
  ASSUME RunInv, Clock, Record, MemWait(CoreInputs)
  PROVE  RunInv'
  <1>1. /\ state = "MEM_WAIT" /\ state' = return_state
        /\ return_state' = return_state
        /\ ir' = ir /\ pc' = pc /\ regs' = regs /\ psr' = psr
        /\ ssp' = ssp /\ usp' = usp /\ pc_loaded' = pc_loaded
        /\ mem_addr' = mem_addr
    BY DEF MemWait, bus
  <1>2. /\ return_state \in {"LATCH_IR", "FETCH_MEM", "REG_WRITEBACK",
                             "PC_WRITE", "PSR_WRITE", "EXEC_STORE",
                             "EXEC_TRAP", "INT_SET_PC"}
        /\ return_state # "PSR_WRITE" => ~pc_loaded
        /\ ~mem_we
    BY <1>1 DEF RunInv, MachineInv, CoreFlow, ReadReturns, RtiHalfDone,
       StrobeDrops, Bound
  <1>3. /\ MachineInv' /\ irq' = irq /\ irq' \in Irqs
        /\ mpr' = mpr /\ arch' = arch /\ mem' = mem
    BY <1>1, <1>2, RunStep DEF Boundary
  <1>4. InstructionHidden' /\ InstructionFetched'
    BY <1>1, <1>2, <1>3 DEF RunInv, Boundary, Executing, Handling,
       Bound, PcPopped, InstructionHidden,
       InstructionFetched, Instruction
  <1>5. HandlerEntered'
    <2>1. FrameTop' = FrameTop
      BY <1>1, <1>3 DEF FrameTop
    <2>2. Handling' => Handling
      BY <1>1, <1>2 DEF Handling, Bound
    <2> QED
      BY <1>1, <1>3, <2>1, <2>2 DEF RunInv, HandlerEntered
  <1>6. InstructionDecoded'
    BY <1>1, <1>2, <1>3 DEF RunInv, InstructionDecoded, Bound
  <1>7. InstructionOnBus'
    <2>1. PcRelative9' = PcRelative9 /\ DataAddress' = DataAddress
      BY <1>1, <1>3 DEF DataAddress, PcRelative9, BaseOffset
    <2>2. /\ PointerAllowed' = PointerAllowed
          /\ DataOnBus' = DataOnBus
      BY <1>1, <1>3, <2>1 DEF DataOnBus, PointerAllowed
    <2> QED
      BY <1>1, <1>2, <2>1, <2>2 DEF RunInv, InstructionOnBus, Bound
  <1>8. FramePushed'
    <2>1. FrameTop' = FrameTop
      BY <1>1, <1>3 DEF FrameTop
    <2>2. \A n : FrameSlot(n)' = FrameSlot(n) /\ FrameRegs(n)' = FrameRegs(n)
      BY <1>3, <2>1 DEF FrameSlot, FrameRegs
    <2>3. Frame1' = Frame1 /\ Frame2' = Frame2
      BY <1>1, <1>3, <2>2 DEF Frame1, Frame2
    <2> QED
      BY <1>1, <1>2, <1>3, <2>2, <2>3 DEF RunInv, FramePushed, Bound
  <1> QED
    BY <1>1, <1>2, <1>3, <1>4, <1>5, <1>6, <1>7, <1>8 DEF RunInv, Boundary

\* LDI and STI ask for their pointer and TRAP for its vector.
LEMMA PointerSilent ==
  ASSUME RunInv, Clock, Record, ~Boundary', FetchIndirectPtr(CoreInputs)
  PROVE  RunInv'
  <1>1. /\ state = "FETCH_INDIRECT_PTR" /\ state' = "MEM_WAIT"
        /\ ir' = ir /\ pc' = pc /\ regs' = regs /\ psr' = psr
        /\ ssp' = ssp /\ usp' = usp /\ pc_loaded' = pc_loaded
        /\ \/ /\ Opcode(ir) = OP_TRAP /\ return_state' = "EXEC_TRAP"
              /\ mem_addr' = TrapVector(ir)
           \/ /\ Opcode(ir) = OP_LDI /\ return_state' = "FETCH_MEM"
              /\ mem_addr' = PcRelative9 /\ CanAccess(psr, mpr, PcRelative9)
           \/ /\ Opcode(ir) \notin {OP_TRAP, OP_LDI}
              /\ return_state' = "EXEC_STORE"
              /\ mem_addr' = PcRelative9 /\ CanAccess(psr, mpr, PcRelative9)
    BY InputsSeen DEF FetchIndirectPtr, IssueRead, AccessFault, Boundary
  <1>2. Executing /\ ~pc_loaded
    BY <1>1 DEF Boundary, Executing, Handling, Bound, RunInv,
       MachineInv, CoreFlow, RtiHalfDone
  <1>3. /\ MachineInv' /\ irq' \in Irqs
        /\ mpr' = mpr /\ arch' = arch /\ mem' = mem
    BY <1>1, <1>2, InstructionSilent
  <1>4. Opcode(ir) \in {OP_LDI, OP_STI, OP_TRAP}
    BY <1>1 DEF RunInv, InstructionDecoded
  <1>5. /\ InstructionHidden' /\ InstructionFetched'
        /\ HandlerEntered' /\ FramePushed'
    BY <1>1, <1>2, <1>3 DEF RunInv, Boundary, Executing, Handling,
       Bound, PcPopped, InstructionHidden,
       InstructionFetched, Instruction, HandlerEntered, FramePushed
  <1>6. InstructionDecoded' /\ InstructionOnBus'
    BY <1>1, <1>3, <1>4 DEF InstructionDecoded, InstructionOnBus, Bound,
       PcRelative9, PointerAllowed,
       OP_LDI, OP_STI, OP_TRAP
  <1> QED
    BY <1>1, <1>3, <1>5, <1>6 DEF RunInv, Boundary

\* A load asks for its word, and RTI for the PC or the PSR of its frame.
LEMMA ReadSilent ==
  ASSUME RunInv, Clock, Record, ~Boundary', FetchMem(CoreInputs)
  PROVE  RunInv'
  <1>1. /\ state = "FETCH_MEM" /\ state' = "MEM_WAIT"
        /\ ir' = ir /\ pc' = pc /\ regs' = regs /\ psr' = psr
        /\ ssp' = ssp /\ usp' = usp /\ pc_loaded' = pc_loaded
        /\ CanAccess(psr, mpr, mem_addr')
        /\ \/ /\ Opcode(ir) = OP_LD /\ return_state' = "REG_WRITEBACK"
              /\ mem_addr' = PcRelative9
           \/ /\ Opcode(ir) = OP_LDI /\ return_state' = "REG_WRITEBACK"
              /\ mem_addr' = mem_rdata
           \/ /\ Opcode(ir) = OP_RTI /\ ~pc_loaded
              /\ return_state' = "PC_WRITE" /\ mem_addr' = regs[6]
           \/ /\ Opcode(ir) = OP_RTI /\ pc_loaded
              /\ return_state' = "PSR_WRITE" /\ mem_addr' = Plus(regs[6], 1)
           \/ /\ Opcode(ir) \notin {OP_LD, OP_LDI, OP_RTI}
              /\ return_state' = "REG_WRITEBACK" /\ mem_addr' = BaseOffset
    BY InputsSeen DEF FetchMem, IssueRead, AccessFault, Boundary
  <1>2. Executing
    BY <1>1 DEF Boundary, Executing, Handling, Bound
  <1>3. /\ MachineInv' /\ irq' \in Irqs
        /\ mpr' = mpr /\ arch' = arch /\ mem' = mem
    BY <1>1, <1>2, InstructionSilent
  <1>4. /\ Opcode(ir) \in {OP_LD, OP_LDR, OP_LDI, OP_RTI}
        /\ Opcode(ir) = OP_LDI =>
             /\ mem_rdata = Peek(mem, PcRelative9)
             /\ CanAccess(psr, mpr, PcRelative9)
        /\ pc_loaded => Opcode(ir) = OP_RTI
    BY <1>1 DEF RunInv, InstructionDecoded, InstructionOnBus, Bound,
       MachineInv, ReadDataFresh, UsesReadData, PointerAllowed, CoreFlow,
       RtiHalfDone
  <1>5. /\ InstructionHidden' /\ InstructionFetched'
        /\ HandlerEntered' /\ FramePushed'
    BY <1>1, <1>2, <1>3, <1>4 DEF RunInv, Boundary, Executing, Handling,
       Bound, PcPopped, InstructionHidden,
       InstructionFetched, Instruction, HandlerEntered, FramePushed, OP_LD,
       OP_LDI, OP_RTI
  <1>6. InstructionDecoded'
    BY <1>1, <1>3, <1>4 DEF InstructionDecoded, Bound
  <1>7. mem_addr' = DataAddress \/ Opcode(ir) = OP_RTI
    BY <1>1, <1>4 DEF DataAddress, OP_LD, OP_LDI, OP_RTI, OP_LDR, OP_ST,
       OP_STI
  <1>8. /\ DataAddress' = DataAddress
        /\ CanAccess(psr, mpr, PcRelative9)'
             = CanAccess(psr, mpr, PcRelative9)
        /\ CanAccess(psr, mpr, DataAddress)'
             = CanAccess(psr, mpr, DataAddress)
    BY <1>1, <1>3 DEF DataAddress, PcRelative9, BaseOffset, CanAccess,
       IsSupervisor, PageOpen
  <1>9. InstructionOnBus'
    <2>1. Opcode(ir) # OP_RTI => DataOnBus'
      BY <1>1, <1>4, <1>7, <1>8 DEF DataOnBus, PointerAllowed, OP_LD,
         OP_LDR, OP_LDI, OP_RTI, OP_STI
    <2> QED
      BY <1>1, <2>1 DEF InstructionOnBus, Bound, OP_LD, OP_LDI, OP_RTI
  <1> QED
    BY <1>1, <1>3, <1>5, <1>6, <1>9 DEF RunInv, Boundary

\* A store drives the data register and the address the instruction names.
LEMMA StoreSilent ==
  ASSUME RunInv, Clock, Record, ~Boundary', ExecStore(CoreInputs)
  PROVE  RunInv'
  <1>1. /\ state = "EXEC_STORE" /\ state' = "WRITE_STORE"
        /\ ir' = ir /\ pc' = pc /\ regs' = regs /\ psr' = psr
        /\ ssp' = ssp /\ usp' = usp /\ pc_loaded' = pc_loaded
        /\ CanAccess(psr, mpr, mem_addr')
        /\ mem_we' /\ mem_wdata' = regs[DR(ir)]
        /\ mem_addr' = CASE Opcode(ir) = OP_ST  -> PcRelative9
                         [] Opcode(ir) = OP_STI -> mem_rdata
                         [] OTHER               -> BaseOffset
    BY InputsSeen DEF ExecStore, StoreAddress, IssueWrite, AccessFault,
       Boundary
  <1>2. Executing /\ ~pc_loaded
    BY <1>1 DEF Boundary, Executing, Handling, Bound, RunInv,
       MachineInv, CoreFlow, RtiHalfDone
  <1>3. /\ MachineInv' /\ irq' \in Irqs
        /\ mpr' = mpr /\ arch' = arch /\ mem' = mem
    BY <1>1, <1>2, InstructionSilent
  <1>4. /\ Opcode(ir) \in {OP_ST, OP_STR, OP_STI}
        /\ Opcode(ir) = OP_STI =>
             /\ mem_rdata = Peek(mem, PcRelative9)
             /\ CanAccess(psr, mpr, PcRelative9)
    BY <1>1 DEF RunInv, InstructionDecoded, InstructionOnBus, Bound,
       MachineInv, ReadDataFresh, UsesReadData, PointerAllowed
  <1>5. /\ InstructionHidden' /\ InstructionFetched'
        /\ HandlerEntered' /\ FramePushed'
    BY <1>1, <1>2, <1>3 DEF RunInv, Boundary, Executing, Handling,
       Bound, PcPopped, InstructionHidden,
       InstructionFetched, Instruction, HandlerEntered, FramePushed
  <1>6. InstructionDecoded'
    BY <1>1, <1>4 DEF InstructionDecoded, Bound
  <1>7. mem_addr' = DataAddress
    BY <1>1, <1>4 DEF DataAddress, OP_LD, OP_LDI, OP_ST, OP_STR, OP_STI
  <1>8. /\ DataAddress' = DataAddress
        /\ CanAccess(psr, mpr, PcRelative9)'
             = CanAccess(psr, mpr, PcRelative9)
        /\ CanAccess(psr, mpr, DataAddress)'
             = CanAccess(psr, mpr, DataAddress)
    BY <1>1, <1>3 DEF DataAddress, PcRelative9, BaseOffset, CanAccess,
       IsSupervisor, PageOpen
  <1>9. InstructionOnBus'
    <2>1. DataOnBus'
      BY <1>1, <1>4, <1>7, <1>8 DEF DataOnBus, PointerAllowed, OP_LDI,
         OP_ST, OP_STR, OP_STI
    <2> QED
      BY <1>1, <2>1 DEF InstructionOnBus, Bound
  <1> QED
    BY <1>1, <1>3, <1>5, <1>6, <1>9 DEF RunInv, Boundary

\* RTI takes the PC from the stack and goes on to the PSR.
LEMMA PcWriteSilent ==
  ASSUME RunInv, Clock, Record, PcWrite(CoreInputs)
  PROVE  RunInv'
  <1>1. /\ state = "PC_WRITE" /\ state' = "FETCH_MEM"
        /\ ir' = ir /\ pc' = mem_rdata /\ regs' = regs /\ psr' = psr
        /\ ssp' = ssp /\ usp' = usp /\ pc_loaded'
    BY InputsSeen DEF PcWrite
  <1>2. /\ ~Boundary' /\ Executing /\ Opcode(ir) = OP_RTI
        /\ mem_addr = regs[6] /\ mem_rdata = Peek(mem, mem_addr)
    BY <1>1 DEF Boundary, Executing, Handling, Bound, RunInv,
       InstructionOnBus, MachineInv, ReadDataFresh, UsesReadData, CoreFlow,
       RtiPrivileged, InRti
  <1>3. /\ MachineInv' /\ irq' \in Irqs
        /\ mpr' = mpr /\ arch' = arch /\ mem' = mem
    BY <1>1, <1>2, InstructionSilent
  <1>4. /\ InstructionHidden' /\ InstructionFetched'
        /\ HandlerEntered' /\ FramePushed'
    BY <1>1, <1>2, <1>3 DEF RunInv, Boundary, Executing, Handling,
       Bound, PcPopped, InstructionHidden,
       InstructionFetched, Instruction, HandlerEntered, FramePushed
  <1>5. InstructionDecoded' /\ InstructionOnBus'
    BY <1>1, <1>2 DEF InstructionDecoded, InstructionOnBus, Bound, OP_RTI,
       OP_LDI
  <1> QED
    BY <1>1, <1>3, <1>4, <1>5 DEF RunInv, Boundary
\* The slots of a frame follow each other downwards.
LEMMA FrameSlots ==
  ASSUME FrameTop \in Word
  PROVE  /\ FrameSlot(0) = FrameTop
         /\ FrameSlot(1) = Plus(FrameTop, 65535)
         /\ FrameSlot(2) = Plus(FrameSlot(1), 65535)
  BY DEF FrameSlot, Plus, Word

\* The stack pointer a push leaves.
LEMMA StackMoves ==
  ASSUME RunInv, NEW n, regs = FrameRegs(n)
  PROVE  /\ regs[6] = FrameSlot(n)
         /\ \A v : [regs EXCEPT ![6] = v] = [arch.regs EXCEPT ![6] = v]
  <1>1. DOMAIN arch.regs = Reg
    BY DEF FrameRegs, RunInv, MachineInv, MachineTypeOK, CoreTypeOK
  <1> QED
    BY <1>1 DEF FrameRegs, Reg

\* An interrupt is accepted.
LEMMA AcceptSilent ==
  ASSUME RunInv, Clock, Record, AcceptInterrupt(CoreInputs)
  PROVE  RunInv'
  <1>1. /\ state = "FETCH" /\ state' = "INT_PUSH_PSR"
        /\ irq.pending /\ irq.priority > Priority(psr)
        /\ pc' = pc /\ psr' = psr /\ ssp' = ssp
        /\ usp' = IF IsSupervisor(psr) THEN usp ELSE regs[6]
        /\ regs' = IF IsSupervisor(psr) THEN regs
                   ELSE [regs EXCEPT ![6] = ssp]
    BY InputsSeen DEF AcceptInterrupt, Accepts
  <1>2. /\ ~Boundary' /\ Boundary /\ ~mem_we
    BY <1>1 DEF Boundary, RunInv, MachineInv, CoreFlow, StrobeDrops
  <1>3. /\ MachineInv' /\ irq' = irq /\ irq' \in Irqs
        /\ mpr' = mpr /\ arch' = arch /\ mem' = mem
    BY <1>1, <1>2, RunStep
  <1>4. /\ arch.regs = regs /\ arch.pc = pc /\ arch.psr = psr
        /\ arch.ssp = ssp /\ arch.usp = usp /\ arch.mem = mem
        /\ ~arch.stopped
    BY <1>1, <1>2, ArchAtBoundary
  <1>5. HandlerEntered'
    <2>1. FrameTop' \in Word
      BY <1>1, <1>3, <1>4 DEF FrameTop, RunInv, MachineInv, MachineTypeOK,
         CoreTypeOK, Reg
    <2> QED
      BY <1>1, <1>3, <1>4, <2>1 DEF HandlerEntered
  <1>6. FramePushed'
    <2>1. regs' = [regs EXCEPT ![6] = FrameTop]
      BY <1>1, <1>4 DEF FrameTop, RunInv, MachineInv, MachineTypeOK,
         CoreTypeOK, Reg
    <2>2. FrameTop' = FrameTop /\ FrameTop \in Word
      BY <1>1, <1>3, <1>4 DEF FrameTop, RunInv, MachineInv, MachineTypeOK,
         CoreTypeOK, Reg
    <2>3. FrameRegs(0)' = regs'
      <3>1. FrameSlot(0) = FrameTop
        BY <2>2, FrameSlots
      <3>2. FrameSlot(0)' = FrameSlot(0)
        BY <2>2 DEF FrameSlot
      <3> QED
        BY <1>3, <1>4, <2>1, <3>1, <3>2 DEF FrameRegs
    <2> QED
      BY <1>1, <1>3, <1>4, <2>3 DEF FramePushed, Bound
  <1> QED
    BY <1>1, <1>3, <1>5, <1>6 DEF RunInv, Boundary, Executing, Handling,
       Bound, InstructionHidden, InstructionFetched,
       InstructionDecoded, InstructionOnBus

\* What stays the same while an interrupt is entered.
LEMMA HandlerSilent ==
  ASSUME RunInv, Clock, Record, Handling, psr' = psr
  PROVE  /\ MachineInv' /\ irq' \in Irqs /\ mpr' = mpr
         /\ ~Boundary' => arch' = arch /\ irq' = irq
         /\ ~Boundary' => FrameTop' = FrameTop
         /\ irq.pending /\ irq.priority > Priority(psr)
         /\ FrameTop \in Word
         /\ pc = arch.pc /\ psr = arch.psr /\ ssp = arch.ssp
         /\ ~arch.stopped
         /\ usp = IF IsSupervisor(psr) THEN arch.usp ELSE arch.regs[6]
  BY RunStep DEF RunInv, HandlerEntered, FrameTop, Boundary

\* The entry pushes the PSR of the interrupted program.
LEMMA PushPsrSilent ==
  ASSUME RunInv, Clock, Record, ~Boundary', IntPushPSR(CoreInputs)
  PROVE  RunInv'
  <1>1. /\ state = "INT_PUSH_PSR" /\ state' = "INT_PUSH_PC"
        /\ pc' = pc /\ psr' = psr /\ ssp' = ssp /\ usp' = usp
        /\ regs' = [regs EXCEPT ![6] = Plus(regs[6], 65535)]
        /\ mem_addr' = Plus(regs[6], 65535) /\ mem_wdata' = psr /\ mem_we'
        /\ CanAccess(psr, mpr, mem_addr')
    BY InputsSeen DEF IntPushPSR, Push, IssueWrite, AccessFault, Boundary
  <1>2. Handling /\ ~mem_we
    BY <1>1 DEF Handling, RunInv, MachineInv, CoreFlow,
       StrobeDrops
  <1>3. /\ MachineInv' /\ irq' \in Irqs /\ mpr' = mpr
        /\ arch' = arch /\ irq' = irq /\ mem' = mem
        /\ FrameTop' = FrameTop
    BY <1>1, <1>2, HandlerSilent, RunStep
  <1>4. HandlerEntered'
    BY <1>1, <1>2, <1>3, HandlerSilent DEF HandlerEntered
  <1>5. FramePushed'
    <2>1. regs = FrameRegs(0) /\ mem = arch.mem
      BY <1>1 DEF RunInv, FramePushed
    <2>2. /\ regs[6] = FrameTop
          /\ Plus(regs[6], 65535) = FrameSlot(1)
      <3>1. FrameTop \in Word
        BY <1>1, <1>2, HandlerSilent
      <3>2. regs[6] = FrameSlot(0)
        BY <2>1, StackMoves
      <3> QED
        BY <3>1, <3>2, FrameSlots
    <2>3. regs' = FrameRegs(1)
      BY <1>1, <2>1, <2>2, StackMoves DEF FrameRegs
    <2>4. FrameRegs(1)' = FrameRegs(1) /\ FrameSlot(1)' = FrameSlot(1)
      BY <1>3 DEF FrameRegs, FrameSlot
    <2> QED
      BY <1>1, <1>3, <2>1, <2>2, <2>3, <2>4 DEF FramePushed, Bound
  <1> QED
    BY <1>1, <1>3, <1>4, <1>5 DEF RunInv, Boundary, Executing,
       Handling, Bound, InstructionHidden,
       InstructionFetched, InstructionDecoded, InstructionOnBus

\* The entry pushes the PC above it; the PSR is in memory by now.
LEMMA PushPcSilent ==
  ASSUME RunInv, Clock, Record, ~Boundary', IntPushPC(CoreInputs)
  PROVE  RunInv'
  <1>1. /\ state = "INT_PUSH_PC" /\ state' = "INT_WRITE_COMPLETE"
        /\ pc' = pc /\ psr' = psr /\ ssp' = ssp /\ usp' = usp
        /\ regs' = [regs EXCEPT ![6] = Plus(regs[6], 65535)]
        /\ mem_addr' = Plus(regs[6], 65535) /\ mem_wdata' = pc /\ mem_we'
        /\ CanAccess(psr, mpr, mem_addr')
    BY InputsSeen DEF IntPushPC, Push, IssueWrite, AccessFault, Boundary
  <1>2. Handling
    BY <1>1 DEF Handling
  <1>3. /\ MachineInv' /\ irq' \in Irqs /\ mpr' = mpr
        /\ arch' = arch /\ irq' = irq
        /\ FrameTop' = FrameTop
    BY <1>1, <1>2, HandlerSilent
  <1>4. HandlerEntered'
    BY <1>1, <1>2, <1>3, HandlerSilent DEF HandlerEntered
  <1>5. FramePushed'
    <2>1. /\ regs = FrameRegs(1) /\ mem = arch.mem
          /\ mem_we /\ mem_addr = FrameSlot(1) /\ mem_wdata = psr
          /\ CanAccess(psr, mpr, FrameSlot(1))
      BY <1>1 DEF RunInv, FramePushed
    <2>2. mem' = Frame1
      BY <2>1, RunStep DEF Frame1
    <2>3. Plus(regs[6], 65535) = FrameSlot(2)
      <3>1. FrameTop \in Word
        BY <1>1, <1>2, HandlerSilent
      <3>2. regs[6] = FrameSlot(1)
        BY <2>1, StackMoves
      <3> QED
        BY <3>1, <3>2, FrameSlots
    <2>4. regs' = FrameRegs(2)
      BY <1>1, <2>1, <2>3, StackMoves DEF FrameRegs
    <2>5. \A n : FrameRegs(n)' = FrameRegs(n) /\ FrameSlot(n)' = FrameSlot(n)
      BY <1>3 DEF FrameRegs, FrameSlot
    <2>6. Frame1' = Frame1
      BY <1>1, <1>3, <2>5 DEF Frame1
    <2> QED
      BY <1>1, <1>3, <2>1, <2>2, <2>3, <2>4, <2>5, <2>6 DEF FramePushed, Bound
  <1> QED
    BY <1>1, <1>3, <1>4, <1>5 DEF RunInv, Boundary, Executing,
       Handling, Bound, InstructionHidden,
       InstructionFetched, InstructionDecoded, InstructionOnBus

\* Both words are in memory when the entry asks for its vector.
LEMMA VectorSilent ==
  ASSUME RunInv, Clock, Record, ~Boundary', IntWriteComplete(CoreInputs)
  PROVE  RunInv'
  <1>1. /\ state = "INT_WRITE_COMPLETE" /\ state' = "MEM_WAIT"
        /\ return_state' = "INT_SET_PC"
        /\ pc' = pc /\ psr' = psr /\ ssp' = ssp /\ usp' = usp
        /\ regs' = regs /\ mem_addr' = 256 + irq.vector
        /\ CanAccess(psr, mpr, mem_addr')
    BY InputsSeen DEF IntWriteComplete, IssueRead, AccessFault, Boundary
  <1>2. Handling
    BY <1>1 DEF Handling
  <1>3. /\ MachineInv' /\ irq' \in Irqs /\ mpr' = mpr
        /\ arch' = arch /\ irq' = irq
        /\ FrameTop' = FrameTop
    BY <1>1, <1>2, HandlerSilent
  <1>4. HandlerEntered'
    BY <1>1, <1>2, <1>3, HandlerSilent DEF HandlerEntered
  <1>5. FramePushed'
    <2>1. /\ regs = FrameRegs(2) /\ mem = Frame1
          /\ mem_we /\ mem_addr = FrameSlot(2) /\ mem_wdata = pc
          /\ CanAccess(psr, mpr, FrameSlot(1))
          /\ CanAccess(psr, mpr, FrameSlot(2))
      BY <1>1 DEF RunInv, FramePushed
    <2>2. mem' = Frame2
      BY <2>1, RunStep DEF Frame2
    <2>3. \A n : FrameRegs(n)' = FrameRegs(n) /\ FrameSlot(n)' = FrameSlot(n)
      BY <1>3 DEF FrameRegs, FrameSlot
    <2>4. Frame2' = Frame2
      BY <1>1, <1>3, <2>3 DEF Frame1, Frame2
    <2> QED
      BY <1>1, <1>3, <2>1, <2>2, <2>3, <2>4 DEF FramePushed, Bound
  <1> QED
    BY <1>1, <1>3, <1>4, <1>5 DEF RunInv, Boundary, Executing,
       Handling, Bound, InstructionHidden,
       InstructionFetched, InstructionDecoded, InstructionOnBus

\* Every clock edge keeps the invariant.
LEMMA RunInvStep ==
  ASSUME RunInv, Clock, Record
  PROVE  RunInv'
  <1> DEFINE in == CoreInputs
  <1>1. SUFFICES ASSUME ~Boundary' PROVE RunInv'
    BY BoundaryInv
  <1>2. ~ (ExecBR(in) \/ ExecALU(in) \/ ExecLEA(in) \/ ExecJMP(in)
           \/ ExecJSR(in) \/ RegWriteback(in) \/ WriteStore(in)
           \/ ExecTrap(in) \/ PsrWrite(in) \/ IntSetPC(in) \/ Halted(in))
    BY <1>1 DEF ExecBR, ExecALU, ExecLEA, ExecJMP, ExecJSR, RegWriteback,
       WriteStore, ExecTrap, PsrWrite, IntSetPC, Halted, coreVars, Boundary
  <1>3. CoreStep(in)
    BY RunStep
  <1> HIDE DEF in
  <1>4. \/ FetchInstruction(in) \/ AcceptInterrupt(in) \/ LatchIR(in)
        \/ Decode(in) \/ MemWait(in) \/ FetchIndirectPtr(in)
        \/ FetchMem(in) \/ ExecStore(in) \/ PcWrite(in)
        \/ IntPushPSR(in) \/ IntPushPC(in) \/ IntWriteComplete(in)
    BY <1>2, <1>3 DEF CoreStep
  <1> QED
    BY <1>1, <1>4, FetchSilent, AcceptSilent, LatchSilent, DecodeSilent,
       WaitSilent, PointerSilent, ReadSilent, StoreSilent, PcWriteSilent,
       PushPsrSilent, PushPcSilent, VectorSilent DEF in
-----------------------------------------------------------------------------
\* What LC3ISA computes with is what the core computes with: first the words,
LEMMA IsaWords ==
  /\ \A a, b : ISA!Plus(a, b) = Plus(a, b)
  /\ \A m, a : ISA!Peek(m, a) = Peek(m, a)
  /\ \A m, a, v : ISA!Poke(m, a, v) = Poke(m, a, v)
  /\ \A a, b : ISA!BitAnd(a, b) = BitAnd(a, b)
  /\ \A a : ISA!BitNot(a) = BitNot(a)
  <1>1. \A a, b : ISA!Plus(a, b) = Plus(a, b)
    BY DEF ISA!Plus, Plus
  <1>2. \A m, a : ISA!Peek(m, a) = Peek(m, a)
    BY DEF ISA!Peek, Peek
  <1>3. \A m, a, v : ISA!Poke(m, a, v) = Poke(m, a, v)
    BY DEF ISA!Poke, Poke
  <1>4. \A a, b : ISA!BitAnd(a, b) = BitAnd(a, b)
    BY DEF ISA!BitAnd, BitAnd, ISA!AndNibble, AndNibble, ISA!AndBit, AndBit
  <1>5. \A a : ISA!BitNot(a) = BitNot(a)
    BY DEF ISA!BitNot, BitNot
  <1> QED
    BY <1>1, <1>2, <1>3, <1>4, <1>5

\* the fields of an instruction,
LEMMA IsaFields ==
  ASSUME NEW i
  PROVE  /\ ISA!Opcode(i) = Opcode(i)
         /\ ISA!DR(i) = DR(i)
         /\ ISA!SR1(i) = SR1(i)
         /\ ISA!SR2(i) = SR2(i)
         /\ ISA!IsImm(i) = IsImm(i)
         /\ ISA!IsJsr(i) = IsJsr(i)
         /\ ISA!IsRtt(i) = IsRtt(i)
         /\ ISA!Imm5(i) = Imm5(i)
         /\ ISA!PcOffset9(i) = PcOffset9(i)
         /\ ISA!PcOffset11(i) = PcOffset11(i)
         /\ ISA!Offset6(i) = Offset6(i)
         /\ ISA!TrapVector(i) = TrapVector(i)
  BY DEF ISA!Opcode, Opcode, ISA!DR, DR, ISA!SR1, SR1, ISA!SR2, SR2,
     ISA!IsImm, IsImm, ISA!IsJsr, IsJsr, ISA!IsRtt, IsRtt, ISA!Imm5, Imm5,
     ISA!PcOffset9, PcOffset9, ISA!PcOffset11, PcOffset11, ISA!Offset6,
     Offset6, ISA!TrapVector, TrapVector, ISA!SignExtend, SignExtend

\* the status register and the privilege,
LEMMA IsaStatus ==
  /\ \A p : ISA!Priority(p) = Priority(p) /\ ISA!Flags(p) = Flags(p)
  /\ \A p, f : ISA!SetFlags(p, f) = SetFlags(p, f)
  /\ \A p, f : ISA!SetPriority(p, f) = SetPriority(p, f)
  /\ \A p, f : ISA!SetModeBit(p, f) = SetModeBit(p, f)
  /\ \A v : ISA!FlagsFor(v) = FlagsFor(v)
  /\ \A n, f : ISA!SomeFlag(n, f) = SomeFlag(n, f)
  /\ \A p : ISA!Core!IsSupervisor(p) = IsSupervisor(p)
  /\ \A p, m, a : ISA!Core!CanAccess(p, m, a) = CanAccess(p, m, a)
  /\ ISA!Core!UserBit = UserBit
  /\ ISA!Core!SupervisorBit = SupervisorBit
  <1>1. \A p : ISA!Priority(p) = Priority(p) /\ ISA!Flags(p) = Flags(p)
    BY DEF ISA!Priority, Priority, ISA!Flags, Flags
  <1>2. /\ \A p, f : ISA!SetFlags(p, f) = SetFlags(p, f)
        /\ \A p, f : ISA!SetPriority(p, f) = SetPriority(p, f)
        /\ \A p, f : ISA!SetModeBit(p, f) = SetModeBit(p, f)
    BY DEF ISA!SetFlags, SetFlags, ISA!SetPriority, SetPriority,
       ISA!SetModeBit, SetModeBit
  <1>3. /\ \A v : ISA!FlagsFor(v) = FlagsFor(v)
        /\ \A n, f : ISA!SomeFlag(n, f) = SomeFlag(n, f)
    BY DEF ISA!FlagsFor, FlagsFor, ISA!SomeFlag, SomeFlag
  <1>4. \A p : ISA!Core!IsSupervisor(p) = IsSupervisor(p)
    BY DEF ISA!Core!IsSupervisor, IsSupervisor, ISA!Core!ModeBit, ModeBit
  <1>5. \A m, a : ISA!Core!PageOpen(m, a) = PageOpen(m, a)
    BY DEF ISA!Core!PageOpen, PageOpen
  <1>6. \A p, m, a : ISA!Core!CanAccess(p, m, a) = CanAccess(p, m, a)
    BY <1>4, <1>5 DEF ISA!Core!CanAccess, CanAccess
  <1>7. ISA!Core!UserBit = UserBit /\ ISA!Core!SupervisorBit = SupervisorBit
    BY DEF ISA!Core!UserBit, UserBit, ISA!Core!SupervisorBit, SupervisorBit
  <1> QED
    BY <1>1, <1>2, <1>3, <1>4, <1>6, <1>7

\* and the operation codes.
LEMMA IsaCodes ==
  /\ ISA!OP_BR = OP_BR /\ ISA!OP_ADD = OP_ADD /\ ISA!OP_LD = OP_LD
  /\ ISA!OP_ST = OP_ST /\ ISA!OP_JSR = OP_JSR /\ ISA!OP_AND = OP_AND
  /\ ISA!OP_LDR = OP_LDR /\ ISA!OP_STR = OP_STR /\ ISA!OP_RTI = OP_RTI
  /\ ISA!OP_NOT = OP_NOT /\ ISA!OP_LDI = OP_LDI /\ ISA!OP_STI = OP_STI
  /\ ISA!OP_JMP = OP_JMP /\ ISA!OP_LEA = OP_LEA /\ ISA!OP_TRAP = OP_TRAP
  BY DEF ISA!OP_BR, ISA!OP_ADD, ISA!OP_LD, ISA!OP_ST, ISA!OP_JSR, ISA!OP_AND,
     ISA!OP_LDR, ISA!OP_STR, ISA!OP_RTI, ISA!OP_NOT, ISA!OP_LDI, ISA!OP_STI,
     ISA!OP_JMP, ISA!OP_LEA, ISA!OP_TRAP, OP_BR, OP_ADD, OP_LD, OP_ST,
     OP_JSR, OP_AND, OP_LDR, OP_STR, OP_RTI, OP_NOT, OP_LDI, OP_STI, OP_JMP,
     OP_LEA, OP_TRAP

\* No two operation codes are the same, and 13 is none of them.
LEMMA CodesDiffer ==
  /\ OP_BR = 0 /\ OP_ADD = 1 /\ OP_LD = 2 /\ OP_ST = 3 /\ OP_JSR = 4
  /\ OP_AND = 5 /\ OP_LDR = 6 /\ OP_STR = 7 /\ OP_RTI = 8 /\ OP_NOT = 9
  /\ OP_LDI = 10 /\ OP_STI = 11 /\ OP_JMP = 12 /\ OP_LEA = 14
  /\ OP_TRAP = 15
  BY DEF OP_BR, OP_ADD, OP_LD, OP_ST, OP_JSR, OP_AND, OP_LDR, OP_STR,
     OP_RTI, OP_NOT, OP_LDI, OP_STI, OP_JMP, OP_LEA, OP_TRAP

\* The privilege of an access, and the fields of what arch records.
LEMMA IsaAllowed ==
  ASSUME NEW as
  PROVE  ISA!Allowed(as) <=> \A a \in as : CanAccess(arch.psr, mpr, a)
  BY IsaStatus DEF ISA!Allowed

\* What a boundary records.
LEMMA ArchRecorded ==
  ASSUME arch' = Visible'
  PROVE  /\ arch'.regs = regs' /\ arch'.pc = pc' /\ arch'.psr = psr'
         /\ arch'.ssp = ssp' /\ arch'.usp = usp' /\ arch'.mem = mem'
         /\ arch'.stopped = (state' = "HALT")
  BY DEF Visible

\* The instruction in ir is the one LC3ISA executes, at the same addresses.
LEMMA IsaInstruction ==
  ASSUME RunInv, Executing, ~Bound("LATCH_IR")
  PROVE  /\ ir = ISA!Peek(arch.mem, arch.pc)
         /\ ~arch.stopped /\ ISA!Allowed({arch.pc})
         /\ arch.regs = regs /\ arch.psr = psr /\ arch.ssp = ssp
         /\ arch.usp = usp /\ arch.mem = mem
  BY IsaWords, IsaAllowed DEF RunInv, InstructionHidden, InstructionFetched,
     Instruction

\* The addresses LC3ISA computes for the instruction are those of the core.
LEMMA IsaAddresses ==
  ASSUME RunInv, Executing, ~Bound("LATCH_IR"), ~PcPopped
  PROVE  /\ ISA!Next1 = pc
         /\ ISA!Rel9(ir) = PcRelative9
         /\ ISA!Base(ir) = BaseOffset
         /\ ISA!EffectiveAddress(ir) = DataAddress
  <1>1. arch.regs = regs /\ arch.mem = mem
    BY IsaInstruction
  <1>2. ISA!Next1 = pc
    BY IsaWords, Literals DEF ISA!Next1, RunInv, InstructionFetched
  <1>3. ISA!Rel9(ir) = PcRelative9
    BY <1>2, IsaWords, IsaFields DEF ISA!Rel9, PcRelative9
  <1>4. ISA!Base(ir) = BaseOffset
    BY <1>1, IsaWords, IsaFields DEF ISA!Base, BaseOffset
  <1>5. ISA!EffectiveAddress(ir) = DataAddress
    BY <1>1, <1>3, <1>4, IsaWords, IsaFields, IsaCodes
    DEF ISA!EffectiveAddress, DataAddress
  <1> QED
    BY <1>2, <1>3, <1>4, <1>5

\* LC3ISA allows the instruction's accesses when the core does.
LEMMA IsaAccesses ==
  ASSUME RunInv, Executing, ~Bound("LATCH_IR"), ~PcPopped
  PROVE  ISA!Allowed(ISA!Accesses(ir)) <=>
           /\ PointerAllowed
           /\ Opcode(ir) \in {OP_LD, OP_ST, OP_LDR, OP_STR, OP_LDI, OP_STI}
                => CanAccess(psr, mpr, DataAddress)
  <1>1. ISA!Accesses(ir) =
          CASE Opcode(ir) \in {OP_LD, OP_ST, OP_LDR, OP_STR} -> {DataAddress}
            [] Opcode(ir) \in {OP_LDI, OP_STI} ->
                 {PcRelative9, DataAddress}
            [] OTHER -> {}
    BY IsaAddresses, IsaFields, IsaCodes DEF ISA!Accesses
  <1>2. \A as : ISA!Allowed(as) <=> \A a \in as : CanAccess(psr, mpr, a)
    BY IsaAllowed, IsaInstruction
  <1>3. CASE Opcode(ir) \in {OP_LD, OP_ST, OP_LDR, OP_STR}
    <2>1. ISA!Accesses(ir) = {DataAddress} /\ PointerAllowed
      BY <1>1, <1>3, CodesDiffer DEF PointerAllowed
    <2> QED
      BY <1>2, <1>3, <2>1
  <1>4. CASE Opcode(ir) \in {OP_LDI, OP_STI}
    <2>1. ISA!Accesses(ir) = {PcRelative9, DataAddress}
      BY <1>1, <1>4, CodesDiffer
    <2> QED
      BY <1>2, <1>4, <2>1 DEF PointerAllowed
  <1>5. CASE Opcode(ir) \notin {OP_LD, OP_ST, OP_LDR, OP_STR, OP_LDI, OP_STI}
    <2>1. ISA!Accesses(ir) = {}
      BY <1>1, <1>5
    <2> QED
      BY <1>2, <1>5, <2>1 DEF PointerAllowed
  <1> QED
    BY <1>3, <1>4, <1>5

\* The last clock of an instruction executes it.
LEMMA IsaExecutes ==
  ASSUME RunInv, Clock, Record, Executing, ~Bound("LATCH_IR"), ~PcPopped,
         state' = "FETCH", NEW ops, Opcode(ir) \in ops,
         PointerAllowed,
         Opcode(ir) \in {OP_LD, OP_ST, OP_LDR, OP_STR, OP_LDI, OP_STI}
           => CanAccess(psr, mpr, DataAddress)
  PROVE  ISA!Executes(ir, ops)
  <1>1. mpr' = mpr /\ arch' = Visible'
    BY RunStep DEF Boundary
  <1>2. arch'.stopped = FALSE
    BY <1>1, ArchRecorded
  <1> QED
    BY <1>1, <1>2, IsaInstruction, IsaAccesses, IsaFields DEF ISA!Executes

\* A step that executes the instruction in ir is one of LC3ISA.
LEMMA IsaStep ==
  ASSUME RunInv, Executing, ~Bound("LATCH_IR"),
         \/ ISA!Operate(ir) \/ ISA!Load(ir) \/ ISA!Store(ir)
         \/ ISA!Branch(ir) \/ ISA!Jump(ir) \/ ISA!JumpToSubroutine(ir)
         \/ ISA!Trap(ir) \/ ISA!ReturnFromInterrupt(ir) \/ ISA!Fault(ir)
  PROVE  ISA!Next
  BY IsaInstruction DEF ISA!Next
-----------------------------------------------------------------------------
\* What is recorded when a state that writes no memory ends an instruction.
LEMMA InstructionEnds ==
  ASSUME RunInv, Clock, Record, Executing, ~Bound("LATCH_IR"),
         state # "WRITE_STORE", Boundary'
  PROVE  /\ arch'.regs = regs' /\ arch'.pc = pc' /\ arch'.psr = psr'
         /\ arch'.ssp = ssp' /\ arch'.usp = usp' /\ arch'.mem = arch.mem
         /\ arch'.stopped = (state' = "HALT")
         /\ mpr' = mpr
         /\ arch.regs = regs /\ arch.psr = psr /\ arch.ssp = ssp
         /\ arch.usp = usp /\ arch.mem = mem /\ ~arch.stopped
  <1>1. ~mem_we
    BY DEF RunInv, MachineInv, CoreFlow, StrobeDrops, Executing, Handling
  <1>2. mem' = mem /\ mpr' = mpr /\ arch' = Visible'
    BY <1>1, RunStep
  <1> QED
    BY <1>2, ArchRecorded, IsaInstruction

\* The states that execute an instruction without an access.
LEMMA ExecutingStates ==
  state \in {"EXEC_BR", "EXEC_ALU", "EXEC_LEA", "EXEC_JMP", "EXEC_JSR",
             "REG_WRITEBACK", "WRITE_STORE", "EXEC_TRAP", "DECODE",
             "FETCH_INDIRECT_PTR", "EXEC_STORE"}
    => Executing /\ ~Bound("LATCH_IR") /\ ~PcPopped
  BY DEF Executing, Handling, Bound, PcPopped, Boundary

\* An instruction without data has no pointer that could be refused.
LEMMA NoData ==
  Opcode(ir) \notin {OP_LD, OP_ST, OP_LDR, OP_STR, OP_LDI, OP_STI}
    => PointerAllowed
  BY DEF PointerAllowed

\* The last clock of BR.
LEMMA BranchImplements ==
  ASSUME RunInv, Clock, Record, ExecBR(CoreInputs)
  PROVE  ISA!Next
  <1>1. /\ state = "EXEC_BR" /\ state' = "FETCH"
        /\ pc' = IF SomeFlag(DR(ir), Flags(psr)) THEN PcRelative9 ELSE pc
        /\ regs' = regs /\ psr' = psr /\ ssp' = ssp /\ usp' = usp
    BY DEF ExecBR
  <1>2. Opcode(ir) = OP_BR
    BY <1>1 DEF RunInv, InstructionDecoded
  <1>3. Executing /\ ~Bound("LATCH_IR") /\ ~PcPopped
    BY <1>1, ExecutingStates
  <1>4. ISA!Executes(ir, {ISA!OP_BR})
    BY <1>1, <1>2, <1>3, NoData, CodesDiffer, IsaCodes, IsaExecutes
  <1>5. ISA!Branch(ir)
    BY <1>1, <1>3, <1>4, InstructionEnds, IsaAddresses, IsaFields, IsaStatus
    DEF ISA!Branch, Boundary
  <1> QED
    BY <1>3, <1>5, IsaStep

\* Setting a register and the condition codes.
LEMMA IsaSetRegister ==
  ASSUME RunInv, Clock, Record, Executing, ~Bound("LATCH_IR"), ~PcPopped,
         state # "WRITE_STORE", Boundary',
         NEW v, WriteRegister(v), pc' = pc, ssp' = ssp, usp' = usp
  PROVE  ISA!SetRegister(ir, v)
  BY InstructionEnds, IsaAddresses, IsaFields, IsaStatus
  DEF ISA!SetRegister, WriteRegister

\* The last clock of ADD, AND, NOT and LEA.
LEMMA OperateImplements ==
  ASSUME RunInv, Clock, Record,
         ExecALU(CoreInputs) \/ ExecLEA(CoreInputs)
  PROVE  ISA!Next
  <1> DEFINE result == IF state = "EXEC_ALU" THEN AluResult ELSE PcRelative9
             rhs    == IF IsImm(ir) THEN Imm5(ir) ELSE regs[SR2(ir)]
  <1>1. /\ state \in {"EXEC_ALU", "EXEC_LEA"} /\ state' = "FETCH"
        /\ WriteRegister(result)
        /\ pc' = pc /\ ssp' = ssp /\ usp' = usp
    BY DEF ExecALU, ExecLEA
  <1>2. /\ state = "EXEC_ALU" => Opcode(ir) \in {OP_ADD, OP_AND, OP_NOT}
        /\ state = "EXEC_LEA" => Opcode(ir) = OP_LEA
    BY <1>1 DEF RunInv, InstructionDecoded
  <1>3. Executing /\ ~Bound("LATCH_IR") /\ ~PcPopped
    BY <1>1, ExecutingStates
  <1>4. ISA!Executes(ir, {ISA!OP_ADD, ISA!OP_AND, ISA!OP_NOT, ISA!OP_LEA})
    <2>1. Opcode(ir) \in {ISA!OP_ADD, ISA!OP_AND, ISA!OP_NOT, ISA!OP_LEA}
      BY <1>1, <1>2, IsaCodes
    <2>2. Opcode(ir) \notin {OP_LD, OP_ST, OP_LDR, OP_STR, OP_LDI, OP_STI}
      BY <1>1, <1>2, CodesDiffer
    <2> QED
      BY <1>1, <1>3, <2>1, <2>2, NoData, IsaExecutes
  <1>5. result = CASE Opcode(ir) = OP_ADD -> Plus(regs[SR1(ir)], rhs)
                   [] Opcode(ir) = OP_AND -> BitAnd(regs[SR1(ir)], rhs)
                   [] Opcode(ir) = OP_NOT -> BitNot(regs[SR1(ir)])
                   [] OTHER               -> PcRelative9
    BY <1>1, <1>2, CodesDiffer DEF AluResult
  <1>6. ISA!SetRegister(ir, result)
    BY <1>1, <1>3, IsaSetRegister DEF Boundary
  <1> HIDE DEF result
  <1>7. ISA!Operate(ir)
    BY <1>3, <1>4, <1>5, <1>6, IsaInstruction, IsaAddresses, IsaFields,
       IsaCodes, IsaWords
    DEF ISA!Operate
  <1> QED
    BY <1>3, <1>7, IsaStep

\* The last clock of LD, LDI and LDR.
LEMMA LoadImplements ==
  ASSUME RunInv, Clock, Record, RegWriteback(CoreInputs)
  PROVE  ISA!Next
  <1>1. /\ state = "REG_WRITEBACK" /\ state' = "FETCH"
        /\ WriteRegister(mem_rdata)
        /\ pc' = pc /\ ssp' = ssp /\ usp' = usp
    BY InputsSeen DEF RegWriteback
  <1>2. /\ Opcode(ir) \in {OP_LD, OP_LDR, OP_LDI}
        /\ PointerAllowed /\ CanAccess(psr, mpr, DataAddress)
        /\ mem_rdata = Peek(mem, DataAddress)
    BY <1>1 DEF RunInv, InstructionDecoded, InstructionOnBus, DataOnBus,
       Bound, MachineInv, ReadDataFresh, UsesReadData
  <1>3. Executing /\ ~Bound("LATCH_IR") /\ ~PcPopped
    BY <1>1, ExecutingStates
  <1>4. ISA!Executes(ir, {ISA!OP_LD, ISA!OP_LDI, ISA!OP_LDR})
    BY <1>1, <1>2, <1>3, IsaCodes, IsaExecutes
  <1>5. ISA!SetRegister(ir, mem_rdata)
    BY <1>1, <1>3, IsaSetRegister DEF Boundary
  <1>6. mem_rdata = ISA!Peek(arch.mem, ISA!EffectiveAddress(ir))
    BY <1>2, <1>3, IsaInstruction, IsaAddresses, IsaWords
  <1> QED
    BY <1>3, <1>4, <1>5, <1>6, IsaStep DEF ISA!Load

\* The last clock of ST, STI and STR.
LEMMA StoreImplements ==
  ASSUME RunInv, Clock, Record, WriteStore(CoreInputs)
  PROVE  ISA!Next
  <1>1. /\ state = "WRITE_STORE" /\ state' = "FETCH"
        /\ pc' = pc /\ regs' = regs /\ psr' = psr
        /\ ssp' = ssp /\ usp' = usp
    BY DEF WriteStore
  <1>2. /\ Opcode(ir) \in {OP_ST, OP_STR, OP_STI}
        /\ PointerAllowed /\ CanAccess(psr, mpr, DataAddress)
        /\ mem_we /\ mem_addr = DataAddress /\ mem_wdata = regs[DR(ir)]
    BY <1>1 DEF RunInv, InstructionDecoded, InstructionOnBus, DataOnBus
  <1>3. Executing /\ ~Bound("LATCH_IR") /\ ~PcPopped
    BY <1>1, ExecutingStates
  <1>4. ISA!Executes(ir, {ISA!OP_ST, ISA!OP_STI, ISA!OP_STR})
    BY <1>1, <1>2, <1>3, IsaCodes, IsaExecutes
  <1>5. /\ arch'.regs = regs' /\ arch'.pc = pc' /\ arch'.psr = psr'
        /\ arch'.ssp = ssp' /\ arch'.usp = usp'
        /\ arch'.mem = Poke(mem, DataAddress, regs[DR(ir)])
    BY <1>1, <1>2, RunStep, ArchRecorded DEF Boundary
  <1>6. ISA!Store(ir)
    BY <1>1, <1>3, <1>4, <1>5, IsaInstruction, IsaAddresses, IsaFields,
       IsaWords
    DEF ISA!Store
  <1> QED
    BY <1>3, <1>6, IsaStep

\* The last clock of JMP and RTT.
LEMMA JumpImplements ==
  ASSUME RunInv, Clock, Record, ExecJMP(CoreInputs)
  PROVE  ISA!Next
  <1>1. /\ state = "EXEC_JMP" /\ state' = "FETCH"
        /\ pc' = regs[SR1(ir)]
        /\ psr' = IF IsRtt(ir) THEN SetModeBit(psr, UserBit) ELSE psr
        /\ regs' = regs /\ ssp' = ssp /\ usp' = usp
    BY DEF ExecJMP
  <1>2. Opcode(ir) = OP_JMP
    BY <1>1 DEF RunInv, InstructionDecoded
  <1>3. Executing /\ ~Bound("LATCH_IR") /\ ~PcPopped
    BY <1>1, ExecutingStates
  <1>4. ISA!Executes(ir, {ISA!OP_JMP})
    BY <1>1, <1>2, <1>3, NoData, CodesDiffer, IsaCodes, IsaExecutes
  <1>5. ISA!Jump(ir)
    BY <1>1, <1>3, <1>4, InstructionEnds, IsaFields, IsaStatus
    DEF ISA!Jump, Boundary
  <1> QED
    BY <1>3, <1>5, IsaStep

\* The last clock of JSR and JSRR.
LEMMA SubroutineImplements ==
  ASSUME RunInv, Clock, Record, ExecJSR(CoreInputs)
  PROVE  ISA!Next
  <1>1. /\ state = "EXEC_JSR" /\ state' = "FETCH"
        /\ pc' = IF IsJsr(ir) THEN PcRelative11 ELSE regs[SR1(ir)]
        /\ regs' = [regs EXCEPT ![7] = pc]
        /\ psr' = psr /\ ssp' = ssp /\ usp' = usp
    BY DEF ExecJSR
  <1>2. Opcode(ir) = OP_JSR
    BY <1>1 DEF RunInv, InstructionDecoded
  <1>3. Executing /\ ~Bound("LATCH_IR") /\ ~PcPopped
    BY <1>1, ExecutingStates
  <1>4. ISA!Executes(ir, {ISA!OP_JSR})
    BY <1>1, <1>2, <1>3, NoData, CodesDiffer, IsaCodes, IsaExecutes
  <1>5. ISA!Plus(ISA!Next1, ISA!PcOffset11(ir)) = PcRelative11
    BY <1>3, IsaAddresses, IsaFields, IsaWords DEF PcRelative11
  <1>6. ISA!JumpToSubroutine(ir)
    BY <1>1, <1>3, <1>4, <1>5, InstructionEnds, IsaAddresses, IsaFields
    DEF ISA!JumpToSubroutine, Boundary
  <1> QED
    BY <1>3, <1>6, IsaStep

\* The last clock of TRAP.
LEMMA TrapImplements ==
  ASSUME RunInv, Clock, Record, ExecTrap(CoreInputs)
  PROVE  ISA!Next
  <1>1. /\ state = "EXEC_TRAP" /\ state' = "FETCH"
        /\ pc' = mem_rdata /\ regs' = [regs EXCEPT ![7] = pc]
        /\ psr' = SetModeBit(psr, SupervisorBit)
        /\ ssp' = ssp /\ usp' = usp
    BY InputsSeen DEF ExecTrap
  <1>2. Opcode(ir) = OP_TRAP /\ mem_rdata = Peek(mem, TrapVector(ir))
    BY <1>1 DEF RunInv, InstructionDecoded, InstructionOnBus, Bound,
       MachineInv, ReadDataFresh, UsesReadData
  <1>3. Executing /\ ~Bound("LATCH_IR") /\ ~PcPopped
    BY <1>1, ExecutingStates
  <1>4. ISA!Executes(ir, {ISA!OP_TRAP})
    BY <1>1, <1>2, <1>3, NoData, CodesDiffer, IsaCodes, IsaExecutes
  <1>5. ISA!Trap(ir)
    BY <1>1, <1>2, <1>3, <1>4, InstructionEnds, IsaAddresses, IsaFields,
       IsaStatus, IsaWords
    DEF ISA!Trap, Boundary
  <1> QED
    BY <1>3, <1>5, IsaStep

\* The last clock of RTI.
LEMMA RtiImplements ==
  ASSUME RunInv, Clock, Record, PsrWrite(CoreInputs)
  PROVE  ISA!Next
  <1>1. /\ state = "PSR_WRITE" /\ state' = "FETCH"
        /\ psr' = mem_rdata /\ pc' = pc /\ usp' = usp
        /\ regs' = [regs EXCEPT ![6] = IF IsSupervisor(mem_rdata)
                                       THEN Plus(regs[6], 2) ELSE usp]
        /\ ssp' = IF IsSupervisor(mem_rdata) THEN ssp ELSE Plus(regs[6], 2)
    BY InputsSeen DEF PsrWrite
  <1>2. /\ Opcode(ir) = OP_RTI /\ IsSupervisor(psr)
        /\ mem_rdata = Peek(mem, Plus(regs[6], 1))
    BY <1>1 DEF RunInv, InstructionOnBus, Bound, MachineInv, ReadDataFresh,
       UsesReadData, CoreFlow, RtiPrivileged, InRti
  <1>3. Executing /\ ~Bound("LATCH_IR") /\ pc = Peek(mem, regs[6])
    BY <1>1 DEF Executing, Handling, Bound, Boundary, RunInv,
       InstructionFetched, PcPopped
  <1>4. ISA!Executes(ir, {ISA!OP_RTI})
    <2>1. ISA!Accesses(ir) = {} /\ Opcode(ir) = ISA!OP_RTI
      BY <1>2, IsaFields, IsaCodes, CodesDiffer DEF ISA!Accesses
    <2>2. ISA!Allowed(ISA!Accesses(ir))
      BY <2>1, IsaAllowed
    <2> QED
      BY <1>1, <1>3, <2>1, <2>2, InstructionEnds, IsaInstruction, IsaFields
      DEF ISA!Executes, Boundary
  <1>5. ISA!ReturnFromInterrupt(ir)
    <2>1. ISA!Peek(arch.mem, ISA!Plus(arch.regs[6], 1)) = mem_rdata
      BY <1>2, <1>3, IsaInstruction, IsaWords
    <2>2. ISA!Peek(arch.mem, arch.regs[6]) = pc
      BY <1>3, IsaInstruction, IsaWords
    <2> QED
      BY <1>1, <1>2, <1>3, <1>4, <2>1, <2>2, InstructionEnds, IsaStatus,
         IsaWords
      DEF ISA!ReturnFromInterrupt, ISA!IsSup, Boundary
  <1> QED
    BY <1>3, <1>5, IsaStep
-----------------------------------------------------------------------------
\* An instruction that is not fetched.
LEMMA FetchFaults ==
  ASSUME RunInv, Clock, Record, Boundary', FetchInstruction(CoreInputs)
  PROVE  ISA!Next
  <1>1. /\ state = "FETCH" /\ state' = "HALT" /\ ~CanAccess(psr, mpr, pc)
        /\ pc' = pc /\ regs' = regs /\ psr' = psr /\ ssp' = ssp /\ usp' = usp
    BY InputsSeen DEF FetchInstruction, IssueRead, AccessFault, Boundary
  <1>2. mem' = mem /\ mpr' = mpr /\ arch' = Visible'
    BY <1>1, RunStep DEF RunInv, MachineInv, CoreFlow, StrobeDrops
  <1>3. /\ arch.regs = regs /\ arch.pc = pc /\ arch.psr = psr
        /\ arch.ssp = ssp /\ arch.usp = usp /\ arch.mem = mem
        /\ ~arch.stopped
    BY <1>1, ArchAtBoundary DEF Boundary
  <1>4. ~ISA!Allowed({arch.pc})
    BY <1>1, <1>3, IsaAllowed
  <1>5. ISA!Fault(ISA!Peek(arch.mem, arch.pc))
    BY <1>1, <1>2, <1>3, <1>4, ArchRecorded DEF ISA!Fault
  <1> QED
    BY <1>5 DEF ISA!Next

\* An instruction that was fetched and stops the machine.
LEMMA IsaFaults ==
  ASSUME RunInv, Clock, Record, Executing, ~Bound("LATCH_IR"), ~PcPopped,
         state # "WRITE_STORE", state' = "HALT",
         pc' = pc, regs' = regs, psr' = psr, ssp' = ssp, usp' = usp,
         \/ Opcode(ir) = 13
         \/ Opcode(ir) = OP_RTI /\ ~IsSupervisor(psr)
         \/ ~ISA!Allowed(ISA!Accesses(ir))
  PROVE  ISA!Next
  <1>1. ISA!Fault(ir)
    BY InstructionEnds, IsaInstruction, IsaAddresses, IsaFields, IsaCodes,
       IsaStatus
    DEF ISA!Fault, ISA!IsSup, Boundary
  <1> QED
    BY <1>1, IsaStep

\* The reserved code, and RTI of a user, stop the core.
LEMMA DecodeFaults ==
  ASSUME RunInv, Clock, Record, Boundary', Decode(CoreInputs)
  PROVE  ISA!Next
  <1>1. /\ state = "DECODE" /\ state' = Dispatch(Opcode(ir), psr)
        /\ pc' = pc /\ regs' = regs /\ psr' = psr /\ ssp' = ssp /\ usp' = usp
    BY DEF Decode
  <1>2. Opcode(ir) \in Nat /\ Opcode(ir) < 16
    BY FieldTypes DEF RunInv, MachineInv, MachineTypeOK, CoreTypeOK
  <1>3. /\ state' = "HALT"
        /\ \/ Opcode(ir) = 13
           \/ Opcode(ir) = OP_RTI /\ ~IsSupervisor(psr)
    BY <1>1, <1>2, CodesDiffer DEF Dispatch, Boundary
  <1>4. Executing /\ ~Bound("LATCH_IR") /\ ~PcPopped
    BY <1>1, ExecutingStates
  <1> QED
    BY <1>1, <1>3, <1>4, IsaFaults

\* A pointer on a protected page stops the core.
LEMMA PointerFaults ==
  ASSUME RunInv, Clock, Record, Boundary', FetchIndirectPtr(CoreInputs)
  PROVE  ISA!Next
  <1>1. /\ state = "FETCH_INDIRECT_PTR"
        /\ pc' = pc /\ regs' = regs /\ psr' = psr /\ ssp' = ssp /\ usp' = usp
    BY DEF FetchIndirectPtr
  <1>2. state' # "MEM_WAIT"
    BY DEF Boundary
  <1>3. Opcode(ir) # OP_TRAP
    BY <1>2 DEF FetchIndirectPtr, OP_TRAP, OP_LDI
  <1>4. AccessFault(CoreInputs, PcRelative9)
    BY <1>2, <1>3, Zenon DEF FetchIndirectPtr, IssueRead
  <1>5. state' = "HALT" /\ ~CanAccess(psr, mpr, PcRelative9)
    BY <1>4, InputsSeen DEF AccessFault
  <1>6. Opcode(ir) \in {OP_LDI, OP_STI}
    BY <1>1, <1>3 DEF RunInv, InstructionDecoded
  <1>7. Executing /\ ~Bound("LATCH_IR") /\ ~PcPopped
    BY <1>1, ExecutingStates
  <1>8. ~ISA!Allowed(ISA!Accesses(ir))
    BY <1>5, <1>6, <1>7, IsaAccesses DEF PointerAllowed
  <1> QED
    BY <1>1, <1>5, <1>7, <1>8, IsaFaults

\* A load from a protected page stops the core.
LEMMA ReadFaults ==
  ASSUME RunInv, Clock, Record, Boundary', FetchMem(CoreInputs)
  PROVE  ISA!Next
  <1>1. /\ state = "FETCH_MEM" /\ state' = "HALT"
        /\ pc' = pc /\ regs' = regs /\ psr' = psr /\ ssp' = ssp /\ usp' = usp
        /\ \/ Opcode(ir) = OP_RTI /\ \E a : ~CanAccess(psr, mpr, a)
           \/ Opcode(ir) = OP_LD /\ ~CanAccess(psr, mpr, PcRelative9)
           \/ Opcode(ir) = OP_LDI /\ ~CanAccess(psr, mpr, mem_rdata)
           \/ /\ Opcode(ir) \notin {OP_LD, OP_LDI, OP_RTI}
              /\ ~CanAccess(psr, mpr, BaseOffset)
    BY InputsSeen DEF FetchMem, IssueRead, AccessFault, Boundary
  <1>2. /\ Opcode(ir) \in {OP_LD, OP_LDR, OP_LDI, OP_RTI}
        /\ Opcode(ir) = OP_LDI => mem_rdata = Peek(mem, PcRelative9)
        /\ Opcode(ir) = OP_RTI => IsSupervisor(psr)
        /\ pc_loaded => Opcode(ir) = OP_RTI
    BY <1>1 DEF RunInv, InstructionDecoded, InstructionOnBus, Bound,
       MachineInv, ReadDataFresh, UsesReadData, CoreFlow, RtiPrivileged,
       RtiHalfDone, InRti
  <1>3. Opcode(ir) # OP_RTI
    BY <1>1, <1>2 DEF CanAccess
  <1>4. ~CanAccess(psr, mpr, DataAddress)
    BY <1>1, <1>2, <1>3, CodesDiffer DEF DataAddress
  <1>5. Executing /\ ~Bound("LATCH_IR") /\ ~PcPopped
    BY <1>1, <1>2, <1>3 DEF Executing, Handling, Bound,
       PcPopped, Boundary
  <1>6. ~ISA!Allowed(ISA!Accesses(ir))
    BY <1>2, <1>3, <1>4, <1>5, IsaAccesses
  <1> QED
    BY <1>1, <1>5, <1>6, IsaFaults

\* A store to a protected page stops the core.
LEMMA StoreFaults ==
  ASSUME RunInv, Clock, Record, Boundary', ExecStore(CoreInputs)
  PROVE  ISA!Next
  <1>1. /\ state = "EXEC_STORE" /\ state' = "HALT"
        /\ pc' = pc /\ regs' = regs /\ psr' = psr /\ ssp' = ssp /\ usp' = usp
        /\ ~CanAccess(psr, mpr, CASE Opcode(ir) = OP_ST  -> PcRelative9
                                  [] Opcode(ir) = OP_STI -> mem_rdata
                                  [] OTHER               -> BaseOffset)
    BY InputsSeen DEF ExecStore, StoreAddress, IssueWrite, AccessFault,
       Boundary
  <1>2. /\ Opcode(ir) \in {OP_ST, OP_STR, OP_STI}
        /\ Opcode(ir) = OP_STI => mem_rdata = Peek(mem, PcRelative9)
    BY <1>1 DEF RunInv, InstructionDecoded, InstructionOnBus, Bound,
       MachineInv, ReadDataFresh, UsesReadData
  <1>3. ~CanAccess(psr, mpr, DataAddress)
    BY <1>1, <1>2, CodesDiffer DEF DataAddress
  <1>4. Executing /\ ~Bound("LATCH_IR") /\ ~PcPopped
    BY <1>1, ExecutingStates
  <1>5. ~ISA!Allowed(ISA!Accesses(ir))
    BY <1>2, <1>3, <1>4, IsaAccesses
  <1> QED
    BY <1>1, <1>4, <1>5, IsaFaults
-----------------------------------------------------------------------------
\* The frame of LC3ISA is the one the core pushes.
LEMMA IsaFrame ==
  ASSUME RunInv, Handling
  PROVE  /\ \A n : ISA!Slot(n) = FrameSlot(n)
         /\ ISA!Pushed(0) = arch.mem
         /\ ISA!Pushed(1) = Frame1
         /\ ISA!Pushed(2) = Frame2
  <1>1. pc = arch.pc /\ psr = arch.psr
    BY DEF RunInv, HandlerEntered
  <1>2. ISA!StackTop = FrameTop
    BY <1>1, IsaStatus DEF ISA!StackTop, ISA!IsSup, FrameTop
  <1>3. \A n : ISA!Slot(n) = FrameSlot(n)
    BY <1>2, IsaWords DEF ISA!Slot, FrameSlot
  <1> QED
    BY <1>1, <1>3, IsaWords DEF ISA!Pushed, Frame1, Frame2

\* A clock edge that ends the entry with n words of the frame on the stack.
LEMMA IsaEntered ==
  ASSUME RunInv, Clock, Record, Boundary', Handling, NEW n,
         regs' = FrameRegs(n), ssp' = ssp, usp' = usp
  PROVE  ISA!Entered(irq, n) /\ irq \in Irqs
  <1>1. mpr' = mpr /\ arch' = Visible'
    BY RunStep
  <1>2. /\ irq \in Irqs /\ irq.pending /\ irq.priority > Priority(psr)
        /\ psr = arch.psr /\ ssp = arch.ssp /\ ~arch.stopped
        /\ usp = IF IsSupervisor(psr) THEN arch.usp ELSE arch.regs[6]
    BY DEF RunInv, HandlerEntered
  <1>3. arch'.regs = FrameRegs(n) /\ arch'.ssp = ssp /\ arch'.usp = usp
    BY <1>1, ArchRecorded
  <1> QED
    BY <1>1, <1>2, <1>3, IsaFrame, IsaStatus
    DEF ISA!Entered, ISA!IsSup, FrameRegs

\* A frame or a vector that may not be accessed.
LEMMA EntryFaults ==
  ASSUME RunInv, Clock, Record, Boundary',
         \/ IntPushPSR(CoreInputs) \/ IntPushPC(CoreInputs)
         \/ IntWriteComplete(CoreInputs)
  PROVE  ISA!Next
  <1> DEFINE allowed(a) == CanAccess(psr, mpr, a)
  <1>1. /\ state \in {"INT_PUSH_PSR", "INT_PUSH_PC", "INT_WRITE_COMPLETE"}
        /\ state' = "HALT" /\ Handling
        /\ pc' = pc /\ psr' = psr /\ ssp' = ssp /\ usp' = usp
    BY DEF IntPushPSR, IntPushPC, IntWriteComplete, Push, IssueWrite,
       IssueRead, AccessFault, Boundary, Handling
  <1>2. /\ FrameTop \in Word /\ psr = arch.psr /\ pc = arch.pc
    BY <1>1 DEF RunInv, HandlerEntered
  <1>3. /\ arch'.regs = regs' /\ arch'.pc = pc' /\ arch'.psr = psr'
        /\ arch'.mem = mem' /\ arch'.stopped
    BY <1>1, RunStep, ArchRecorded
  <1>4. CASE state = "INT_PUSH_PSR"
    <2>1. /\ regs' = [regs EXCEPT ![6] = Plus(regs[6], 65535)]
          /\ ~allowed(Plus(regs[6], 65535))
      BY <1>1, <1>4, InputsSeen
      DEF IntPushPSR, IntPushPC, IntWriteComplete, Push, IssueWrite,
          AccessFault
    <2>2. regs = FrameRegs(0) /\ mem = arch.mem /\ mem' = mem
      BY <1>4, RunStep DEF RunInv, FramePushed, MachineInv, CoreFlow,
         StrobeDrops
    <2>3. Plus(regs[6], 65535) = FrameSlot(1)
      <3>1. regs[6] = FrameSlot(0)
        BY <2>2, StackMoves
      <3> QED
        BY <1>2, <3>1, FrameSlots
    <2>4. regs' = FrameRegs(1)
      BY <2>1, <2>2, <2>3, StackMoves DEF FrameRegs
    <2>5. ISA!Entered(irq, 1) /\ irq \in Irqs
      BY <1>1, <2>4, IsaEntered
    <2>6. ~ISA!Allowed({ISA!Slot(1)})
      BY <1>1, <1>2, <2>1, <2>3, IsaAllowed, IsaFrame
    <2>7. arch'.mem = ISA!Pushed(0)
      BY <1>1, <1>3, <2>2, IsaFrame
    <2>8. ISA!FaultingEntry(irq)
      BY <1>1, <1>2, <1>3, <2>5, <2>6, <2>7 DEF ISA!FaultingEntry
    <2> QED
      BY <2>5, <2>8 DEF ISA!Next
  <1>5. CASE state = "INT_PUSH_PC"
    <2>1. /\ regs' = [regs EXCEPT ![6] = Plus(regs[6], 65535)]
          /\ ~allowed(Plus(regs[6], 65535))
      BY <1>1, <1>5, InputsSeen
      DEF IntPushPSR, IntPushPC, IntWriteComplete, Push, IssueWrite,
          AccessFault
    <2>2. regs = FrameRegs(1) /\ mem' = Frame1 /\ allowed(FrameSlot(1))
      BY <1>5, RunStep DEF RunInv, FramePushed, Frame1
    <2>3. Plus(regs[6], 65535) = FrameSlot(2)
      <3>1. regs[6] = FrameSlot(1)
        BY <2>2, StackMoves
      <3> QED
        BY <1>2, <3>1, FrameSlots
    <2>4. regs' = FrameRegs(2)
      BY <2>1, <2>2, <2>3, StackMoves DEF FrameRegs
    <2>5. ISA!Entered(irq, 2) /\ irq \in Irqs
      BY <1>1, <2>4, IsaEntered
    <2>6. ISA!Allowed({ISA!Slot(1)}) /\ ~ISA!Allowed({ISA!Slot(2)})
      BY <1>1, <1>2, <2>1, <2>2, <2>3, IsaAllowed, IsaFrame
    <2>7. arch'.mem = ISA!Pushed(1)
      BY <1>1, <1>3, <2>2, IsaFrame
    <2>8. ISA!FaultingEntry(irq)
      BY <1>1, <1>2, <1>3, <2>5, <2>6, <2>7 DEF ISA!FaultingEntry
    <2> QED
      BY <2>5, <2>8 DEF ISA!Next
  <1>6. CASE state = "INT_WRITE_COMPLETE"
    <2>1. regs' = regs /\ ~allowed(256 + irq.vector)
      BY <1>1, <1>6, InputsSeen
      DEF IntPushPSR, IntPushPC, IntWriteComplete, IssueRead, AccessFault
    <2>2. /\ regs = FrameRegs(2) /\ mem' = Frame2
          /\ allowed(FrameSlot(1)) /\ allowed(FrameSlot(2))
      BY <1>6, RunStep DEF RunInv, FramePushed, Frame2
    <2>3. ISA!Entered(irq, 2) /\ irq \in Irqs
      BY <1>1, <2>1, <2>2, IsaEntered
    <2>4. /\ ISA!Allowed({ISA!Slot(1), ISA!Slot(2)})
          /\ ~ISA!Allowed({256 + irq.vector})
      BY <1>1, <1>2, <2>1, <2>2, IsaAllowed, IsaFrame
    <2>5. arch'.mem = ISA!Pushed(2)
      BY <1>1, <1>3, <2>2, IsaFrame
    <2>6. ISA!FaultingEntry(irq)
      BY <1>1, <1>2, <1>3, <2>3, <2>4, <2>5 DEF ISA!FaultingEntry
    <2> QED
      BY <2>3, <2>6 DEF ISA!Next
  <1> QED
    BY <1>1, <1>4, <1>5, <1>6

\* The handler is reached.
LEMMA EntryImplements ==
  ASSUME RunInv, Clock, Record, IntSetPC(CoreInputs)
  PROVE  ISA!Next
  <1>1. /\ state = "INT_SET_PC" /\ state' = "FETCH"
        /\ pc' = mem_rdata
        /\ psr' = SetModeBit(SetPriority(psr, irq.priority), SupervisorBit)
        /\ regs' = regs /\ ssp' = ssp /\ usp' = usp
    BY InputsSeen DEF IntSetPC
  <1>2. /\ regs = FrameRegs(2) /\ mem = Frame2
        /\ CanAccess(psr, mpr, FrameSlot(1))
        /\ CanAccess(psr, mpr, FrameSlot(2))
        /\ CanAccess(psr, mpr, 256 + irq.vector)
        /\ mem_rdata = Peek(mem, 256 + irq.vector)
    BY <1>1 DEF RunInv, FramePushed, Bound, MachineInv, ReadDataFresh,
       UsesReadData
  <1>3. Handling /\ Boundary' /\ mem' = mem
    <2>1. ~mem_we
      BY <1>1 DEF RunInv, MachineInv, CoreFlow, StrobeDrops
    <2>2. Handling /\ Boundary'
      BY <1>1 DEF Handling, Bound, Boundary
    <2> QED
      BY <2>1, <2>2, RunStep
  <1>4. psr = arch.psr
    BY <1>3 DEF RunInv, HandlerEntered
  <1>5. /\ arch'.pc = pc' /\ arch'.psr = psr'
        /\ arch'.mem = mem' /\ arch'.stopped = FALSE
    BY <1>1, <1>3, RunStep, ArchRecorded
  <1>6. ISA!Entered(irq, 2) /\ irq \in Irqs
    BY <1>1, <1>2, <1>3, IsaEntered
  <1>7. ISA!Allowed({ISA!Slot(1), ISA!Slot(2), 256 + irq.vector})
    BY <1>2, <1>3, <1>4, IsaAllowed, IsaFrame
  <1>8. ISA!EnterHandler(irq)
    BY <1>1, <1>2, <1>3, <1>4, <1>5, <1>6, <1>7, IsaFrame, IsaWords,
       IsaStatus
    DEF ISA!EnterHandler
  <1> QED
    BY <1>6, <1>8 DEF ISA!Next
-----------------------------------------------------------------------------
\* Every clock edge is a step of LC3ISA or changes nothing of it.
LEMMA ClockImplements ==
  ASSUME RunInv, Clock, Record
  PROVE  ISA!Next \/ UNCHANGED ISA!isaVars
  <1> DEFINE in == CoreInputs
  <1>1. CASE ~Boundary'
    BY <1>1, RunStep DEF ISA!isaVars
  <1>2. CASE Boundary' /\ state = "HALT"
    <2>1. /\ state' = state /\ regs' = regs /\ pc' = pc /\ psr' = psr
          /\ ssp' = ssp /\ usp' = usp /\ mem' = mem /\ mpr' = mpr
          /\ arch' = Visible'
      <3>1. CoreStep(in) /\ ~mem_we
        BY <1>2, RunStep DEF RunInv, MachineInv, CoreFlow, StrobeDrops
      <3>2. Halted(in)
        BY <1>2, <3>1 DEF CoreStep, FetchInstruction, AcceptInterrupt,
           LatchIR, Decode, ExecBR, ExecALU, ExecLEA, ExecJMP, ExecJSR,
           MemWait, FetchIndirectPtr, FetchMem, RegWriteback, ExecStore,
           WriteStore, ExecTrap, PcWrite, PsrWrite, IntPushPSR, IntPushPC,
           IntWriteComplete, IntSetPC
      <3> QED
        BY <1>2, <3>1, <3>2, RunStep DEF Halted, coreVars
    <2>2. arch' = arch
      BY <1>2, <2>1 DEF RunInv, Visible, Boundary
    <2> QED
      BY <2>1, <2>2 DEF ISA!isaVars
  <1>3. CASE Boundary' /\ state # "HALT"
    <2>1. CoreStep(in) /\ ~Halted(in)
      BY <1>3, RunStep DEF Halted
    <2>2. ~ (AcceptInterrupt(in) \/ LatchIR(in) \/ PcWrite(in))
      BY <1>3 DEF AcceptInterrupt, LatchIR, PcWrite, Boundary
    <2>3. ~MemWait(in)
      BY <1>3 DEF MemWait, Boundary, RunInv, MachineInv, CoreFlow,
         ReadReturns
    <2> HIDE DEF in
    <2>4. \/ FetchInstruction(in) \/ Decode(in) \/ ExecBR(in)
          \/ ExecALU(in) \/ ExecLEA(in) \/ ExecJMP(in) \/ ExecJSR(in)
          \/ FetchIndirectPtr(in) \/ FetchMem(in) \/ RegWriteback(in)
          \/ ExecStore(in) \/ WriteStore(in) \/ ExecTrap(in) \/ PsrWrite(in)
          \/ IntPushPSR(in) \/ IntPushPC(in) \/ IntWriteComplete(in)
          \/ IntSetPC(in)
      BY <2>1, <2>2, <2>3 DEF CoreStep
    <2> QED
      BY <1>3, <2>4, FetchFaults, DecodeFaults, BranchImplements,
         OperateImplements, JumpImplements, SubroutineImplements,
         PointerFaults, ReadFaults, LoadImplements, StoreFaults,
         StoreImplements, TrapImplements, RtiImplements, EntryFaults,
         EntryImplements DEF in
  <1> QED
    BY <1>1, <1>2, <1>3

\* RunInv holds after reset.
LEMMA RunInvInit == RunInit => RunInv
  <1>1. SUFFICES ASSUME RunInit PROVE RunInv
    OBVIOUS
  <1>2. MachineInv /\ irq \in Irqs /\ state = "FETCH" /\ arch = Visible
    BY <1>1, MachineInvInit DEF RunInit, MachineInit, CoreInit
  <1> QED
    BY <1>2 DEF RunInv, Executing, Handling, Bound, Boundary,
       InstructionHidden, InstructionFetched, InstructionDecoded,
       InstructionOnBus, HandlerEntered, FramePushed

\* Every step of a run keeps RunInv.
LEMMA RunInvNext == ASSUME RunInv, [RunNext]_runVars
                    PROVE  RunInv'
  <1>1. CASE Running
    BY <1>1, RunInvStep DEF Running
  <1>2. CASE UNCHANGED runVars
    <2>1. /\ UNCHANGED machineVars /\ arch' = arch
          /\ state' = state /\ return_state' = return_state /\ regs' = regs
          /\ pc' = pc /\ ir' = ir /\ psr' = psr /\ ssp' = ssp /\ usp' = usp
          /\ pc_loaded' = pc_loaded /\ mem_addr' = mem_addr
          /\ mem_wdata' = mem_wdata /\ mem_we' = mem_we
          /\ mem' = mem /\ mpr' = mpr /\ irq' = irq
      BY <1>2 DEF runVars, machineVars, coreVars
    <2>2. MachineInv'
      BY <2>1, MachineInvStutter DEF RunInv
    <2>3. (Boundary => arch = Visible)'
      BY <2>1 DEF RunInv, Boundary, Visible
    <2>4. InstructionHidden' /\ InstructionFetched' /\ InstructionDecoded'
      BY <2>1 DEF RunInv, InstructionHidden, InstructionFetched,
         InstructionDecoded, Instruction, PcPopped, Executing, Handling,
         Bound, Boundary
    <2>5. InstructionOnBus'
      BY <2>1 DEF RunInv, InstructionOnBus, DataOnBus, DataAddress,
         PointerAllowed, PcRelative9, BaseOffset, Bound
    <2>6. HandlerEntered' /\ FramePushed'
      BY <2>1 DEF RunInv, HandlerEntered, FramePushed, FrameRegs, FrameSlot,
         FrameTop, Frame1, Frame2, Handling, Bound
    <2> QED
      BY <2>1, <2>2, <2>3, <2>4, <2>5, <2>6 DEF RunInv
  <1> QED
    BY <1>1, <1>2 DEF RunNext, Observed

\* How far an instruction or the entry into a handler has come.
THEOREM RunInvariant == RunSpec => []RunInv
  <1>1. RunInv /\ [RunNext]_runVars => RunInv'
    BY RunInvNext
  <1> QED
    BY RunInvInit, <1>1, PTL DEF RunSpec

\* The clocked controller implements the instruction set: whatever the
\* program, the protection, the privilege encoding and the interrupts, what a
\* programmer sees from one instruction boundary to the next is one
\* instruction, one fault or one entry into a handler.
THEOREM CoreImplementsISA == RunSpec => ImplementsISA
  <1>1. RunInit => ISA!Init
    <2>1. SUFFICES ASSUME RunInit PROVE ISA!Init
      OBVIOUS
    <2>2. MachineInit /\ CoreInit /\ arch = Visible /\ state = "FETCH"
      BY <2>1 DEF RunInit, MachineInit, CoreInit
    <2>3. /\ arch.regs = regs /\ arch.pc = pc /\ arch.psr = psr
          /\ arch.ssp = ssp /\ arch.usp = usp /\ arch.mem = mem
          /\ arch.stopped = FALSE
      BY <2>2 DEF Visible
    <2>4. ISA!Reg = Reg
      BY DEF ISA!Reg, Reg
    <2> QED
      BY <2>2, <2>3, <2>4, IsaStatus DEF ISA!Init, MachineInit, CoreInit
  <1>2. RunInv /\ [RunNext]_runVars => [ISA!Next]_ISA!isaVars
    <2>1. SUFFICES ASSUME RunInv, [RunNext]_runVars
                   PROVE  ISA!Next \/ UNCHANGED ISA!isaVars
      OBVIOUS
    <2>2. CASE UNCHANGED runVars
      BY <2>2 DEF runVars, machineVars, ISA!isaVars
    <2> QED
      BY <2>1, <2>2, ClockImplements DEF RunNext, Running, Observed
  <1> QED
    BY <1>1, <1>2, RunInvariant, PTL
    DEF RunSpec, ImplementsISA, ISA!Spec
\* The history variables hold nothing back: a run is a behaviour of the
\* machine, so what is proved of MachineSpec is true of it.
THEOREM RunIsMachine == RunSpec => MachineSpec
  <1>1. RunInit => MachineInit
    BY DEF RunInit
  <1>2. [RunNext]_runVars => [Clock]_machineVars
    BY DEF RunNext, Running, Observed, runVars
  <1> QED
    BY <1>1, <1>2, PTL DEF RunSpec, MachineSpec
-----------------------------------------------------------------------------
(***************************************************************************)
(* Interrupted programs.  frames records them; what the handlers do with   *)
(* the stack and the registers is theirs, and the theorems say what the    *)
(* core gives back when they leave both as they found them.                *)
(***************************************************************************)
Frame == [pc : Word, psr : Word, regs : [Reg -> Word], ssp : Word]

\* A step of a run is one of the core, on typed inputs.
LEMMA CoreOfRun ==
  ASSUME RunInv, Clock, Record
  PROVE  /\ CoreTypeOK /\ CoreFlow /\ CoreInputs \in CoreInput
         /\ CoreStep(CoreInputs)
         /\ CoreInputs.irq_priority = irq.priority
  BY RunStep, InputsTyped, InputsSeen
  DEF RunInv, MachineInv, MachineTypeOK

\* A frame is recorded when an interrupt is accepted, and forgotten by an RTI.
LEMMA FramesStep ==
  ASSUME RunInv, Clock, Record
  PROVE  \/ /\ AcceptInterrupt(CoreInputs) /\ irq.priority > Priority(psr)
            /\ frames' = Append(frames, Context)
         \/ /\ state = "PSR_WRITE" /\ frames # <<>>
            /\ frames' = SubSeq(frames, 1, Len(frames) - 1)
         \/ /\ state # "PSR_WRITE" \/ frames = <<>>
            /\ state' # "INT_PUSH_PSR" /\ frames' = frames
  <1>1. CASE state' = "INT_PUSH_PSR"
    <2>1. AcceptInterrupt(CoreInputs)
      BY <1>1, CoreOfRun, EntrySteps
    <2> QED
      BY <1>1, <2>1, InputsSeen DEF Record, AcceptInterrupt, Accepts
  <1>2. CASE state' # "INT_PUSH_PSR"
    BY <1>2 DEF Record
  <1> QED
    BY <1>1, <1>2

\* The priorities of the interrupted programs, and of the handler.
PrioritiesRise ==
    \A i \in 1 .. Len(frames) :
        /\ Priority(frames[i].psr) <= Priority(psr)
        /\ ~Handling /\ state # "HALT" =>
             Priority(frames[i].psr) < Priority(psr)

NestInv == frames \in Seq(Frame) /\ NestingBounded /\ PrioritiesRise

\* A sequence without its last element.
LEMMA ButLast ==
  ASSUME NEW S, NEW s \in Seq(S), s # <<>>
  PROVE  /\ Len(s) \in Nat /\ Len(s) > 0
         /\ SubSeq(s, 1, Len(s) - 1) \in Seq(S)
         /\ Len(SubSeq(s, 1, Len(s) - 1)) = Len(s) - 1
         /\ \A i \in 1 .. Len(s) - 1 : SubSeq(s, 1, Len(s) - 1)[i] = s[i]
  <1>1. Len(s) \in Nat /\ Len(s) > 0
    OBVIOUS
  <1>2. \A i \in 1 .. Len(s) - 1 : s[i] \in S
    OBVIOUS
  <1>3. PICK m \in Nat : m = Len(s) - 1
    BY <1>1
  <1>4. SubSeq(s, 1, m) = [i \in 1 .. m |-> s[i]]
    BY <1>1, <1>3
  <1>5. [i \in 1 .. m |-> s[i]] \in Seq(S)
    BY <1>2, <1>3
  <1>6. Len([i \in 1 .. m |-> s[i]]) = m
    BY <1>3
  <1> QED
    BY <1>1, <1>3, <1>4, <1>5, <1>6

\* A sequence with one more.
LEMMA OneMore ==
  ASSUME NEW S, NEW s \in Seq(S), NEW e \in S
  PROVE  /\ Append(s, e) \in Seq(S)
         /\ Len(Append(s, e)) = Len(s) + 1
         /\ \A i \in 1 .. Len(s) : Append(s, e)[i] = s[i]
         /\ Append(s, e)[Len(s) + 1] = e
  OBVIOUS

\* No program is interrupted yet.
LEMMA NestInit == RunInit => NestInv
  <1>1. SUFFICES ASSUME RunInit PROVE NestInv
    OBVIOUS
  <1>2. frames = <<>>
    BY <1>1 DEF RunInit
  <1> QED
    BY <1>2 DEF NestInv, NestingBounded, PrioritiesRise

\* An RTI that gives back the context it was given keeps NestInv, and so does
\* every other clock.
LEMMA NestStep ==
  ASSUME RunInv, NestInv, Clock, Record,
         state = "PSR_WRITE" /\ frames # <<>> =>
           Context' = frames[Len(frames)]
  PROVE  NestInv'
  <1> DEFINE n == Len(frames)
  <1>1. /\ n \in Nat /\ frames \in Seq(Frame)
        /\ \A i \in 1 .. n : Priority(frames[i].psr) <= Priority(psr)
        /\ \A i, j \in 1 .. n :
             i < j => Priority(frames[i].psr) < Priority(frames[j].psr)
        /\ ~Handling /\ state # "HALT" =>
             \A i \in 1 .. n : Priority(frames[i].psr) < Priority(psr)
    BY DEF NestInv, PrioritiesRise, NestingBounded
  <1>2. MachineTypeOK /\ CoreTypeOK
    BY DEF RunInv, MachineInv, MachineTypeOK
  <1>3. \A p \in Word : Priority(p) \in Nat
    BY DEF Priority, Word
  <1>4. \A i \in 1 .. n : Priority(frames[i].psr) \in Nat
    <2>1. \A i \in 1 .. n : frames[i] \in Frame
      BY <1>1
    <2>2. \A f \in Frame : f.psr \in Word
      BY DEF Frame
    <2> QED
      BY <1>3, <2>1, <2>2
  <1>5. CASE AcceptInterrupt(CoreInputs) /\ frames' = Append(frames, Context)
    <2>1. /\ state = "FETCH" /\ state' = "INT_PUSH_PSR" /\ psr' = psr
      BY <1>5 DEF AcceptInterrupt
    <2>2. ~Handling /\ Handling'
      BY <2>1 DEF Handling, Bound
    <2>3. Context \in Frame /\ Context.psr = psr
      BY <1>2 DEF Context, Frame, CoreTypeOK
    <2>4. /\ frames' \in Seq(Frame) /\ Len(frames') = n + 1
          /\ \A i \in 1 .. n : frames'[i] = frames[i]
          /\ frames'[n + 1] = Context
      BY <1>1, <1>5, <2>3, OneMore
    <2>5. \A i \in 1 .. n : Priority(frames[i].psr) < Priority(psr)
      BY <1>1, <2>1, <2>2
    <2>6. NestingBounded'
      BY <1>1, <2>3, <2>4, <2>5 DEF NestingBounded
    <2>7. PrioritiesRise'
      BY <1>1, <1>3, <1>2, <2>1, <2>2, <2>3, <2>4, <2>5
      DEF PrioritiesRise, CoreTypeOK
    <2> QED
      BY <2>4, <2>6, <2>7 DEF NestInv
  <1>6. CASE /\ state = "PSR_WRITE" /\ frames # <<>>
             /\ frames' = SubSeq(frames, 1, Len(frames) - 1)
    <2>1. n > 0
      BY <1>1, <1>6, ButLast
    <2>2. /\ frames' \in Seq(Frame) /\ Len(frames') = n - 1
          /\ \A i \in 1 .. n - 1 : frames'[i] = frames[i]
      BY <1>1, <1>6, ButLast
    <2>3. Context'.psr = psr' /\ psr' = frames[n].psr
      BY <1>6 DEF Context
    <2>4. \A i \in 1 .. n - 1 : Priority(frames[i].psr) < Priority(psr')
      BY <1>1, <2>1, <2>3
    <2>5. \A i \in 1 .. n - 1 : Priority(frames[i].psr) \in Nat
      BY <1>1, <1>4
    <2>6. Priority(psr') \in Nat
      BY <1>1, <1>4, <2>1, <2>3
    <2>7. NestingBounded'
      BY <1>1, <2>1, <2>2 DEF NestingBounded
    <2>8. PrioritiesRise'
      BY <1>1, <2>2, <2>4, <2>5, <2>6 DEF PrioritiesRise
    <2> QED
      BY <2>2, <2>7, <2>8 DEF NestInv
  <1>7. CASE frames' = frames /\ (state # "PSR_WRITE" \/ frames = <<>>)
    <2>1. NestingBounded'
      BY <1>1, <1>7 DEF NestingBounded
    <2>2. CASE frames = <<>>
      BY <1>1, <1>7, <2>1, <2>2 DEF NestInv, PrioritiesRise
    <2>3. CASE state = "INT_SET_PC"
      <3>1. Priority(psr') = irq.priority /\ irq.priority > Priority(psr)
        BY <1>7, <2>3, CoreOfRun, PriorityStep
        DEF RunInv, HandlerEntered, Handling, Bound
      <3>2. Priority(psr) \in Nat /\ irq.priority \in Nat
        BY <1>3, <1>2 DEF CoreTypeOK, MachineTypeOK, Irq
      <3>3. PrioritiesRise'
        BY <1>1, <1>7, <1>4, <3>1, <3>2 DEF PrioritiesRise
      <3> QED
        BY <1>1, <1>7, <2>1, <3>3 DEF NestInv
    <2>4. CASE state # "INT_SET_PC" /\ frames # <<>>
      <3>1. Priority(psr') = Priority(psr)
        BY <1>7, <2>4, CoreOfRun, PriorityStep
      <3>2. ~Handling' /\ state' # "HALT" => ~Handling /\ state # "HALT"
        BY <2>4, CoreOfRun, EntrySteps, HaltLasts DEF IntSetPC, coreVars
      <3>3. PrioritiesRise'
        BY <1>1, <1>7, <3>1, <3>2 DEF PrioritiesRise
      <3> QED
        BY <1>1, <1>7, <2>1, <3>3 DEF NestInv
    <2> QED
      BY <2>2, <2>3, <2>4
  <1> QED
    BY <1>5, <1>6, <1>7, FramesStep

\* When every handler gives the program it interrupted its context back, the
\* priorities of the interrupted programs rise from each to the next.
THEOREM NestingIsBounded ==
    RunSpec /\ ContextRestored => []NestingBounded
  <1> DEFINE Restores == state = "PSR_WRITE" /\ frames # <<>> =>
                           Context' = frames[Len(frames)]
  <1>1. RunInv /\ NestInv /\ [RunNext]_runVars /\ [Restores]_runVars
          => NestInv'
    <2>1. SUFFICES ASSUME RunInv, NestInv, [RunNext]_runVars,
                          [Restores]_runVars
                   PROVE  NestInv'
      OBVIOUS
    <2>2. CASE UNCHANGED runVars
      BY <2>1, <2>2 DEF NestInv, NestingBounded, PrioritiesRise, Handling,
         Bound, runVars, machineVars, coreVars
    <2>3. CASE Running /\ Restores
      BY <2>1, <2>3, NestStep DEF Running
    <2> QED
      BY <2>1, <2>2, <2>3 DEF RunNext, Observed
  <1>2. NestInv => NestingBounded
    BY DEF NestInv
  <1> QED
    BY NestInit, <1>1, <1>2, RunInvariant, PTL DEF RunSpec, ContextRestored
-----------------------------------------------------------------------------
\* The stack pointers that wait for their programs, and the mode of the
\* handlers.
RestoreInv ==
    /\ frames \in Seq(Frame)
    /\ \A i \in 1 .. Len(frames) :
         /\ frames[i].ssp = ssp
         /\ i > 1 => IsSupervisor(frames[i].psr)
    /\ frames # <<>> =>
         /\ ~IsSupervisor(frames[1].psr) => usp = frames[1].regs[6]
         /\ ~Handling /\ state # "HALT" => IsSupervisor(psr)
         /\ InRti => FrameIntact

\* Below the frame stand the two words it takes.
LEMMA TakeTwo ==
  ASSUME NEW a \in Word
  PROVE  /\ Plus(Plus(a, 65534), 1) = Plus(a, 65535)
         /\ Plus(Plus(a, 65534), 2) = a
         /\ Plus(Plus(a, 65535), 65535) = Plus(a, 65534)
  BY DEF Plus, Word

\* Until its last clock an RTI is an RTI, and it leaves the registers alone.
LEMMA RtiBegins ==
  ASSUME RunInv, Clock, Record, InRti'
  PROVE  /\ InRti \/ (state = "DECODE" /\ Opcode(ir) = OP_RTI)
         /\ state # "PSR_WRITE" /\ state' # "INT_PUSH_PSR"
         /\ regs' = regs /\ mem' = mem
  <1> DEFINE in == CoreInputs
  <1> HIDE DEF in
  <1>1. CoreStep(in)
    BY RunStep DEF in
  <1>2. ~mem_we => mem' = mem
    BY RunStep
  <1>3. mem_we => state \in {"WRITE_STORE", "INT_PUSH_PC",
                             "INT_WRITE_COMPLETE"}
    BY DEF RunInv, MachineInv, CoreFlow, StrobeDrops
  <1> USE DEF InRti, Bound
  <1>4. CASE FetchInstruction(in) \/ FetchIndirectPtr(in)
    BY <1>4 DEF FetchInstruction, FetchIndirectPtr, IssueRead, AccessFault
  <1>5. CASE FetchMem(in)
    BY <1>2, <1>3, <1>5 DEF FetchMem, IssueRead, AccessFault
  <1>6. CASE AcceptInterrupt(in) \/ LatchIR(in) \/ PsrWrite(in)
    BY <1>6 DEF AcceptInterrupt, LatchIR, PsrWrite
  <1>7. CASE Decode(in)
    <2>1. state = "DECODE" /\ state' = Dispatch(Opcode(ir), psr)
          /\ ir' = ir /\ regs' = regs
      BY <1>7 DEF Decode
    <2>2. state' = "FETCH_MEM" /\ Opcode(ir') = OP_RTI
      BY <2>1 DEF Dispatch
    <2> QED
      BY <1>2, <1>3, <2>1, <2>2
  <1>8. CASE \/ ExecBR(in) \/ ExecALU(in) \/ ExecLEA(in) \/ ExecJMP(in)
             \/ ExecJSR(in) \/ RegWriteback(in) \/ ExecTrap(in)
    BY <1>8 DEF ExecBR, ExecALU, ExecLEA, ExecJMP, ExecJSR, RegWriteback,
                ExecTrap
  <1>9. CASE WriteStore(in) \/ IntSetPC(in)
    BY <1>9 DEF WriteStore, IntSetPC
  <1>10. CASE PcWrite(in)
    BY <1>2, <1>3, <1>10 DEF PcWrite
  <1>11. CASE ExecStore(in)
    BY <1>11 DEF ExecStore, IssueWrite, AccessFault
  <1>12. CASE IntPushPSR(in) \/ IntPushPC(in) \/ IntWriteComplete(in)
    BY <1>12 DEF IntPushPSR, IntPushPC, IntWriteComplete, Push, IssueWrite,
                IssueRead, AccessFault
  <1>13. CASE MemWait(in)
    <2>1. /\ state = "MEM_WAIT" /\ state' = return_state
          /\ return_state' = return_state /\ ir' = ir /\ regs' = regs
          /\ return_state \in {"LATCH_IR", "FETCH_MEM", "REG_WRITEBACK",
                               "PC_WRITE", "PSR_WRITE", "EXEC_STORE",
                               "EXEC_TRAP", "INT_SET_PC"}
          /\ return_state = "FETCH_MEM" => Opcode(ir) = OP_LDI
      BY <1>13 DEF MemWait, RunInv, MachineInv, CoreFlow, ReadReturns
    <2> QED
      BY <1>2, <1>3, <2>1 DEF OP_LDI, OP_RTI
  <1>14. CASE Halted(in)
    BY <1>14 DEF Halted, coreVars
  <1> QED
    BY <1>1, <1>4, <1>5, <1>6, <1>7, <1>8, <1>9, <1>10, <1>11, <1>12, <1>13,
       <1>14 DEF CoreStep

\* The RTI of a handler that kept to HandlersTidy.
LEMMA RtiRestores ==
  ASSUME RunInv, RestoreInv, Clock, Record, state = "PSR_WRITE",
         frames # <<>>
  PROVE  Context' = Interrupted
  <1> DEFINE f   == Interrupted
             top == StackTop(f)
  <1>1. /\ f \in Frame /\ Len(frames) \in Nat /\ Len(frames) > 0
        /\ Len(frames) > 1 => IsSupervisor(f.psr)
        /\ f.ssp = ssp
    <2>1. frames \in Seq(Frame)
      BY DEF RestoreInv
    <2>2. Len(frames) \in Nat /\ Len(frames) > 0
      BY <2>1, ButLast
    <2>3. Len(frames) \in 1 .. Len(frames)
      BY <2>2
    <2> QED
      BY <2>1, <2>2, <2>3 DEF RestoreInv, Interrupted
  <1>2. ~IsSupervisor(f.psr) => usp = f.regs[6]
    <2>1. SUFFICES ASSUME ~IsSupervisor(f.psr) PROVE usp = f.regs[6]
      OBVIOUS
    <2>2. ~(Len(frames) > 1)
      BY <1>1, <2>1, Zenon
    <2>3. PICK m \in Nat : m = Len(frames) /\ m > 0
      BY <1>1
    <2>4. m = 1
      BY <2>2, <2>3
    <2>5. f = frames[1]
      BY <2>3, <2>4 DEF Interrupted
    <2> QED
      BY <2>1, <2>5 DEF RestoreInv
  <1>3. /\ f.pc \in Word /\ f.psr \in Word /\ f.ssp \in Word
        /\ f.regs \in [Reg -> Word] /\ 6 \in Reg
        /\ f = [pc |-> f.pc, psr |-> f.psr, regs |-> f.regs, ssp |-> f.ssp]
    BY <1>1 DEF Frame, Reg
  <1>4. top \in Word
    BY <1>3 DEF StackTop
  <1>5. /\ regs = [f.regs EXCEPT ![6] = Plus(top, 65534)]
        /\ Peek(mem, Plus(top, 65534)) = f.pc
        /\ Peek(mem, Plus(top, 65535)) = f.psr
    BY DEF RestoreInv, InRti, Bound, FrameIntact
  <1>6. regs[6] = Plus(top, 65534)
    BY <1>3, <1>5
  <1>7. pc = f.pc
    BY <1>5, <1>6 DEF RunInv, InstructionFetched, Executing, Boundary,
       Handling, Bound, PcPopped
  <1>8. mem_rdata = f.psr
    <2>1. mem_rdata = Peek(mem, mem_addr)
      BY DEF RunInv, MachineInv, ReadDataFresh, UsesReadData
    <2>2. mem_addr = Plus(regs[6], 1)
      BY DEF RunInv, InstructionOnBus, Bound
    <2> QED
      BY <1>4, <1>5, <1>6, <2>1, <2>2, TakeTwo
  <1>9. /\ psr' = mem_rdata /\ pc' = pc
        /\ IF IsSupervisor(mem_rdata)
           THEN regs' = [regs EXCEPT ![6] = Plus(@, 2)] /\ ssp' = ssp
           ELSE ssp' = Plus(regs[6], 2) /\ regs' = [regs EXCEPT ![6] = usp]
    <2>1. PsrWrite(CoreInputs)
      BY RunStep, PsrWriteOnly
    <2> QED
      BY <2>1, InputsSeen DEF PsrWrite
  <1>10. Plus(regs[6], 2) = top
    BY <1>4, <1>6, TakeTwo
  <1>11. regs' = f.regs /\ ssp' = f.ssp
    <2>1. CASE IsSupervisor(f.psr)
      <3>1. top = f.regs[6]
        BY <2>1 DEF StackTop
      <3>2. regs' = [regs EXCEPT ![6] = top] /\ ssp' = ssp
        BY <1>8, <1>9, <1>10, <2>1
      <3> QED
        BY <1>1, <1>3, <1>5, <3>1, <3>2
    <2>2. CASE ~IsSupervisor(f.psr)
      <3>1. top = f.ssp
        BY <2>2 DEF StackTop
      <3>2. regs' = [regs EXCEPT ![6] = f.regs[6]] /\ ssp' = top
        BY <1>2, <1>8, <1>9, <1>10, <2>2
      <3> QED
        BY <1>3, <1>5, <3>1, <3>2
    <2> QED
      BY <2>1, <2>2
  <1> QED
    BY <1>3, <1>7, <1>8, <1>9, <1>11 DEF Context

\* No program waits for its stack pointer yet.
LEMMA RestoreInit == RunInit => RestoreInv
  <1>1. SUFFICES ASSUME RunInit PROVE RestoreInv
    OBVIOUS
  <1>2. frames = <<>>
    BY <1>1 DEF RunInit
  <1> QED
    BY <1>2 DEF RestoreInv

\* A handler that is interrupted, returned to or goes on keeps RestoreInv.
LEMMA RestoreStep ==
  ASSUME RunInv, RestoreInv, HandlersTidy, Clock, Record
  PROVE  RestoreInv'
  <1> DEFINE n == Len(frames)
  <1>1. /\ n \in Nat /\ frames \in Seq(Frame)
        /\ \A i \in 1 .. n : /\ frames[i].ssp = ssp
                             /\ i > 1 => IsSupervisor(frames[i].psr)
        /\ frames # <<>> =>
             /\ ~IsSupervisor(frames[1].psr) => usp = frames[1].regs[6]
             /\ ~Handling /\ state # "HALT" => IsSupervisor(psr)
    BY DEF RestoreInv
  <1>2. MachineTypeOK /\ CoreTypeOK
    BY DEF RunInv, MachineInv, MachineTypeOK
  <1>3. CASE AcceptInterrupt(CoreInputs) /\ frames' = Append(frames, Context)
    <2>1. /\ state = "FETCH" /\ state' = "INT_PUSH_PSR"
          /\ psr' = psr /\ ssp' = ssp
          /\ usp' = IF IsSupervisor(psr) THEN usp ELSE regs[6]
      BY <1>3 DEF AcceptInterrupt
    <2>2. ~Handling /\ Handling' /\ ~InRti'
      BY <2>1 DEF Handling, Bound, InRti
    <2>3. /\ Context \in Frame /\ Context.psr = psr /\ Context.ssp = ssp
          /\ Context.regs = regs
      BY <1>2 DEF Context, Frame, CoreTypeOK
    <2>4. /\ frames' \in Seq(Frame) /\ Len(frames') = n + 1
          /\ \A i \in 1 .. n : frames'[i] = frames[i]
          /\ frames'[n + 1] = Context
      BY <1>1, <1>3, <2>3, OneMore
    <2>5. n > 0 => IsSupervisor(psr) /\ frames # <<>>
      BY <1>1, <2>1, <2>2
    <2>6. \A i \in 1 .. n + 1 : /\ frames'[i].ssp = ssp
                                /\ i > 1 => IsSupervisor(frames'[i].psr)
      BY <1>1, <2>3, <2>4, <2>5
    <2>7. ~IsSupervisor(frames'[1].psr) => usp' = frames'[1].regs[6]
      <3>1. CASE n = 0
        BY <2>1, <2>3, <2>4, <3>1
      <3>2. CASE n > 0
        <4>1. frames'[1] = frames[1] /\ usp' = usp
          BY <1>1, <2>1, <2>4, <2>5, <3>2
        <4> QED
          BY <1>1, <2>5, <3>2, <4>1
      <3> QED
        BY <1>1, <3>1, <3>2
    <2> QED
      BY <2>1, <2>2, <2>4, <2>6, <2>7 DEF RestoreInv
  <1>4. CASE /\ state = "PSR_WRITE" /\ frames # <<>>
             /\ frames' = SubSeq(frames, 1, Len(frames) - 1)
    <2>1. /\ n > 0 /\ frames' \in Seq(Frame) /\ Len(frames') = n - 1
          /\ \A i \in 1 .. n - 1 : frames'[i] = frames[i]
      BY <1>1, <1>4, ButLast
    <2>2. psr' = frames[n].psr /\ ssp' = frames[n].ssp
      BY <1>4, RtiRestores DEF Context, Interrupted
    <2>3. ssp' = ssp
      BY <1>1, <2>1, <2>2
    <2>4. state' = "FETCH" /\ usp' = usp
      BY <1>4, RunStep, PsrWriteOnly DEF PsrWrite
    <2>5. ~InRti'
      BY <2>4 DEF InRti, Bound
    <2>6. \A i \in 1 .. n - 1 : /\ frames'[i].ssp = ssp'
                                /\ i > 1 => IsSupervisor(frames'[i].psr)
      BY <1>1, <2>1, <2>3
    <2>7. CASE n = 1
      <3>1. frames' = <<>>
        BY <2>1, <2>7
      <3> QED
        BY <2>1, <2>6, <3>1 DEF RestoreInv
    <2>8. CASE n > 1
      <3>1. IsSupervisor(psr')
        BY <1>1, <2>2, <2>8
      <3>2. frames'[1] = frames[1]
        BY <1>1, <2>1, <2>8
      <3> QED
        BY <1>1, <1>4, <2>1, <2>4, <2>5, <2>6, <3>1, <3>2 DEF RestoreInv
    <2> QED
      BY <1>1, <2>1, <2>7, <2>8
  <1>5. CASE /\ state # "PSR_WRITE" \/ frames = <<>>
             /\ state' # "INT_PUSH_PSR" /\ frames' = frames
    <2>1. CASE frames = <<>>
      BY <1>1, <1>5, <2>1 DEF RestoreInv
    <2>2. CASE frames # <<>>
      <3>1. state # "PSR_WRITE" /\ (state = "EXEC_JMP" => ~IsRtt(ir))
        BY <1>5, <2>2 DEF HandlersTidy
      <3>2. usp' = usp /\ ssp' = ssp
        BY <1>5, <3>1, CoreOfRun, WaitingPointers DEF AcceptInterrupt
      <3>3. ~Handling' /\ state' # "HALT" => IsSupervisor(psr')
        <4>1. SUFFICES ASSUME ~Handling', state' # "HALT"
                       PROVE  IsSupervisor(psr')
          OBVIOUS
        <4>2. CASE Handling
          BY <3>1, <4>1, <4>2, CoreOfRun, EntrySteps, ModeStep
          DEF IntSetPC
        <4>3. CASE ~Handling
          BY <1>1, <2>2, <3>1, <4>1, <4>3, CoreOfRun, HaltLasts,
             ModeStep DEF coreVars
        <4> QED
          BY <4>2, <4>3
      <3>4. ASSUME InRti' PROVE FrameIntact'
        <4>1. regs' = regs /\ mem' = mem
          BY <3>4, RtiBegins
        <4>2. FrameIntact
          BY <2>2, <3>4, RtiBegins DEF RestoreInv, HandlersTidy
        <4>3. Interrupted' = Interrupted
          BY <1>5 DEF Interrupted
        <4> QED
          BY <4>1, <4>2, <4>3 DEF FrameIntact
      <3> QED
        BY <1>1, <1>5, <2>2, <3>2, <3>3, <3>4 DEF RestoreInv
    <2> QED
      BY <2>1, <2>2
  <1> QED
    BY <1>3, <1>4, <1>5, FramesStep

\* When every handler keeps to HandlersTidy, its RTI gives the interrupted
\* program its whole context back: PC, PSR, registers, the stack pointer of
\* its mode and that of the other, however deep the handlers are nested.
THEOREM TidyHandlersRestore == RunSpec /\ []HandlersTidy => ContextRestored
  <1> DEFINE Restores == state = "PSR_WRITE" /\ frames # <<>> =>
                           Context' = frames[Len(frames)]
  <1>1. RunInv /\ RestoreInv /\ HandlersTidy /\ [RunNext]_runVars
          => RestoreInv' /\ [Restores]_runVars
    <2>1. SUFFICES ASSUME RunInv, RestoreInv, HandlersTidy,
                          [RunNext]_runVars
                   PROVE  RestoreInv' /\ (Restores \/ UNCHANGED runVars)
      OBVIOUS
    <2>2. CASE UNCHANGED runVars
      BY <2>1, <2>2 DEF RestoreInv, FrameIntact, Interrupted, Handling,
         Bound, InRti, runVars, machineVars, coreVars
    <2>3. CASE Running
      BY <2>1, <2>3, RestoreStep, RtiRestores DEF Running, Interrupted
    <2> QED
      BY <2>1, <2>2, <2>3 DEF RunNext, Observed
  <1> QED
    BY RestoreInit, <1>1, RunInvariant, PTL DEF RunSpec, ContextRestored

\* So the priorities of the interrupted programs rise when the handlers keep
\* to HandlersTidy.
THEOREM TidyHandlersNest == RunSpec /\ []HandlersTidy => []NestingBounded
  BY TidyHandlersRestore, NestingIsBounded, PTL
=============================================================================
