---------------------------- MODULE LC3CoreProofs ----------------------------
(***************************************************************************)
(* What every clock edge of LC3Core preserves, whatever the rest of the    *)
(* computer drives on the core's inputs.  The modules that contain the     *)
(* core use CoreTypeStep and CoreFlowStep for their own invariants.        *)
(* First facts about the words, fields and memories of LC3Words: the width *)
(* of every result, and what the updates of the status register leave      *)
(* alone.                                                                  *)
(***************************************************************************)
EXTENDS LC3Core, TLAPS

\* An addition wraps around.
LEMMA PlusType == ASSUME NEW a \in Word, NEW b \in Word
                  PROVE  Plus(a, b) \in Word
  BY DEF Plus, Word

\* The numbers the core adds are words.
LEMMA Literals == 0 \in Word /\ 1 \in Word /\ 2 \in Word /\ 65535 \in Word
  BY DEF Word

\* The fields of an instruction are as wide as their slices.
LEMMA FieldTypes ==
  ASSUME NEW i \in Word
  PROVE  /\ Opcode(i) \in Nat /\ Opcode(i) < 16
         /\ DR(i) \in Reg
         /\ SR1(i) \in Reg
         /\ SR2(i) \in Reg
         /\ TrapVector(i) \in Byte
  BY DEF Word, Opcode, DR, SR1, SR2, TrapVector, Reg, Byte

\* A sign-extended field is a word.
LEMMA OffsetTypes ==
  ASSUME NEW i \in Word
  PROVE  /\ Imm5(i) \in Word
         /\ PcOffset9(i) \in Word
         /\ PcOffset11(i) \in Word
         /\ Offset6(i) \in Word
  BY DEF Imm5, PcOffset9, PcOffset11, Offset6, SignExtend, Word

\* Four bits of a conjunction are four bits.
LEMMA AndNibbleType ==
  ASSUME NEW a \in Word, NEW b \in Word, NEW k \in Nat
  PROVE  AndNibble(a, b, k) \in Nat /\ AndNibble(a, b, k) <= 15 * k
  <1>1. PICK p, q, r, s \in Nat :
          /\ p = AndBit(a, b, k) /\ p <= k
          /\ q = AndBit(a, b, 2 * k) /\ q <= 2 * k
          /\ r = AndBit(a, b, 4 * k) /\ r <= 4 * k
          /\ s = AndBit(a, b, 8 * k) /\ s <= 8 * k
    BY DEF AndBit
  <1>2. AndNibble(a, b, k) = p + q + r + s
    BY <1>1 DEF AndNibble
  <1> QED
    BY <1>1, <1>2

\* The bitwise operations stay within the word.
LEMMA BitAndType == ASSUME NEW a \in Word, NEW b \in Word
                    PROVE  BitAnd(a, b) \in Word
  <1>1. PICK p \in Nat : p = AndNibble(a, b, 1) /\ p <= 15
    BY AndNibbleType
  <1>2. PICK q \in Nat : q = AndNibble(a, b, 16) /\ q <= 240
    BY AndNibbleType
  <1>3. PICK r \in Nat : r = AndNibble(a, b, 256) /\ r <= 3840
    BY AndNibbleType
  <1>4. PICK s \in Nat : s = AndNibble(a, b, 4096) /\ s <= 61440
    BY AndNibbleType
  <1> QED
    BY <1>1, <1>2, <1>3, <1>4 DEF BitAnd, Word

\* The complement of a word is a word.
LEMMA BitNotType == ASSUME NEW a \in Word
                    PROVE  BitNot(a) \in Word
  BY DEF BitNot, Word

\* New condition codes change neither the width nor the privilege.
LEMMA SetFlagsType ==
  ASSUME NEW p \in Word, NEW v \in Word
  PROVE  /\ SetFlags(p, FlagsFor(v)) \in Word
         /\ ModeBit(SetFlags(p, FlagsFor(v))) = ModeBit(p)
  <1>1. FlagsFor(v) \in 0 .. 7
    BY DEF FlagsFor
  <1>2. ASSUME NEW f \in 0 .. 7
        PROVE  SetFlags(p, f) \in Word /\ ModeBit(SetFlags(p, f)) = ModeBit(p)
    BY DEF SetFlags, ModeBit, Word
  <1> QED
    BY <1>1, <1>2

\* A new privilege bit is the one that is read back.
LEMMA SetModeBitType ==
  ASSUME NEW p \in Word, NEW b \in {0, 1}
  PROVE  /\ SetModeBit(p, b) \in Word
         /\ ModeBit(SetModeBit(p, b)) = b
  BY DEF SetModeBit, ModeBit, Word

\* A PSR with a new priority is a word.
LEMMA SetPriorityType ==
  ASSUME NEW p \in Word, NEW n \in 0 .. 7
  PROVE  SetPriority(p, n) \in Word
  BY DEF SetPriority, Word

\* Memory holds words before and after a store, and a load returns one.
LEMMA MemoryType ==
  ASSUME NEW m, IsMemory(m), NEW a \in Word, NEW v \in Word
  PROVE  /\ IsMemory(Poke(m, a, v))
         /\ Peek(m, a) \in Word
  BY DEF IsMemory, Poke, Peek, Word
-----------------------------------------------------------------------------
\* The core is in state s, or will be when the read it waits for is done.
Bound(s) == state = s \/ (state = "MEM_WAIT" /\ return_state = s)

\* The read of the second word of an RTI, and the states before it.
InRti == \/ Bound("PC_WRITE")
         \/ Bound("PSR_WRITE")
         \/ state = "FETCH_MEM" /\ Opcode(ir) = OP_RTI

\* Where a read may lead, and that a read of a pointer is one of an LDI.
ReadReturns ==
    state = "MEM_WAIT" =>
      /\ return_state \in {"LATCH_IR", "FETCH_MEM", "REG_WRITEBACK",
                           "PC_WRITE", "PSR_WRITE", "EXEC_STORE",
                           "EXEC_TRAP", "INT_SET_PC"}
      /\ return_state = "FETCH_MEM" => Opcode(ir) = OP_LDI

\* An RTI that has begun to pop is an RTI of a supervisor.
RtiPrivileged == InRti => Opcode(ir) = OP_RTI /\ IsSupervisor(psr)

\* The PC of an RTI has been popped and the PSR not yet.
RtiHalfDone == pc_loaded => \/ Bound("PSR_WRITE")
                            \/ state = "FETCH_MEM" /\ Opcode(ir) = OP_RTI
                            \/ state = "HALT"

\* What stands on the address bus when a vector is read.
VectorOnBus == /\ Bound("EXEC_TRAP") => mem_addr \in Byte
               /\ Bound("INT_SET_PC") => 256 <= mem_addr /\ mem_addr < 512

\* Between the two pushes of an interrupt the first is still on the bus.
PushOnBus == state = "INT_PUSH_PC" => mem_we /\ mem_addr = regs[6]

CoreFlow == /\ ReadReturns
            /\ RtiPrivileged
            /\ RtiHalfDone
            /\ VectorOnBus
            /\ PushOnBus
            /\ StrobeDrops
-----------------------------------------------------------------------------
\* The addresses the core computes are words.
LEMMA AddressTypes ==
  ASSUME CoreTypeOK
  PROVE  /\ PcRelative9 \in Word
         /\ PcRelative11 \in Word
         /\ BaseOffset \in Word
         /\ Plus(pc, 1) \in Word
         /\ \A n \in Word : Plus(regs[6], n) \in Word
  <1>1. /\ pc \in Word
        /\ regs[6] \in Word
        /\ regs[SR1(ir)] \in Word
        /\ PcOffset9(ir) \in Word
        /\ PcOffset11(ir) \in Word
        /\ Offset6(ir) \in Word
    BY FieldTypes, OffsetTypes DEF CoreTypeOK, Reg
  <1> QED
    BY <1>1, PlusType, Literals DEF PcRelative9, PcRelative11, BaseOffset

\* A bus access keeps the registers it may write in their types.
LEMMA IssueReadType ==
  ASSUME CoreTypeOK, NEW in, NEW addr \in Word, NEW we \in BOOLEAN,
         NEW next \in State, IssueRead(in, addr, we, next)
  PROVE  /\ state' \in State
         /\ return_state' \in State
         /\ mem_addr' \in Word
         /\ mem_wdata' \in Word
         /\ mem_we' \in BOOLEAN
  BY DEF CoreTypeOK, IssueRead, AccessFault, State

\* The registers a store on the bus sets keep their widths.
LEMMA IssueWriteType ==
  ASSUME CoreTypeOK, NEW in, NEW addr \in Word, NEW data \in Word,
         NEW next \in State, IssueWrite(in, addr, data, next)
  PROVE  /\ state' \in State
         /\ return_state' \in State
         /\ mem_addr' \in Word
         /\ mem_wdata' \in Word
         /\ mem_we' \in BOOLEAN
  BY DEF CoreTypeOK, IssueWrite, AccessFault, State

\* The privilege bits are bits.
LEMMA ModeBits ==
  SupervisorBit \in {0, 1} /\ UserBit \in {0, 1}
  BY DEF SupervisorBit, UserBit

\* Loading a register sets it and the condition codes.
LEMMA WriteRegisterType ==
  ASSUME CoreTypeOK, NEW value \in Word, WriteRegister(value)
  PROVE  regs' \in [Reg -> Word] /\ psr' \in Word
  <1>1. psr \in Word /\ regs \in [Reg -> Word]
    BY DEF CoreTypeOK
  <1> QED
    BY <1>1, SetFlagsType DEF WriteRegister

\* The result of an operation is a word.
LEMMA AluType == ASSUME CoreTypeOK
                 PROVE  AluResult \in Word
  <1>1. /\ regs[SR1(ir)] \in Word
        /\ regs[SR2(ir)] \in Word
        /\ Imm5(ir) \in Word
    BY FieldTypes, OffsetTypes DEF CoreTypeOK
  <1> QED
    BY <1>1, PlusType, BitAndType, BitNotType DEF AluResult

-----------------------------------------------------------------------------
\* Every clock edge keeps every register within its width.
LEMMA CoreTypeStep ==
  ASSUME CoreTypeOK, NEW in \in CoreInput, CoreClock(in)
  PROVE  CoreTypeOK'
  <1>1. /\ in.mem_rdata \in Word
        /\ in.irq_priority \in 0 .. 7
        /\ in.irq_vector \in Byte
    BY DEF CoreInput
  <1>2. CASE UNCHANGED coreVars
    BY <1>2 DEF CoreTypeOK, coreVars
  <1>3. CASE CoreStep(in) /\ ~ UNCHANGED coreVars
    <2>1. CASE FetchInstruction(in)
      <3>1. pc \in Word /\ mem_we \in BOOLEAN /\ "LATCH_IR" \in State
        BY DEF CoreTypeOK, State
      <3> QED
        BY <2>1, <3>1, IssueReadType DEF FetchInstruction, CoreTypeOK
    <2>2. CASE AcceptInterrupt(in)
      <3>1. regs[6] \in Word
        BY DEF CoreTypeOK, Reg
      <3>2. regs' \in [Reg -> Word] /\ usp' \in Word
        BY <2>2, <3>1 DEF AcceptInterrupt, CoreTypeOK
      <3> QED
        BY <2>2, <3>2 DEF AcceptInterrupt, CoreTypeOK, State, bus
    <2>3. CASE LatchIR(in)
      BY <2>3, <1>1, AddressTypes DEF LatchIR, CoreTypeOK, State, bus
    <2>4. CASE Decode(in)
      BY <2>4 DEF Decode, Dispatch, CoreTypeOK, State, bus
    <2>5. CASE ExecBR(in)
      BY <2>5, AddressTypes DEF ExecBR, CoreTypeOK, State, bus
    <2>6. CASE ExecALU(in)
      BY <2>6, AluType, WriteRegisterType DEF ExecALU, CoreTypeOK, State, bus
    <2>7. CASE ExecLEA(in)
      BY <2>7, AddressTypes, WriteRegisterType
       DEF ExecLEA, CoreTypeOK, State, bus
    <2>8. CASE ExecJMP(in)
      BY <2>8, FieldTypes, ModeBits, SetModeBitType
      DEF ExecJMP, CoreTypeOK, State, bus
    <2>9. CASE ExecJSR(in)
      BY <2>9, AddressTypes, FieldTypes DEF ExecJSR, CoreTypeOK, State, bus
    <2>10. CASE MemWait(in)
      BY <2>10 DEF MemWait, CoreTypeOK, bus
    <2>11. CASE FetchIndirectPtr(in)
      <3>1. /\ state' \in State
            /\ return_state' \in State
            /\ mem_addr' \in Word
            /\ mem_wdata' \in Word
            /\ mem_we' \in BOOLEAN
        <4>1. /\ PcRelative9 \in Word
              /\ TrapVector(ir) \in Word
              /\ {"FETCH_MEM", "EXEC_STORE", "EXEC_TRAP", "MEM_WAIT"}
                    \subseteq State
          BY AddressTypes, FieldTypes DEF CoreTypeOK, Word, Byte, State
        <4> QED
          BY <2>11, <4>1, IssueReadType DEF FetchIndirectPtr, CoreTypeOK
      <3> QED
        BY <2>11, <3>1 DEF FetchIndirectPtr, CoreTypeOK
    <2>12. CASE FetchMem(in)
      <3>1. /\ state' \in State
            /\ return_state' \in State
            /\ mem_addr' \in Word
            /\ mem_wdata' \in Word
            /\ mem_we' \in BOOLEAN
        <4>1. /\ {PcRelative9, in.mem_rdata, regs[6], Plus(regs[6], 1),
                    BaseOffset} \subseteq Word
              /\ {"REG_WRITEBACK", "PC_WRITE", "PSR_WRITE"} \subseteq State
          BY <1>1, AddressTypes, Literals DEF CoreTypeOK, State, Reg
        <4> QED
          BY <2>12, <4>1, IssueReadType DEF FetchMem, CoreTypeOK
      <3> QED
        BY <2>12, <3>1 DEF FetchMem, CoreTypeOK
    <2>13. CASE RegWriteback(in)
      BY <2>13, <1>1, WriteRegisterType
       DEF RegWriteback, CoreTypeOK, State, bus
    <2>14. CASE ExecStore(in)
      <3>1. /\ StoreAddress(in) \in Word
            /\ regs[DR(ir)] \in Word
            /\ "WRITE_STORE" \in State
        BY <1>1, AddressTypes, FieldTypes DEF StoreAddress, CoreTypeOK, State
      <3> QED
        BY <2>14, <3>1, IssueWriteType DEF ExecStore, CoreTypeOK
    <2>15. CASE WriteStore(in)
      BY <2>15 DEF WriteStore, CoreTypeOK, State
    <2>16. CASE ExecTrap(in)
      <3>1. psr' \in Word /\ regs' \in [Reg -> Word]
        BY <2>16, ModeBits, SetModeBitType DEF ExecTrap, CoreTypeOK
      <3> QED
        BY <2>16, <1>1, <3>1 DEF ExecTrap, CoreTypeOK, State, bus
    <2>17. CASE PcWrite(in)
      BY <2>17, <1>1 DEF PcWrite, CoreTypeOK, State, bus
    <2>18. CASE PsrWrite(in)
      <3>1. Plus(regs[6], 2) \in Word /\ usp \in Word
        BY AddressTypes, Literals DEF CoreTypeOK
      <3>2. regs' \in [Reg -> Word] /\ ssp' \in Word
        BY <2>18, <3>1 DEF PsrWrite, CoreTypeOK
      <3> QED
        BY <2>18, <1>1, <3>2 DEF PsrWrite, CoreTypeOK, State, bus
    <2>19. CASE IntPushPSR(in)
      <3>1. PICK top \in Word : top = Plus(regs[6], 65535)
        BY AddressTypes, Literals
      <3>2. regs' = [regs EXCEPT ![6] = top]
        BY <2>19, <3>1 DEF IntPushPSR, Push
      <3>3. psr \in Word /\ "INT_PUSH_PC" \in State
        BY DEF CoreTypeOK, State
      <3>4. /\ state' \in State
            /\ return_state' \in State
            /\ mem_addr' \in Word
            /\ mem_wdata' \in Word
            /\ mem_we' \in BOOLEAN
        BY <2>19, <3>1, <3>3, IssueWriteType DEF IntPushPSR, Push
      <3>5. regs' \in [Reg -> Word]
        BY <3>2 DEF CoreTypeOK
      <3> QED
        BY <2>19, <3>4, <3>5 DEF IntPushPSR, Push, CoreTypeOK
    <2>20. CASE IntPushPC(in)
      <3>1. PICK top \in Word : top = Plus(regs[6], 65535)
        BY AddressTypes, Literals
      <3>2. regs' = [regs EXCEPT ![6] = top]
        BY <2>20, <3>1 DEF IntPushPC, Push
      <3>3. pc \in Word /\ "INT_WRITE_COMPLETE" \in State
        BY DEF CoreTypeOK, State
      <3>4. /\ state' \in State
            /\ return_state' \in State
            /\ mem_addr' \in Word
            /\ mem_wdata' \in Word
            /\ mem_we' \in BOOLEAN
        BY <2>20, <3>1, <3>3, IssueWriteType DEF IntPushPC, Push
      <3>5. regs' \in [Reg -> Word]
        BY <3>2 DEF CoreTypeOK
      <3> QED
        BY <2>20, <3>4, <3>5 DEF IntPushPC, Push, CoreTypeOK
    <2>21. CASE IntWriteComplete(in)
      <3>1. 256 + in.irq_vector \in Word /\ "INT_SET_PC" \in State
        BY <1>1 DEF Word, Byte, State
      <3>2. /\ state' \in State
            /\ return_state' \in State
            /\ mem_addr' \in Word
            /\ mem_wdata' \in Word
            /\ mem_we' \in BOOLEAN
        BY <2>21, <3>1, IssueReadType DEF IntWriteComplete
      <3> QED
        BY <2>21, <3>2 DEF IntWriteComplete, CoreTypeOK
    <2>22. CASE IntSetPC(in)
      <3>1. psr' \in Word
        BY <2>22, <1>1, ModeBits, SetPriorityType, SetModeBitType
        DEF IntSetPC, CoreTypeOK
      <3> QED
        BY <2>22, <1>1, <3>1 DEF IntSetPC, CoreTypeOK, State, bus
    <2> QED
      BY <1>3, <2>1, <2>2, <2>3, <2>4, <2>5, <2>6, <2>7, <2>8, <2>9,
         <2>10, <2>11, <2>12, <2>13, <2>14, <2>15, <2>16, <2>17, <2>18,
         <2>19, <2>20, <2>21, <2>22
      DEF CoreStep, Halted
  <1> QED
    BY <1>2, <1>3 DEF CoreClock, CoreFrozen

\* The control flow of the controller, which the theorems about reads,
\* privilege and the write strobe rest on, is kept by every clock edge.
LEMMA CoreFlowStep ==
  ASSUME CoreTypeOK, CoreFlow, NEW in \in CoreInput, CoreClock(in)
  PROVE  CoreFlow'
  <1> USE DEF CoreFlow, ReadReturns, RtiPrivileged, RtiHalfDone, VectorOnBus,
              PushOnBus, StrobeDrops, Bound, InRti, bus, OP_RTI, OP_LDI
  <1>1. CASE UNCHANGED coreVars
    BY <1>1 DEF coreVars, IsSupervisor
  <1>2. CASE CoreStep(in) /\ ~ UNCHANGED coreVars
    <2>1. CASE FetchInstruction(in)
      BY <2>1 DEF FetchInstruction, IssueRead, AccessFault
    <2>2. CASE AcceptInterrupt(in)
      BY <2>2 DEF AcceptInterrupt
    <2>3. CASE LatchIR(in)
      BY <2>3 DEF LatchIR
    <2>4. CASE Decode(in)
      BY <2>4 DEF Decode, Dispatch, OP_BR, OP_ADD, OP_LD, OP_ST, OP_JSR,
          OP_AND, OP_LDR, OP_STR, OP_NOT, OP_STI, OP_JMP, OP_LEA, OP_TRAP
    <2>5. CASE ExecBR(in)
      BY <2>5 DEF ExecBR
    <2>6. CASE ExecALU(in)
      BY <2>6 DEF ExecALU
    <2>7. CASE ExecLEA(in)
      BY <2>7 DEF ExecLEA
    <2>8. CASE ExecJMP(in)
      BY <2>8 DEF ExecJMP
    <2>9. CASE ExecJSR(in)
      BY <2>9 DEF ExecJSR
    <2>10. CASE MemWait(in)
      BY <2>10 DEF MemWait
    <2>11. CASE FetchIndirectPtr(in)
      BY <2>11, FieldTypes DEF FetchIndirectPtr, IssueRead, AccessFault,
          CoreTypeOK, OP_TRAP
    <2>12. CASE FetchMem(in)
      BY <2>12 DEF FetchMem, IssueRead, AccessFault, OP_LD
    <2>13. CASE RegWriteback(in)
      BY <2>13 DEF RegWriteback
    <2>14. CASE ExecStore(in)
      BY <2>14 DEF ExecStore, IssueWrite, AccessFault
    <2>15. CASE WriteStore(in)
      BY <2>15 DEF WriteStore
    <2>16. CASE ExecTrap(in)
      BY <2>16 DEF ExecTrap
    <2>17. CASE PcWrite(in)
      BY <2>17 DEF PcWrite
    <2>18. CASE PsrWrite(in)
      BY <2>18 DEF PsrWrite
    <2>19. CASE IntPushPSR(in)
      <3>1. regs'[6] = Plus(regs[6], 65535)
        BY <2>19 DEF IntPushPSR, Push, CoreTypeOK, Reg
      <3> QED
        BY <2>19, <3>1 DEF IntPushPSR, Push, IssueWrite, AccessFault
    <2>20. CASE IntPushPC(in)
      <3>1. regs'[6] = Plus(regs[6], 65535)
        BY <2>20 DEF IntPushPC, Push, CoreTypeOK, Reg
      <3> QED
        BY <2>20, <3>1 DEF IntPushPC, Push, IssueWrite, AccessFault
    <2>21. CASE IntWriteComplete(in)
      <3>1. 256 <= 256 + in.irq_vector /\ 256 + in.irq_vector < 512
        BY DEF CoreInput, Byte
      <3> QED
        BY <2>21, <3>1 DEF IntWriteComplete, IssueRead, AccessFault
    <2>22. CASE IntSetPC(in)
      BY <2>22 DEF IntSetPC
    <2> QED
      BY <1>2, <2>1, <2>2, <2>3, <2>4, <2>5, <2>6, <2>7, <2>8, <2>9,
         <2>10, <2>11, <2>12, <2>13, <2>14, <2>15, <2>16, <2>17, <2>18,
         <2>19, <2>20, <2>21, <2>22
      DEF CoreStep, Halted
  <1> QED
    BY <1>1, <1>2 DEF CoreClock, CoreFrozen

\* Whatever stands on the bus after a clock edge was checked against the
\* privilege that holds after it: the edges that change psr leave the bus idle.
LEMMA BusStep ==
  ASSUME CoreTypeOK, CoreFlow, NEW in \in CoreInput, CoreStep(in),
         mem_we' \/ state' = "MEM_WAIT"
  PROVE  \/ psr' = psr /\ CanAccess(psr, in.mpr, mem_addr')
         \/ ~mem_we' /\ return_state' = "EXEC_TRAP" /\ mem_addr' \in Byte
  <1>1. mem_we => state \in {"WRITE_STORE", "INT_PUSH_PC",
                             "INT_WRITE_COMPLETE"}
    BY DEF CoreFlow, StrobeDrops
  <1>2. CASE FetchInstruction(in)
    BY <1>1, <1>2 DEF FetchInstruction, IssueRead, AccessFault
  <1>3. CASE AcceptInterrupt(in) \/ LatchIR(in) \/ ExecBR(in)
             \/ ExecALU(in) \/ ExecLEA(in) \/ ExecJMP(in) \/ ExecJSR(in)
             \/ RegWriteback(in) \/ WriteStore(in) \/ ExecTrap(in)
             \/ PcWrite(in) \/ PsrWrite(in) \/ IntSetPC(in)
    BY <1>1, <1>3 DEF AcceptInterrupt, LatchIR, ExecBR, ExecALU,
         ExecLEA, ExecJMP, ExecJSR, RegWriteback, WriteStore, ExecTrap,
         PcWrite, PsrWrite, IntSetPC, bus
  <1>4. CASE Decode(in)
    BY <1>1, <1>4 DEF Decode, Dispatch, bus
  <1>5. CASE MemWait(in)
    BY <1>1, <1>5 DEF MemWait, bus, CoreFlow, ReadReturns
  <1>6. CASE FetchIndirectPtr(in)
    <2>1. TrapVector(ir) \in Byte
      BY FieldTypes DEF CoreTypeOK
    <2> QED
      BY <1>1, <1>6, <2>1 DEF FetchIndirectPtr, IssueRead, AccessFault
  <1>7. CASE FetchMem(in)
    BY <1>1, <1>7 DEF FetchMem, IssueRead, AccessFault
  <1>8. CASE ExecStore(in) \/ IntPushPSR(in) \/ IntPushPC(in)
    BY <1>8 DEF ExecStore, IntPushPSR, IntPushPC, Push, IssueWrite,
                AccessFault
  <1>9. CASE IntWriteComplete(in)
    BY <1>9 DEF IntWriteComplete, IssueRead, AccessFault
  <1>10. CASE Halted(in)
    BY <1>1, <1>10 DEF Halted, coreVars
  <1> QED
    BY <1>2, <1>3, <1>4, <1>5, <1>6, <1>7, <1>8, <1>9, <1>10 DEF CoreStep

\* Two writes follow each other without a gap only in the two pushes of an
\* interrupt, the second one word below the first.
LEMMA WritesApart ==
  ASSUME CoreTypeOK, CoreFlow, NEW in \in CoreInput, CoreStep(in),
         mem_we, mem_we'
  PROVE  mem_addr' = Plus(mem_addr, 65535)
  <1>1. state \in {"WRITE_STORE", "INT_PUSH_PC", "INT_WRITE_COMPLETE"}
    BY DEF CoreFlow, StrobeDrops
  <1>2. CASE WriteStore(in) \/ IntWriteComplete(in)
    BY <1>2 DEF WriteStore, IntWriteComplete, IssueRead, AccessFault
  <1>3. CASE IntPushPC(in)
    BY <1>3 DEF IntPushPC, Push, IssueWrite, AccessFault, CoreFlow,
                PushOnBus
  <1>4. WriteStore(in) \/ IntWriteComplete(in) \/ IntPushPC(in)
    BY <1>1 DEF CoreStep, FetchInstruction, AcceptInterrupt, LatchIR,
       Decode, ExecBR, ExecALU, ExecLEA, ExecJMP, ExecJSR, MemWait,
       FetchIndirectPtr, FetchMem, RegWriteback, ExecStore, ExecTrap,
       PcWrite, PsrWrite, IntPushPSR, IntSetPC, Halted
  <1> QED
    BY <1>2, <1>3, <1>4

\* It holds when reset has been asserted.
LEMMA CoreFlowInit == CoreInit => CoreFlow
  BY DEF CoreInit, CoreFlow, ReadReturns, RtiPrivileged, RtiHalfDone,
         VectorOnBus, PushOnBus, StrobeDrops, Bound, InRti

\* It holds again after a reset.
LEMMA CoreFlowReset == CoreReset => CoreFlow'
  BY DEF CoreReset, CoreFlow, ReadReturns, RtiPrivileged, RtiHalfDone,
         VectorOnBus, PushOnBus, StrobeDrops, Bound, InRti

\* The registers have their widths when reset has been asserted,
LEMMA CoreTypeInit == CoreInit => CoreTypeOK
  <1>1. SetModeBit(2, SupervisorBit) \in Word
    BY Literals, ModeBits, SetModeBitType
  <1>2. start_ssp \in Word /\ reset_pc \in Word
    BY CoreParameters
  <1>3. [r \in Reg |-> 0] \in [Reg -> Word]
    BY Literals
  <1>4. ASSUME CoreInit
        PROVE  CoreTypeOK
    <2>1. regs \in [Reg -> Word]
      BY <1>3, <1>4 DEF CoreInit
    <2>2. psr \in Word
      BY <1>1, <1>4 DEF CoreInit
    <2>3. /\ pc \in Word /\ ir \in Word
          /\ ssp \in Word /\ usp \in Word
          /\ mem_addr \in Word /\ mem_wdata \in Word
      BY <1>2, <1>4, Literals DEF CoreInit
    <2>4. /\ state \in State /\ return_state \in State
          /\ pc_loaded \in BOOLEAN /\ mem_we \in BOOLEAN
      BY <1>4 DEF CoreInit, State
    <2> QED
      BY <2>1, <2>2, <2>3, <2>4 DEF CoreTypeOK
  <1> QED
    BY <1>4

\* and after a reset.
LEMMA CoreTypeReset == CoreReset => CoreTypeOK'
  <1>1. SetModeBit(2, SupervisorBit) \in Word
    BY Literals, ModeBits, SetModeBitType
  <1>2. start_ssp \in Word /\ reset_pc \in Word
    BY CoreParameters
  <1>3. [r \in Reg |-> 0] \in [Reg -> Word]
    BY Literals
  <1>4. ASSUME CoreReset
        PROVE  CoreTypeOK'
    <2>1. regs' \in [Reg -> Word]
      BY <1>3, <1>4 DEF CoreReset
    <2>2. psr' \in Word
      BY <1>1, <1>4 DEF CoreReset
    <2>3. /\ pc' \in Word /\ ir' \in Word
          /\ ssp' \in Word /\ usp' \in Word
          /\ mem_addr' \in Word /\ mem_wdata' \in Word
      BY <1>2, <1>4, Literals DEF CoreReset
    <2>4. /\ state' \in State /\ return_state' \in State
          /\ pc_loaded' \in BOOLEAN /\ mem_we' \in BOOLEAN
      BY <1>4 DEF CoreReset, State
    <2> QED
      BY <2>1, <2>2, <2>3, <2>4 DEF CoreTypeOK
  <1> QED
    BY <1>4
-----------------------------------------------------------------------------
\* The core is entering an interrupt handler.
Handling == \/ state \in {"INT_PUSH_PSR", "INT_PUSH_PC",
                           "INT_WRITE_COMPLETE"}
            \/ Bound("INT_SET_PC")

\* Only the change of the priority field changes the priority.
LEMMA PriorityKept ==
  ASSUME NEW p \in Word, NEW v \in Word, NEW b \in {0, 1}
  PROVE  /\ Priority(SetFlags(p, FlagsFor(v))) = Priority(p)
         /\ Priority(SetModeBit(p, b)) = Priority(p)
  <1>1. PICK f \in 0 .. 7 : f = FlagsFor(v)
    BY DEF FlagsFor
  <1>2. Priority(SetFlags(p, f)) = Priority(p)
    BY DEF Priority, SetFlags, Word
  <1>3. Priority(SetModeBit(p, b)) = Priority(p)
    BY DEF Priority, SetModeBit, Word
  <1> QED
    BY <1>1, <1>2, <1>3

\* Setting it sets it.
LEMMA PrioritySet ==
  ASSUME NEW p \in Word, NEW n \in 0 .. 7
  PROVE  Priority(SetPriority(p, n)) = n
  BY DEF Priority, SetPriority, Word

\* The handler runs at the priority of its source, an RTI takes the priority
\* from its frame, and no other clock changes it.
LEMMA PriorityStep ==
  ASSUME CoreTypeOK, NEW in \in CoreInput, CoreStep(in),
         state # "PSR_WRITE"
  PROVE  Priority(psr') = IF state = "INT_SET_PC" THEN in.irq_priority
                                                  ELSE Priority(psr)
  <1>1. /\ psr \in Word /\ ir \in Word
        /\ in.mem_rdata \in Word /\ in.irq_priority \in 0 .. 7
    BY DEF CoreTypeOK, CoreInput
  <1>2. CASE ExecALU(in) \/ ExecLEA(in) \/ RegWriteback(in)
    <2>1. state # "INT_SET_PC" /\ \E v \in Word : WriteRegister(v)
      BY <1>1, <1>2, AluType, AddressTypes
      DEF ExecALU, ExecLEA, RegWriteback
    <2>2. PICK v \in Word : psr' = SetFlags(psr, FlagsFor(v))
      BY <2>1 DEF WriteRegister
    <2> QED
      BY <1>1, <2>1, <2>2, PriorityKept
  <1>3. CASE ExecJMP(in)
    BY <1>1, <1>3, PriorityKept, ModeBits DEF ExecJMP
  <1>4. CASE ExecTrap(in)
    BY <1>1, <1>4, PriorityKept, ModeBits DEF ExecTrap
  <1>5. CASE IntSetPC(in)
    <2>1. /\ state = "INT_SET_PC"
          /\ psr' = SetModeBit(SetPriority(psr, in.irq_priority),
                               SupervisorBit)
      BY <1>5 DEF IntSetPC
    <2>2. PICK q \in Word : q = SetPriority(psr, in.irq_priority)
      BY <1>1, SetPriorityType
    <2> QED
      BY <1>1, <2>1, <2>2, PriorityKept, PrioritySet, ModeBits
  <1>6. CASE \/ FetchInstruction(in) \/ AcceptInterrupt(in) \/ LatchIR(in)
             \/ Decode(in) \/ ExecBR(in) \/ ExecJSR(in) \/ MemWait(in)
    BY <1>6 DEF FetchInstruction, AcceptInterrupt, LatchIR, Decode, ExecBR,
       ExecJSR, MemWait
  <1>7. CASE \/ FetchIndirectPtr(in) \/ FetchMem(in) \/ ExecStore(in)
             \/ WriteStore(in) \/ PcWrite(in) \/ IntWriteComplete(in)
    BY <1>7 DEF FetchIndirectPtr, FetchMem, ExecStore, WriteStore, PcWrite,
       IntWriteComplete
  <1>8. CASE IntPushPSR(in) \/ IntPushPC(in)
    BY <1>8 DEF IntPushPSR, IntPushPC, Push
  <1>9. CASE Halted(in)
    BY <1>9 DEF Halted, coreVars
  <1>10. ~PsrWrite(in)
    BY DEF PsrWrite
  <1> QED
    BY <1>2, <1>3, <1>4, <1>5, <1>6, <1>7, <1>8, <1>9, <1>10
    DEF CoreStep

\* The entry into a handler begins in AcceptInterrupt only, and ends in
\* IntSetPC or with the core stopped.
LEMMA EntrySteps ==
  ASSUME CoreFlow, NEW in, CoreStep(in)
  PROVE  /\ Handling' => Handling \/ AcceptInterrupt(in)
         /\ Handling => \/ Handling' /\ state' # "INT_PUSH_PSR"
                                    /\ state # "INT_SET_PC"
                        \/ state' = "HALT" /\ state # "INT_SET_PC"
                        \/ IntSetPC(in)
         /\ state' = "INT_PUSH_PSR" => AcceptInterrupt(in)
  <1> USE DEF Handling, Bound
  <1>1. CASE FetchInstruction(in) \/ FetchMem(in) \/ FetchIndirectPtr(in)
    BY <1>1 DEF FetchInstruction, FetchMem, FetchIndirectPtr, IssueRead,
                AccessFault
  <1>2. CASE AcceptInterrupt(in) \/ LatchIR(in) \/ PsrWrite(in)
    BY <1>2 DEF AcceptInterrupt, LatchIR, PsrWrite
  <1>3. CASE Decode(in)
    <2>1. state = "DECODE" /\ state' = Dispatch(Opcode(ir), psr)
      BY <1>3 DEF Decode
    <2> QED
      BY <2>1 DEF Dispatch
  <1>4. CASE \/ ExecBR(in) \/ ExecALU(in) \/ ExecLEA(in) \/ ExecJMP(in)
             \/ ExecJSR(in) \/ RegWriteback(in) \/ ExecTrap(in)
    BY <1>4 DEF ExecBR, ExecALU, ExecLEA, ExecJMP, ExecJSR, RegWriteback,
                ExecTrap
  <1>5. CASE PcWrite(in) \/ WriteStore(in) \/ IntSetPC(in)
    BY <1>5 DEF PcWrite, WriteStore, IntSetPC
  <1>6. CASE ExecStore(in)
    BY <1>6 DEF ExecStore, IssueWrite, AccessFault
  <1>7. CASE IntPushPSR(in) \/ IntPushPC(in) \/ IntWriteComplete(in)
    BY <1>7 DEF IntPushPSR, IntPushPC, IntWriteComplete, Push, IssueWrite,
                IssueRead, AccessFault
  <1>8. CASE MemWait(in)
    <2>1. /\ state = "MEM_WAIT" /\ state' = return_state
          /\ return_state' = return_state
          /\ return_state \in {"LATCH_IR", "FETCH_MEM", "REG_WRITEBACK",
                               "PC_WRITE", "PSR_WRITE", "EXEC_STORE",
                               "EXEC_TRAP", "INT_SET_PC"}
      BY <1>8 DEF MemWait, CoreFlow, ReadReturns
    <2> QED
      BY <2>1
  <1>9. CASE Halted(in)
    BY <1>9 DEF Halted, coreVars
  <1> QED
    BY <1>1, <1>2, <1>3, <1>4, <1>5, <1>6, <1>7, <1>8, <1>9
    DEF CoreStep

\* The mode is given up in JMP (RTT) and in the PSR of an RTI only, and
\* a handler starts as a supervisor.
LEMMA ModeStep ==
  ASSUME CoreTypeOK, NEW in \in CoreInput, CoreStep(in),
         state # "PSR_WRITE",
         state = "EXEC_JMP" => ~IsRtt(ir)
  PROVE  /\ IsSupervisor(psr) => IsSupervisor(psr')
         /\ state = "INT_SET_PC" => IsSupervisor(psr')
  <1>1. /\ psr \in Word /\ ir \in Word
        /\ in.mem_rdata \in Word /\ in.irq_priority \in 0 .. 7
    BY DEF CoreTypeOK, CoreInput
  <1>2. CASE ExecALU(in) \/ ExecLEA(in) \/ RegWriteback(in)
    <2>1. state # "INT_SET_PC" /\ \E v \in Word : WriteRegister(v)
      BY <1>1, <1>2, AluType, AddressTypes
      DEF ExecALU, ExecLEA, RegWriteback
    <2>2. PICK v \in Word : psr' = SetFlags(psr, FlagsFor(v))
      BY <2>1 DEF WriteRegister
    <2>3. ModeBit(psr') = ModeBit(psr)
      BY <1>1, <2>2, SetFlagsType
    <2> QED
      BY <2>1, <2>3 DEF IsSupervisor
  <1>3. CASE ExecJMP(in)
    BY <1>3 DEF ExecJMP
  <1>4. CASE ExecTrap(in)
    <2>1. state = "EXEC_TRAP" /\ psr' = SetModeBit(psr, SupervisorBit)
      BY <1>4 DEF ExecTrap
    <2>2. ModeBit(psr') = SupervisorBit
      BY <1>1, <2>1, ModeBits, SetModeBitType
    <2> QED
      BY <2>1, <2>2 DEF IsSupervisor, SupervisorBit
  <1>5. CASE IntSetPC(in)
    <2>1. psr' = SetModeBit(SetPriority(psr, in.irq_priority),
                            SupervisorBit)
      BY <1>5 DEF IntSetPC
    <2>2. PICK q \in Word : q = SetPriority(psr, in.irq_priority)
      BY <1>1, SetPriorityType
    <2>3. ModeBit(psr') = SupervisorBit
      BY <2>1, <2>2, ModeBits, SetModeBitType
    <2> QED
      BY <2>3 DEF IsSupervisor, SupervisorBit
  <1>6. CASE \/ FetchInstruction(in) \/ AcceptInterrupt(in) \/ LatchIR(in)
             \/ Decode(in) \/ ExecBR(in) \/ ExecJSR(in) \/ MemWait(in)
    BY <1>6 DEF FetchInstruction, AcceptInterrupt, LatchIR, Decode, ExecBR,
       ExecJSR, MemWait
  <1>7. CASE \/ FetchIndirectPtr(in) \/ FetchMem(in) \/ ExecStore(in)
             \/ WriteStore(in) \/ PcWrite(in) \/ IntWriteComplete(in)
    BY <1>7 DEF FetchIndirectPtr, FetchMem, ExecStore, WriteStore, PcWrite,
       IntWriteComplete
  <1>8. CASE IntPushPSR(in) \/ IntPushPC(in)
    BY <1>8 DEF IntPushPSR, IntPushPC, Push
  <1>9. CASE Halted(in)
    BY <1>9 DEF Halted, coreVars
  <1>10. ~PsrWrite(in)
    BY DEF PsrWrite
  <1> QED
    BY <1>2, <1>3, <1>4, <1>5, <1>6, <1>7, <1>8, <1>9, <1>10
    DEF CoreStep

\* The stack pointer that waits for the user changes when an interrupt takes
\* the stack from him, and the supervisor's when an RTI gives it back.
LEMMA WaitingPointers ==
  ASSUME NEW in, CoreStep(in)
  PROVE  /\ ~AcceptInterrupt(in) => usp' = usp
         /\ state # "PSR_WRITE" => ssp' = ssp
  <1>1. CASE \/ FetchInstruction(in) \/ AcceptInterrupt(in) \/ LatchIR(in)
             \/ Decode(in) \/ ExecBR(in) \/ ExecJSR(in) \/ MemWait(in)
    BY <1>1 DEF FetchInstruction, AcceptInterrupt, LatchIR, Decode, ExecBR,
       ExecJSR, MemWait
  <1>2. CASE \/ FetchIndirectPtr(in) \/ FetchMem(in) \/ ExecStore(in)
             \/ WriteStore(in) \/ PcWrite(in) \/ IntWriteComplete(in)
    BY <1>2 DEF FetchIndirectPtr, FetchMem, ExecStore, WriteStore, PcWrite,
       IntWriteComplete
  <1>3. CASE \/ ExecALU(in) \/ ExecLEA(in) \/ RegWriteback(in) \/ ExecJMP(in)
             \/ ExecTrap(in) \/ IntSetPC(in) \/ PsrWrite(in)
    BY <1>3 DEF ExecALU, ExecLEA, RegWriteback, ExecJMP, ExecTrap, IntSetPC,
       PsrWrite
  <1>4. CASE IntPushPSR(in) \/ IntPushPC(in)
    BY <1>4 DEF IntPushPSR, IntPushPC, Push
  <1>5. CASE Halted(in)
    BY <1>5 DEF Halted, coreVars
  <1> QED
    BY <1>1, <1>2, <1>3, <1>4, <1>5 DEF CoreStep

\* A core that has stopped stays so.
LEMMA HaltLasts ==
  ASSUME NEW in, CoreStep(in), state = "HALT"
  PROVE  UNCHANGED coreVars
  BY DEF CoreStep, FetchInstruction, AcceptInterrupt, LatchIR, Decode,
     ExecBR, ExecALU, ExecLEA, ExecJMP, ExecJSR, MemWait, FetchIndirectPtr,
     FetchMem, RegWriteback, ExecStore, WriteStore, ExecTrap, PcWrite,
     PsrWrite, IntPushPSR, IntPushPC, IntWriteComplete, IntSetPC, Halted

\* In PSR_WRITE an RTI ends.
LEMMA PsrWriteOnly ==
  ASSUME NEW in, CoreStep(in), state = "PSR_WRITE"
  PROVE  PsrWrite(in)
  BY DEF CoreStep, FetchInstruction, AcceptInterrupt, LatchIR, Decode,
     ExecBR, ExecALU, ExecLEA, ExecJMP, ExecJSR, MemWait, FetchIndirectPtr,
     FetchMem, RegWriteback, ExecStore, WriteStore, ExecTrap, PcWrite,
     IntPushPSR, IntPushPC, IntWriteComplete, IntSetPC, Halted
-----------------------------------------------------------------------------
\* After a store the data stays on the bus for a clock, unless it was pushed.
LEMMA DataStays ==
  ASSUME CoreFlow, NEW in, CoreStep(in), mem_we, state # "INT_PUSH_PC"
  PROVE  mem_wdata' = mem_wdata
  <1>1. state \in {"WRITE_STORE", "INT_WRITE_COMPLETE"}
    BY DEF CoreFlow, StrobeDrops
  <1>2. WriteStore(in) \/ IntWriteComplete(in)
    BY <1>1 DEF CoreStep, FetchInstruction, AcceptInterrupt, LatchIR,
       Decode, ExecBR, ExecALU, ExecLEA, ExecJMP, ExecJSR, MemWait,
       FetchIndirectPtr, FetchMem, RegWriteback, ExecStore, ExecTrap,
       PcWrite, PsrWrite, IntPushPSR, IntPushPC, IntSetPC, Halted
  <1> QED
    BY <1>2 DEF WriteStore, IntWriteComplete, IssueRead, AccessFault

\* A load that is under way was under way, or is issued by FETCH_MEM, and in
\* its last wait state the bus shows what it will load.
LEMMA LoadSteps ==
  ASSUME CoreFlow, NEW in, CoreStep(in)
  PROVE  /\ state' = "REG_WRITEBACK"
              => /\ state = "MEM_WAIT" /\ return_state = "REG_WRITEBACK"
                 /\ UNCHANGED bus
         /\ Bound("REG_WRITEBACK")' => ~mem_we /\ ~mem_we'
  <1> USE DEF Bound
  <1>1. CASE MemWait(in)
    BY <1>1 DEF MemWait, bus, CoreFlow, StrobeDrops
  <1>2. CASE FetchMem(in)
    BY <1>2 DEF FetchMem, IssueRead, AccessFault, CoreFlow, StrobeDrops
  <1>3. CASE FetchInstruction(in) \/ FetchIndirectPtr(in)
    BY <1>3 DEF FetchInstruction, FetchIndirectPtr, IssueRead, AccessFault
  <1>4. CASE \/ AcceptInterrupt(in) \/ LatchIR(in) \/ PsrWrite(in)
             \/ PcWrite(in) \/ WriteStore(in) \/ IntSetPC(in)
    BY <1>4 DEF AcceptInterrupt, LatchIR, PsrWrite, PcWrite, WriteStore,
                IntSetPC
  <1>5. CASE Decode(in)
    <2>1. state' = Dispatch(Opcode(ir), psr)
      BY <1>5 DEF Decode
    <2> QED
      BY <2>1 DEF Dispatch
  <1>6. CASE \/ ExecBR(in) \/ ExecALU(in) \/ ExecLEA(in) \/ ExecJMP(in)
             \/ ExecJSR(in) \/ RegWriteback(in) \/ ExecTrap(in)
    BY <1>6 DEF ExecBR, ExecALU, ExecLEA, ExecJMP, ExecJSR, RegWriteback,
                ExecTrap
  <1>7. CASE \/ ExecStore(in) \/ IntPushPSR(in) \/ IntPushPC(in)
             \/ IntWriteComplete(in)
    BY <1>7 DEF ExecStore, IntPushPSR, IntPushPC, IntWriteComplete, Push,
                IssueWrite, IssueRead, AccessFault
  <1>8. CASE Halted(in)
    BY <1>8 DEF Halted, coreVars
  <1> QED
    BY <1>1, <1>2, <1>3, <1>4, <1>5, <1>6, <1>7, <1>8 DEF CoreStep

\* A new address on the bus comes with a wait state or with the strobe.
LEMMA AddressMoves ==
  ASSUME NEW in, CoreStep(in), mem_addr' # mem_addr
  PROVE  state' = "MEM_WAIT" \/ mem_we'
  <1>1. CASE \/ FetchInstruction(in) \/ FetchIndirectPtr(in) \/ FetchMem(in)
             \/ IntWriteComplete(in)
    BY <1>1 DEF FetchInstruction, FetchIndirectPtr, FetchMem,
       IntWriteComplete, IssueRead, AccessFault
  <1>2. CASE ExecStore(in) \/ IntPushPSR(in) \/ IntPushPC(in)
    BY <1>2 DEF ExecStore, IntPushPSR, IntPushPC, Push, IssueWrite,
       AccessFault
  <1>3. ~ (\/ AcceptInterrupt(in) \/ LatchIR(in) \/ Decode(in)
           \/ ExecBR(in) \/ ExecALU(in) \/ ExecLEA(in) \/ ExecJMP(in)
           \/ ExecJSR(in) \/ MemWait(in) \/ RegWriteback(in)
           \/ WriteStore(in) \/ ExecTrap(in) \/ PcWrite(in) \/ PsrWrite(in)
           \/ IntSetPC(in) \/ Halted(in))
    BY DEF AcceptInterrupt, LatchIR, Decode, ExecBR, ExecALU, ExecLEA,
       ExecJMP, ExecJSR, MemWait, RegWriteback, WriteStore, ExecTrap,
       PcWrite, PsrWrite, IntSetPC, Halted, coreVars, bus
  <1> QED
    BY <1>1, <1>2, <1>3 DEF CoreStep

\* The clock edge after a write.
LEMMA AfterWrite ==
  ASSUME CoreFlow, NEW in \in CoreInput, CoreStep(in), mem_we
  PROVE  /\ \/ state' \in {"FETCH", "INT_WRITE_COMPLETE", "HALT"}
            \/ Bound("INT_SET_PC")'
         /\ \/ mem_addr' = mem_addr
            \/ mem_addr' = Plus(mem_addr, 65535)
            \/ mem_addr' < 512
  <1>1. state \in {"WRITE_STORE", "INT_PUSH_PC", "INT_WRITE_COMPLETE"}
    BY DEF CoreFlow, StrobeDrops
  <1>2. WriteStore(in) \/ IntWriteComplete(in) \/ IntPushPC(in)
    BY <1>1 DEF CoreStep, FetchInstruction, AcceptInterrupt, LatchIR,
       Decode, ExecBR, ExecALU, ExecLEA, ExecJMP, ExecJSR, MemWait,
       FetchIndirectPtr, FetchMem, RegWriteback, ExecStore, ExecTrap,
       PcWrite, PsrWrite, IntPushPSR, IntSetPC, Halted
  <1>3. CASE WriteStore(in)
    BY <1>3 DEF WriteStore
  <1>4. CASE IntPushPC(in)
    BY <1>4 DEF IntPushPC, Push, IssueWrite, AccessFault, CoreFlow,
                PushOnBus
  <1>5. CASE IntWriteComplete(in)
    <2>1. 256 + in.irq_vector < 512
      BY DEF CoreInput, Byte
    <2> QED
      BY <1>5, <2>1 DEF IntWriteComplete, IssueRead, AccessFault, Bound
  <1> QED
    BY <1>2, <1>3, <1>4, <1>5
-----------------------------------------------------------------------------
\* The clock edges between state s and the next instruction at the most.  An
\* RTI passes FETCH_MEM twice, with pc_loaded clear and then set.
Remaining(s) ==
    CASE s \in {"FETCH", "HALT"} -> 0
      [] s = "EXEC_STORE" -> 2
      [] s = "FETCH_MEM" ->
           IF Opcode(ir) = OP_RTI /\ ~pc_loaded THEN 6 ELSE 3
      [] s = "PC_WRITE" -> 4
      [] s = "FETCH_INDIRECT_PTR" -> 5
      [] s = "DECODE" -> 7
      [] s = "LATCH_IR" -> 8
      [] s = "INT_PUSH_PSR" -> 5
      [] s = "INT_PUSH_PC" -> 4
      [] s = "INT_WRITE_COMPLETE" -> 3
      [] OTHER -> 1

EdgesLeft == IF state = "MEM_WAIT" THEN 1 + Remaining(return_state)
                                    ELSE Remaining(state)

\* No instruction and no entry into a handler takes more than ten clocks, and
\* nothing is left to do at the start of an instruction only.
LEMMA EdgesBounded ==
  ASSUME CoreTypeOK, CoreFlow
  PROVE  /\ EdgesLeft \in 0 .. 9
         /\ EdgesLeft = 0 <=> state \in {"FETCH", "HALT"}
  <1>1. ASSUME NEW s
        PROVE  Remaining(s) \in 0 .. 8
    BY <1>1 DEF Remaining
  <1>2. ASSUME NEW s, s \notin {"FETCH", "HALT"}
        PROVE  Remaining(s) # 0
    BY <1>2 DEF Remaining
  <1>3. Remaining("FETCH") = 0 /\ Remaining("HALT") = 0
    BY DEF Remaining
  <1> QED
    BY <1>1, <1>2, <1>3 DEF EdgesLeft

\* Every clock edge between two instructions brings the core nearer to the
\* next one.
LEMMA StepCountsDown ==
  ASSUME CoreTypeOK, CoreFlow, NEW in \in CoreInput, CoreStep(in),
         state \notin {"FETCH", "HALT"}
  PROVE  EdgesLeft' < EdgesLeft
  <1> USE DEF EdgesLeft, Remaining
  <1>1. ~ (FetchInstruction(in) \/ AcceptInterrupt(in) \/ Halted(in))
    BY DEF FetchInstruction, AcceptInterrupt, Halted
  <1>2. CASE LatchIR(in)
    BY <1>2 DEF LatchIR
  <1>3. CASE Decode(in)
    BY <1>3 DEF Decode, Dispatch
  <1>4. CASE ExecBR(in) \/ ExecALU(in) \/ ExecLEA(in) \/ ExecJMP(in)
             \/ ExecJSR(in)
    BY <1>4 DEF ExecBR, ExecALU, ExecLEA, ExecJMP, ExecJSR
  <1>5. CASE MemWait(in)
    BY <1>5 DEF MemWait, CoreFlow, ReadReturns, OP_LDI, OP_RTI
  <1>6. CASE FetchIndirectPtr(in)
    BY <1>6 DEF FetchIndirectPtr, IssueRead, AccessFault, OP_LDI, OP_RTI
  <1>7. CASE FetchMem(in)
    BY <1>7 DEF FetchMem, IssueRead, AccessFault, OP_LDI, OP_LD, OP_RTI
  <1>8. CASE RegWriteback(in) \/ WriteStore(in) \/ ExecTrap(in)
             \/ PsrWrite(in) \/ IntSetPC(in)
    BY <1>8 DEF RegWriteback, WriteStore, ExecTrap, PsrWrite, IntSetPC
  <1>9. CASE ExecStore(in)
    BY <1>9 DEF ExecStore, IssueWrite, AccessFault
  <1>10. CASE PcWrite(in)
    BY <1>10 DEF PcWrite
  <1>11. CASE IntPushPSR(in) \/ IntPushPC(in)
    BY <1>11 DEF IntPushPSR, IntPushPC, Push, IssueWrite, AccessFault
  <1>12. CASE IntWriteComplete(in)
    BY <1>12 DEF IntWriteComplete, IssueRead, AccessFault
  <1> QED
    BY <1>1, <1>2, <1>3, <1>4, <1>5, <1>6, <1>7, <1>8, <1>9, <1>10, <1>11,
       <1>12 DEF CoreStep
=============================================================================
