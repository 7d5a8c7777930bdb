------------------------------- MODULE LC3Core -------------------------------
(***************************************************************************)
(* The processor of rtl/lc3_core.sv: a controller with one action per      *)
(* state_t value.  A variable is the register of the same name.  The input *)
(* ports that change while the machine runs are the fields of the record   *)
(* `in' every action takes; a module that contains the core supplies it    *)
(* with what it drives on those wires at that clock edge.  The enumeration *)
(* value STATE_INT_FETCH_VECTOR is left out: nothing assigns it.           *)
(***************************************************************************)
EXTENDS LC3Words

CONSTANTS
    start_ssp,               \* parameter of the module
    reset_pc,                \* input port, tied off by every user
    pennsim_privilege_mode   \* input port, tied off by every user

ASSUME CoreParameters == /\ start_ssp \in Word
                         /\ reset_pc \in Word
                         /\ pennsim_privilege_mode \in BOOLEAN

VARIABLES state, return_state, regs, pc, ir, psr, ssp, usp, pc_loaded,
          mem_addr, mem_wdata, mem_we

bus      == <<mem_addr, mem_wdata, mem_we>>
coreVars == <<state, return_state, regs, pc, ir, psr, ssp, usp, pc_loaded,
              mem_addr, mem_wdata, mem_we>>

State == {"FETCH", "LATCH_IR", "DECODE", "EXEC_ALU", "EXEC_BR", "EXEC_LEA",
          "FETCH_MEM", "MEM_WAIT", "REG_WRITEBACK", "EXEC_STORE",
          "WRITE_STORE", "EXEC_JMP", "EXEC_JSR", "FETCH_INDIRECT_PTR",
          "EXEC_TRAP", "HALT", "PC_WRITE", "PSR_WRITE", "INT_PUSH_PSR",
          "INT_PUSH_PC", "INT_WRITE_COMPLETE", "INT_SET_PC"}

\* What a user of the core may drive on its inputs.
CoreInput == [mem_rdata : Word, mpr : Word, machine_halt : BOOLEAN,
              irq_pending : BOOLEAN, irq_priority : 0 .. 7, irq_vector : Byte]

(***************************************************************************)
(* Privilege.                                                              *)
(***************************************************************************)
IsSupervisor(p) == IF pennsim_privilege_mode THEN ModeBit(p) = 1
                                             ELSE ModeBit(p) = 0
SupervisorBit == IF pennsim_privilege_mode THEN 1 ELSE 0
UserBit       == 1 - SupervisorBit

\* Bit addr[15:12] of the memory protection register.
PageOpen(mpr, addr) ==
    LET page == addr \div 4096
        weight == CASE page = 0 -> 1      [] page = 1 -> 2
                    [] page = 2 -> 4      [] page = 3 -> 8
                    [] page = 4 -> 16     [] page = 5 -> 32
                    [] page = 6 -> 64     [] page = 7 -> 128
                    [] page = 8 -> 256    [] page = 9 -> 512
                    [] page = 10 -> 1024  [] page = 11 -> 2048
                    [] page = 12 -> 4096  [] page = 13 -> 8192
                    [] page = 14 -> 16384 [] OTHER -> 32768
    IN (mpr \div weight) % 2 = 1

CanAccess(p, mpr, addr) == IsSupervisor(p) \/ PageOpen(mpr, addr)

(***************************************************************************)
(* The two tasks through which every bus access but the read of the trap   *)
(* vector goes.  An access the current privilege does not allow stops the  *)
(* machine.  `we' is the value the calling state gives mem_we.             *)
(***************************************************************************)
AccessFault(in, addr) ==
    /\ ~CanAccess(psr, in.mpr, addr)
    /\ mem_we' = FALSE
    /\ state' = "HALT"
    /\ UNCHANGED <<mem_addr, mem_wdata, return_state>>

\* Mutant of IssueRead: the answer is used without the wait state.
IssueRead_NoWait(in, addr, we, next) ==
    \/ AccessFault(in, addr)
    \/ /\ CanAccess(psr, in.mpr, addr)
       /\ mem_addr' = addr
       /\ mem_we' = we
       /\ state' = next
       /\ UNCHANGED <<mem_wdata, return_state>>

IssueRead(in, addr, we, next) ==
    \/ AccessFault(in, addr)
    \/ /\ CanAccess(psr, in.mpr, addr)
       /\ mem_addr' = addr
       /\ mem_we' = we
       /\ return_state' = next
       /\ state' = "MEM_WAIT"
       /\ UNCHANGED mem_wdata

\* Mutant of IssueWrite: stores are not checked.
IssueWrite_Unchecked(in, addr, data, next) ==
    /\ mem_addr' = addr
    /\ mem_wdata' = data
    /\ mem_we' = TRUE
    /\ state' = next
    /\ UNCHANGED return_state

IssueWrite(in, addr, data, next) ==
    \/ AccessFault(in, addr)
    \/ /\ CanAccess(psr, in.mpr, addr)
       /\ mem_addr' = addr
       /\ mem_wdata' = data
       /\ mem_we' = TRUE
       /\ state' = next
       /\ UNCHANGED return_state

(***************************************************************************)
(* Instruction fetch and decode.                                           *)
(***************************************************************************)
\* Mutant of Accepts: an interrupt of the running priority is accepted.
Accepts_SamePriority(in) == in.irq_pending /\ in.irq_priority >= Priority(psr)

Accepts(in) == in.irq_pending /\ in.irq_priority > Priority(psr)

FetchInstruction(in) ==
    /\ state = "FETCH"
    /\ ~Accepts(in)
    /\ IssueRead(in, pc, mem_we, "LATCH_IR")
    /\ UNCHANGED <<regs, pc, ir, psr, ssp, usp, pc_loaded>>

\* Mutant of AcceptInterrupt: the user's stack pointer is not saved.
AcceptInterrupt_LosesUsp(in) ==
    /\ state = "FETCH"
    /\ Accepts(in)
    /\ state' = "INT_PUSH_PSR"
    /\ regs' = [regs EXCEPT ![6] = IF IsSupervisor(psr) THEN @ ELSE ssp]
    /\ UNCHANGED <<return_state, pc, ir, psr, ssp, usp, pc_loaded, bus>>

AcceptInterrupt(in) ==
    /\ state = "FETCH"
    /\ Accepts(in)
    /\ state' = "INT_PUSH_PSR"
    /\ IF IsSupervisor(psr)
       THEN UNCHANGED <<usp, regs>>
       ELSE usp' = regs[6] /\ regs' = [regs EXCEPT ![6] = ssp]
    /\ UNCHANGED <<return_state, pc, ir, psr, ssp, pc_loaded, bus>>

LatchIR(in) ==
    /\ state = "LATCH_IR"
    /\ ir' = in.mem_rdata
    /\ pc' = Plus(pc, 1)
    /\ state' = "DECODE"
    /\ UNCHANGED <<return_state, regs, psr, ssp, usp, pc_loaded, bus>>

\* The state that starts the execution of an instruction.
Dispatch(op, p) ==
    CASE op = OP_BR                     -> "EXEC_BR"
      [] op \in {OP_ADD, OP_AND, OP_NOT} -> "EXEC_ALU"
      [] op = OP_LEA                    -> "EXEC_LEA"
      [] op \in {OP_LD, OP_LDR}         -> "FETCH_MEM"
      [] op \in {OP_ST, OP_STR}         -> "EXEC_STORE"
      [] op \in {OP_LDI, OP_STI, OP_TRAP} -> "FETCH_INDIRECT_PTR"
      [] op = OP_JMP                    -> "EXEC_JMP"
      [] op = OP_JSR                    -> "EXEC_JSR"
      [] op = OP_RTI /\ IsSupervisor(p) -> "FETCH_MEM"
      [] OTHER                          -> "HALT"

Decode(in) ==
    /\ state = "DECODE"
    /\ state' = Dispatch(Opcode(ir), psr)
    /\ UNCHANGED <<return_state, regs, pc, ir, psr, ssp, usp, pc_loaded, bus>>

(***************************************************************************)
(* Register-to-register instructions and control transfers.                *)
(***************************************************************************)
PcRelative9  == Plus(pc, PcOffset9(ir))
PcRelative11 == Plus(pc, PcOffset11(ir))
BaseOffset   == Plus(regs[SR1(ir)], Offset6(ir))

AluResult == LET rhs == IF IsImm(ir) THEN Imm5(ir) ELSE regs[SR2(ir)]
             IN CASE Opcode(ir) = OP_ADD -> Plus(regs[SR1(ir)], rhs)
                  [] Opcode(ir) = OP_AND -> BitAnd(regs[SR1(ir)], rhs)
                  [] OTHER               -> BitNot(regs[SR1(ir)])

\* regs[dr] <= value with the condition codes of value.
WriteRegister(value) ==
    /\ psr' = SetFlags(psr, FlagsFor(value))
    /\ regs' = [regs EXCEPT ![DR(ir)] = value]

ExecBR(in) ==
    /\ state = "EXEC_BR"
    /\ pc' = IF SomeFlag(DR(ir), Flags(psr)) THEN PcRelative9 ELSE pc
    /\ state' = "FETCH"
    /\ UNCHANGED <<return_state, regs, ir, psr, ssp, usp, pc_loaded, bus>>

ExecALU(in) ==
    /\ state = "EXEC_ALU"
    /\ WriteRegister(AluResult)
    /\ state' = "FETCH"
    /\ UNCHANGED <<return_state, pc, ir, ssp, usp, pc_loaded, bus>>

ExecLEA(in) ==
    /\ state = "EXEC_LEA"
    /\ WriteRegister(PcRelative9)
    /\ state' = "FETCH"
    /\ UNCHANGED <<return_state, pc, ir, ssp, usp, pc_loaded, bus>>

ExecJMP(in) ==
    /\ state = "EXEC_JMP"
    /\ pc' = regs[SR1(ir)]
    /\ psr' = IF IsRtt(ir) THEN SetModeBit(psr, UserBit) ELSE psr
    /\ state' = "FETCH"
    /\ UNCHANGED <<return_state, regs, ir, ssp, usp, pc_loaded, bus>>

\* Mutant of ExecJSR: the link is written before the base register is read.
ExecJSR_LinksFirst(in) ==
    /\ state = "EXEC_JSR"
    /\ regs' = [regs EXCEPT ![7] = pc]
    /\ pc' = IF IsJsr(ir) THEN PcRelative11 ELSE regs'[SR1(ir)]
    /\ state' = "FETCH"
    /\ UNCHANGED <<return_state, ir, psr, ssp, usp, pc_loaded, bus>>

ExecJSR(in) ==
    /\ state = "EXEC_JSR"
    /\ regs' = [regs EXCEPT ![7] = pc]
    /\ pc' = IF IsJsr(ir) THEN PcRelative11 ELSE regs[SR1(ir)]
    /\ state' = "FETCH"
    /\ UNCHANGED <<return_state, ir, psr, ssp, usp, pc_loaded, bus>>

(***************************************************************************)
(* Loads, stores, TRAP and RTI.                                            *)
(***************************************************************************)
MemWait(in) ==
    /\ state = "MEM_WAIT"
    /\ state' = return_state
    /\ UNCHANGED <<return_state, regs, pc, ir, psr, ssp, usp, pc_loaded, bus>>

\* Mutant of FetchIndirectPtr: TRAP jumps without waiting for its vector.
FetchIndirectPtr_EarlyTrap(in) ==
    /\ state = "FETCH_INDIRECT_PTR"
    /\ \/ /\ Opcode(ir) = OP_TRAP
          /\ mem_addr' = TrapVector(ir)
          /\ state' = "EXEC_TRAP"
          /\ UNCHANGED <<return_state, mem_wdata, mem_we>>
       \/ /\ Opcode(ir) = OP_LDI
          /\ IssueRead(in, PcRelative9, mem_we, "FETCH_MEM")
       \/ /\ Opcode(ir) \notin {OP_TRAP, OP_LDI}
          /\ IssueRead(in, PcRelative9, mem_we, "EXEC_STORE")
    /\ UNCHANGED <<regs, pc, ir, psr, ssp, usp, pc_loaded>>

FetchIndirectPtr(in) ==
    /\ state = "FETCH_INDIRECT_PTR"
    /\ \/ /\ Opcode(ir) = OP_TRAP
          /\ mem_addr' = TrapVector(ir)
          /\ return_state' = "EXEC_TRAP"
          /\ state' = "MEM_WAIT"
          /\ UNCHANGED <<mem_wdata, mem_we>>
       \/ /\ Opcode(ir) = OP_LDI
          /\ IssueRead(in, PcRelative9, mem_we, "FETCH_MEM")
       \/ /\ Opcode(ir) \notin {OP_TRAP, OP_LDI}
          /\ IssueRead(in, PcRelative9, mem_we, "EXEC_STORE")
    /\ UNCHANGED <<regs, pc, ir, psr, ssp, usp, pc_loaded>>

FetchMem(in) ==
    /\ state = "FETCH_MEM"
    /\ \/ /\ Opcode(ir) = OP_LD
          /\ IssueRead(in, PcRelative9, mem_we, "REG_WRITEBACK")
       \/ /\ Opcode(ir) = OP_LDI
          /\ IssueRead(in, in.mem_rdata, mem_we, "REG_WRITEBACK")
       \/ /\ Opcode(ir) = OP_RTI
          /\ ~pc_loaded
          /\ IssueRead(in, regs[6], mem_we, "PC_WRITE")
       \/ /\ Opcode(ir) = OP_RTI
          /\ pc_loaded
          /\ IssueRead(in, Plus(regs[6], 1), mem_we, "PSR_WRITE")
       \/ /\ Opcode(ir) \notin {OP_LD, OP_LDI, OP_RTI}
          /\ IssueRead(in, BaseOffset, mem_we, "REG_WRITEBACK")
    /\ UNCHANGED <<regs, pc, ir, psr, ssp, usp, pc_loaded>>

RegWriteback(in) ==
    /\ state = "REG_WRITEBACK"
    /\ WriteRegister(in.mem_rdata)
    /\ state' = "FETCH"
    /\ UNCHANGED <<return_state, pc, ir, ssp, usp, pc_loaded, bus>>

StoreAddress(in) == CASE Opcode(ir) = OP_ST  -> PcRelative9
                      [] Opcode(ir) = OP_STI -> in.mem_rdata
                      [] OTHER               -> BaseOffset

ExecStore(in) ==
    /\ state = "EXEC_STORE"
    /\ IssueWrite(in, StoreAddress(in), regs[DR(ir)], "WRITE_STORE")
    /\ UNCHANGED <<regs, pc, ir, psr, ssp, usp, pc_loaded>>

\* Mutant of WriteStore: the data goes from the bus together with the strobe.
WriteStore_DropsData(in) ==
    /\ state = "WRITE_STORE"
    /\ mem_we' = FALSE
    /\ mem_wdata' = 0
    /\ state' = "FETCH"
    /\ UNCHANGED <<return_state, regs, pc, ir, psr, ssp, usp, pc_loaded,
                   mem_addr>>

WriteStore(in) ==
    /\ state = "WRITE_STORE"
    /\ mem_we' = FALSE
    /\ state' = "FETCH"
    /\ UNCHANGED <<return_state, regs, pc, ir, psr, ssp, usp, pc_loaded,
                   mem_addr, mem_wdata>>

ExecTrap(in) ==
    /\ state = "EXEC_TRAP"
    /\ regs' = [regs EXCEPT ![7] = pc]
    /\ pc' = in.mem_rdata
    /\ psr' = SetModeBit(psr, SupervisorBit)
    /\ state' = "FETCH"
    /\ UNCHANGED <<return_state, ir, ssp, usp, pc_loaded, bus>>

\* Mutant of PcWrite: RTI does not remember that it has popped the PC.
PcWrite_Forgets(in) ==
    /\ state = "PC_WRITE"
    /\ pc' = in.mem_rdata
    /\ state' = "FETCH_MEM"
    /\ UNCHANGED <<return_state, regs, ir, psr, ssp, usp, pc_loaded, bus>>

PcWrite(in) ==
    /\ state = "PC_WRITE"
    /\ pc' = in.mem_rdata
    /\ pc_loaded' = TRUE
    /\ state' = "FETCH_MEM"
    /\ UNCHANGED <<return_state, regs, ir, psr, ssp, usp, bus>>

\* Mutant of PsrWrite: the frame stays on the supervisor stack.
PsrWrite_LeavesFrame(in) ==
    /\ state = "PSR_WRITE"
    /\ psr' = in.mem_rdata
    /\ pc_loaded' = FALSE
    /\ state' = "FETCH"
    /\ IF IsSupervisor(in.mem_rdata)
       THEN /\ regs' = [regs EXCEPT ![6] = Plus(@, 2)]
            /\ UNCHANGED ssp
       ELSE /\ ssp' = regs[6]
            /\ regs' = [regs EXCEPT ![6] = usp]
    /\ UNCHANGED <<return_state, pc, ir, usp, bus>>

PsrWrite(in) ==
    /\ state = "PSR_WRITE"
    /\ psr' = in.mem_rdata
    /\ pc_loaded' = FALSE
    /\ state' = "FETCH"
    /\ IF IsSupervisor(in.mem_rdata)
       THEN /\ regs' = [regs EXCEPT ![6] = Plus(@, 2)]
            /\ UNCHANGED ssp
       ELSE /\ ssp' = Plus(regs[6], 2)
            /\ regs' = [regs EXCEPT ![6] = usp]
    /\ UNCHANGED <<return_state, pc, ir, usp, bus>>

(***************************************************************************)
(* Interrupt entry.  The controller inputs irq_vector and irq_priority are *)
(* read here, several clocks after AcceptInterrupt looked at them.         *)
(***************************************************************************)
Push(in, data, next) ==
    /\ regs' = [regs EXCEPT ![6] = Plus(@, 65535)]
    /\ IssueWrite(in, Plus(regs[6], 65535), data, next)
    /\ UNCHANGED <<pc, ir, psr, ssp, usp, pc_loaded>>

IntPushPSR(in) == state = "INT_PUSH_PSR" /\ Push(in, psr, "INT_PUSH_PC")

IntPushPC(in) == state = "INT_PUSH_PC" /\ Push(in, pc, "INT_WRITE_COMPLETE")

IntWriteComplete(in) ==
    /\ state = "INT_WRITE_COMPLETE"
    /\ IssueRead(in, 256 + in.irq_vector, FALSE, "INT_SET_PC")
    /\ UNCHANGED <<regs, pc, ir, psr, ssp, usp, pc_loaded>>

IntSetPC(in) ==
    /\ state = "INT_SET_PC"
    /\ pc' = in.mem_rdata
    /\ psr' = SetModeBit(SetPriority(psr, in.irq_priority), SupervisorBit)
    /\ state' = "FETCH"
    /\ UNCHANGED <<return_state, regs, ir, ssp, usp, pc_loaded, bus>>

\* STATE_HALT falls into the default branch and stays.
Halted(in) == state = "HALT" /\ UNCHANGED coreVars

(***************************************************************************)
(* One clock edge with reset released; the registers once reset has been   *)
(* asserted, which is how every run starts; and a clock edge during reset. *)
(***************************************************************************)
CoreStep(in) ==
    \/ FetchInstruction(in) \/ AcceptInterrupt(in) \/ LatchIR(in)
    \/ Decode(in) \/ ExecBR(in) \/ ExecALU(in) \/ ExecLEA(in) \/ ExecJMP(in)
    \/ ExecJSR(in) \/ MemWait(in) \/ FetchIndirectPtr(in) \/ FetchMem(in)
    \/ RegWriteback(in) \/ ExecStore(in) \/ WriteStore(in) \/ ExecTrap(in)
    \/ PcWrite(in) \/ PsrWrite(in) \/ IntPushPSR(in) \/ IntPushPC(in)
    \/ IntWriteComplete(in) \/ IntSetPC(in) \/ Halted(in)

CoreFrozen(in) == in.machine_halt /\ UNCHANGED coreVars

\* Mutant of CoreClock: the core runs on while the machine is halted.
CoreClock_RunsOn(in) == CoreStep(in)

CoreClock(in) == CoreFrozen(in) \/ (~in.machine_halt /\ CoreStep(in))

CoreInit ==
    /\ pc = reset_pc
    /\ ir = 0
    /\ state = "FETCH"
    /\ return_state = "HALT"
    /\ regs = [r \in Reg |-> 0]
    /\ psr = SetModeBit(2, SupervisorBit)
    /\ ssp = start_ssp
    /\ usp = 0
    /\ pc_loaded = FALSE
    /\ mem_addr = 0
    /\ mem_wdata = 0
    /\ mem_we = FALSE

CoreReset ==
    /\ pc' = reset_pc
    /\ ir' = 0
    /\ state' = "FETCH"
    /\ return_state' = "HALT"
    /\ regs' = [r \in Reg |-> 0]
    /\ psr' = SetModeBit(2, SupervisorBit)
    /\ ssp' = start_ssp
    /\ usp' = 0
    /\ pc_loaded' = FALSE
    /\ mem_addr' = 0
    /\ mem_wdata' = 0
    /\ mem_we' = FALSE
-----------------------------------------------------------------------------
CoreTypeOK ==
    /\ state \in State
    /\ return_state \in State
    /\ regs \in [Reg -> Word]
    /\ pc \in Word
    /\ ir \in Word
    /\ psr \in Word
    /\ ssp \in Word
    /\ usp \in Word
    /\ pc_loaded \in BOOLEAN
    /\ mem_addr \in Word
    /\ mem_wdata \in Word
    /\ mem_we \in BOOLEAN

\* The write strobe is up for one clock per store or push: it is low again
\* whenever the core starts an instruction, waits for a read or has halted,
\* so no word is written twice and a halted core does not write.
StrobeDrops ==
    mem_we => state \in {"WRITE_STORE", "INT_PUSH_PC", "INT_WRITE_COMPLETE"}

\* An instruction never starts with pc_loaded set: the two reads of an RTI
\* both happen or the core has halted, so the next RTI pops the PC first.
RtiComplete == state = "FETCH" => ~pc_loaded
=============================================================================
