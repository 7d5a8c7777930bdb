------------------------------- MODULE LC3ISA -------------------------------
(***************************************************************************)
(* What a programmer may rely on: the LC-3 as a machine that executes one  *)
(* instruction, or enters one interrupt handler, per step.  LC3MachineRun  *)
(* shows that the clocked controller of LC3Core implements it.  There is   *)
(* no bus, no wait state and no controller state here, and no partially    *)
(* executed instruction: an instruction that may not make one of its       *)
(* accesses stops the machine without any other effect.                    *)
(***************************************************************************)
EXTENDS LC3Words

CONSTANTS start_ssp, reset_pc, pennsim_privilege_mode, Images, Mprs, Irqs

VARIABLES regs, pc, psr, ssp, usp,   \* the programmer's registers
          mem, mpr, stopped

isaVars == <<regs, pc, psr, ssp, usp, mem, mpr, stopped>>

Core == INSTANCE LC3Core WITH
          state <- 0, return_state <- 0, ir <- 0, pc_loaded <- 0,
          mem_addr <- 0, mem_wdata <- 0, mem_we <- 0

IsSup(p)    == Core!IsSupervisor(p)
Allowed(as) == \A a \in as : Core!CanAccess(psr, mpr, a)

Next1   == Plus(pc, 1)               \* the incremented PC
Rel9(i) == Plus(Next1, PcOffset9(i))
Base(i) == Plus(regs[SR1(i)], Offset6(i))

\* The word of data the instruction i addresses, and all it accesses.
EffectiveAddress(i) ==
    CASE Opcode(i) \in {OP_LD, OP_ST}   -> Rel9(i)
      [] Opcode(i) \in {OP_LDI, OP_STI} -> Peek(mem, Rel9(i))
      [] OTHER                          -> Base(i)

Accesses(i) ==
    CASE Opcode(i) \in {OP_LD, OP_ST, OP_LDR, OP_STR} -> {EffectiveAddress(i)}
      [] Opcode(i) \in {OP_LDI, OP_STI} -> {Rel9(i), EffectiveAddress(i)}
      [] OTHER                          -> {}

\* The instruction i is fetched and may be executed to its end.
Executes(i, ops) ==
    /\ ~stopped
    /\ Allowed({pc})
    /\ i = Peek(mem, pc)
    /\ Opcode(i) \in ops
    /\ Allowed(Accesses(i))
    /\ stopped' = FALSE
    /\ mpr' = mpr

SetRegister(i, value) ==
    /\ regs' = [regs EXCEPT ![DR(i)] = value]
    /\ psr' = SetFlags(psr, FlagsFor(value))
    /\ pc' = Next1
    /\ UNCHANGED <<ssp, usp, mem>>

Operate(i) ==
    LET rhs == IF IsImm(i) THEN Imm5(i) ELSE regs[SR2(i)]
    IN /\ Executes(i, {OP_ADD, OP_AND, OP_NOT, OP_LEA})
       /\ SetRegister(i, CASE Opcode(i) = OP_ADD -> Plus(regs[SR1(i)], rhs)
                           [] Opcode(i) = OP_AND -> BitAnd(regs[SR1(i)], rhs)
                           [] Opcode(i) = OP_NOT -> BitNot(regs[SR1(i)])
                           [] OTHER              -> Rel9(i))

Load(i) == /\ Executes(i, {OP_LD, OP_LDI, OP_LDR})
           /\ SetRegister(i, Peek(mem, EffectiveAddress(i)))

Store(i) == /\ Executes(i, {OP_ST, OP_STI, OP_STR})
            /\ mem' = Poke(mem, EffectiveAddress(i), regs[DR(i)])
            /\ pc' = Next1
            /\ UNCHANGED <<regs, psr, ssp, usp>>

Branch(i) ==
    /\ Executes(i, {OP_BR})
    /\ pc' = IF SomeFlag(DR(i), Flags(psr)) THEN Rel9(i) ELSE Next1
    /\ UNCHANGED <<regs, psr, ssp, usp, mem>>

Jump(i) ==
    /\ Executes(i, {OP_JMP})
    /\ pc' = regs[SR1(i)]
    /\ psr' = IF IsRtt(i) THEN SetModeBit(psr, Core!UserBit) ELSE psr
    /\ UNCHANGED <<regs, ssp, usp, mem>>

\* JSRR R7 jumps to the old R7.
JumpToSubroutine(i) ==
    /\ Executes(i, {OP_JSR})
    /\ pc' = IF IsJsr(i) THEN Plus(Next1, PcOffset11(i)) ELSE regs[SR1(i)]
    /\ regs' = [regs EXCEPT ![7] = Next1]
    /\ UNCHANGED <<psr, ssp, usp, mem>>

\* TRAP links through R7 and keeps the stack pointer: it switches the
\* privilege and nothing else.
Trap(i) ==
    /\ Executes(i, {OP_TRAP})
    /\ pc' = Peek(mem, TrapVector(i))
    /\ regs' = [regs EXCEPT ![7] = Next1]
    /\ psr' = SetModeBit(psr, Core!SupervisorBit)
    /\ UNCHANGED <<ssp, usp, mem>>

\* Pops PC and PSR, and leaves the supervisor stack with a return to user mode.
ReturnFromInterrupt(i) ==
    LET popped == Peek(mem, Plus(regs[6], 1))
    IN /\ Executes(i, {OP_RTI})
       /\ IsSup(psr)
       /\ pc' = Peek(mem, regs[6])
       /\ psr' = popped
       /\ regs' = [regs EXCEPT
                     ![6] = IF IsSup(popped) THEN Plus(@, 2) ELSE usp]
       /\ ssp' = IF IsSup(popped) THEN ssp ELSE Plus(regs[6], 2)
       /\ UNCHANGED <<usp, mem>>

\* An instruction that may not be fetched, is reserved, is an RTI of a user,
\* or may not make one of its accesses.
Fault(i) ==
    /\ ~stopped
    /\ i = Peek(mem, pc)
    /\ \/ ~Allowed({pc})
       \/ Opcode(i) = 13
       \/ Opcode(i) = OP_RTI /\ ~IsSup(psr)
       \/ ~Allowed(Accesses(i))
    /\ stopped' = TRUE
    /\ pc' = IF Allowed({pc}) THEN Next1 ELSE pc
    /\ UNCHANGED <<regs, psr, ssp, usp, mem, mpr>>

(***************************************************************************)
(* Interrupts.                                                             *)
(***************************************************************************)
\* The supervisor stack, and memory with the first n words of the frame on it.
StackTop == IF IsSup(psr) THEN regs[6] ELSE ssp
Slot(n)  == Plus(StackTop, 65536 - n)
Pushed(n) == CASE n = 0 -> mem
               [] n = 1 -> Poke(mem, Slot(1), psr)
               [] n = 2 -> Poke(Poke(mem, Slot(1), psr), Slot(2), pc)

\* The interrupt has started and the stack pointer is moved down by n.
Entered(irq, n) ==
    /\ ~stopped
    /\ irq.pending
    /\ irq.priority > Priority(psr)
    /\ regs' = [regs EXCEPT ![6] = Slot(n)]
    /\ usp' = IF IsSup(psr) THEN usp ELSE regs[6]
    /\ UNCHANGED <<ssp, mpr>>

EnterHandler(irq) ==
    /\ Entered(irq, 2)
    /\ Allowed({Slot(1), Slot(2), 256 + irq.vector})
    /\ mem' = Pushed(2)
    /\ pc' = Peek(Pushed(2), 256 + irq.vector)
    /\ psr' = SetModeBit(SetPriority(psr, irq.priority), Core!SupervisorBit)
    /\ stopped' = FALSE

\* The frame and the vector are accessed with the privilege of the interrupted
\* program, which may be refused.
FaultingEntry(irq) ==
    /\ \/ Entered(irq, 1) /\ ~Allowed({Slot(1)}) /\ mem' = Pushed(0)
       \/ /\ Entered(irq, 2)
          /\ Allowed({Slot(1)})
          /\ ~Allowed({Slot(2)})
          /\ mem' = Pushed(1)
       \/ /\ Entered(irq, 2)
          /\ Allowed({Slot(1), Slot(2)})
          /\ ~Allowed({256 + irq.vector})
          /\ mem' = Pushed(2)
    /\ stopped' = TRUE
    /\ UNCHANGED <<pc, psr>>

Init ==
    /\ regs = [r \in Reg |-> 0]
    /\ pc = reset_pc
    /\ psr = SetModeBit(2, Core!SupervisorBit)
    /\ ssp = start_ssp
    /\ usp = 0
    /\ mem \in Images
    /\ mpr \in Mprs
    /\ stopped = FALSE

Next ==
    \/ \E i \in {Peek(mem, pc)} :
          \/ Operate(i) \/ Load(i) \/ Store(i) \/ Branch(i) \/ Jump(i)
          \/ JumpToSubroutine(i) \/ Trap(i) \/ ReturnFromInterrupt(i)
          \/ Fault(i)
    \/ \E irq \in Irqs : EnterHandler(irq) \/ FaultingEntry(irq)

Spec == Init /\ [][Next]_isaVars
=============================================================================
