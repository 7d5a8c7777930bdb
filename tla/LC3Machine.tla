----------------------------- MODULE LC3Machine -----------------------------
(***************************************************************************)
(* The core of rtl/lc3_core.sv on the synchronous memory of                *)
(* rtl/lc3_memory.sv, as the core test benches and the Verilator top wire  *)
(* them: both are clocked by clk, so a step is one rising edge at which    *)
(* every register reads the values from before the edge.                   *)
(*                                                                         *)
(* mpr and the interrupt inputs are driven by whoever instantiates the     *)
(* core.  mpr does not change here (LC3System has the real register).  An  *)
(* interrupt may be raised or withdrawn before every fetch; a source holds *)
(* its priority and its vector until the core has entered the handler, as  *)
(* the only one in the repository does by driving constants.               *)
(***************************************************************************)
EXTENDS LC3Core

CONSTANTS
    Images,     \* the memories the machine may start with
    Mprs,       \* the values of the memory protection register
    Irqs        \* the values of the interrupt inputs

Irq == [pending : BOOLEAN, priority : 0 .. 7, vector : Byte]

ASSUME MachineParameters == /\ \A m \in Images : IsMemory(m)
                            /\ Mprs \subseteq Word
                            /\ Irqs \subseteq Irq

VARIABLES mem, mem_rdata,   \* registers of lc3_memory
          mpr, irq          \* inputs of the core

machineVars == <<coreVars, mem, mem_rdata, mpr, irq>>

CoreInputs == [mem_rdata    |-> mem_rdata,
               mpr          |-> mpr,
               machine_halt |-> FALSE,
               irq_pending  |-> irq.pending,
               irq_priority |-> irq.priority,
               irq_vector   |-> irq.vector]

\* The always_ff block of lc3_memory; a read returns the old word.
MemoryClock ==
    /\ mem' = IF mem_we THEN Poke(mem, mem_addr, mem_wdata) ELSE mem
    /\ mem_rdata' = Peek(mem, mem_addr)

\* The interrupt inputs matter to the core in FETCH and while it enters a
\* handler only, so it is enough to let them change as it reaches FETCH.
InputsChange ==
    /\ mpr' = mpr
    /\ IF state' = "FETCH" THEN irq' \in Irqs ELSE irq' = irq

MachineInit ==
    /\ CoreInit
    /\ mem \in Images
    /\ mem_rdata = 0
    /\ mpr \in Mprs
    /\ irq \in Irqs

Clock == CoreClock(CoreInputs) /\ MemoryClock /\ InputsChange

MachineSpec == MachineInit /\ [][Clock]_machineVars

\* The clock of the board never stops.
FairMachineSpec == MachineSpec /\ WF_machineVars(Clock)
-----------------------------------------------------------------------------
\* Every register holds a value of its width.
MachineTypeOK ==
    /\ CoreTypeOK
    /\ IsMemory(mem)
    /\ mem_rdata \in Word
    /\ mpr \in Word
    /\ irq \in Irq

\* States whose action uses the word on mem_rdata.
UsesReadData ==
    \/ state \in {"LATCH_IR", "REG_WRITEBACK", "EXEC_TRAP", "PC_WRITE",
                  "PSR_WRITE", "INT_SET_PC"}
    \/ state = "FETCH_MEM" /\ Opcode(ir) = OP_LDI
    \/ state = "EXEC_STORE" /\ Opcode(ir) = OP_STI

\* The one wait state is enough for the one-clock latency of the memory: a
\* state that consumes mem_rdata finds in it the present contents of the word
\* the core asked for, never the word of the access before, whatever stores
\* and interrupt pushes preceded it.
ReadDataFresh == UsesReadData => mem_rdata = Peek(mem, mem_addr)

\* A write strobe or a read in flight is one the privilege of this moment
\* allows; the only exception is the read of a trap vector.  The check was
\* made a clock earlier, with the psr of then.
BusAuthorised ==
    mem_we \/ state = "MEM_WAIT" =>
        \/ CanAccess(psr, mpr, mem_addr)
        \/ ~mem_we /\ return_state = "EXEC_TRAP" /\ mem_addr \in Byte

\* The trap vectors are the words 0 .. 255, the interrupt vectors those above.
VectorTable == 0 .. 511

\* User code gains the supervisor privilege only together with a jump to an
\* address held in the trap or the interrupt vector table.
PrivilegeOnlyThroughVectors ==
    [][ ~IsSupervisor(psr) /\ IsSupervisor(psr') =>
          \E v \in VectorTable : pc' = Peek(mem, v) ]_machineVars

EntersHandler == state \in {"INT_PUSH_PSR", "INT_PUSH_PC",
                            "INT_WRITE_COMPLETE", "INT_SET_PC"}

\* docs/os-compatibility.md, "On interrupt or exception entry from user mode":
\* "push old PSR and old PC on the supervisor stack", then
\* "PC <- MEM[x0100 + irq_vector]"; so an entry that has started does not stop
\* the machine.
InterruptsReachHandler == [][EntersHandler => state' # "HALT"]_machineVars

\* The controller always gets back to the start of an instruction or halts.
ReturnsToFetch == []<>(state \in {"FETCH", "HALT"})
=============================================================================
