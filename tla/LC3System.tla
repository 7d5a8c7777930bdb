------------------------------ MODULE LC3System ------------------------------
(***************************************************************************)
(* The computer of rtl/lc3_top.sv on its system clock: the core, the       *)
(* memory controller with the keyboard and the timer in it, and the ready  *)
(* flag of whatever displays characters.  A step is one rising edge of     *)
(* clk, at which every block reads what the others held before it, or one  *)
(* edge during which the reset button is down.                             *)
(*                                                                         *)
(* The serial receiver is seen through the characters it delivers, the     *)
(* serial transmitter (with the display bridge, in text console mode)      *)
(* through display_ready, which does what DisplayPort says.                *)
(***************************************************************************)
EXTENDS LC3Core, LC3MemoryController

CONSTANTS
    Images,    \* contents of the RAM when the board is configured
    Keys       \* characters the keyboard may send

ASSUME SystemParameters == /\ \A m \in Images : IsMemory(m)
                           /\ Keys \subseteq Byte

VARIABLE display_ready

systemVars == <<coreVars, controllerVars, display_ready>>

CoreWires == [mem_rdata    |-> cpu_rdata,
              mpr          |-> mpr,
              machine_halt |-> machine_halt,
              irq_pending  |-> irq_pending,
              irq_priority |-> irq_priority,
              irq_vector   |-> irq_vector]

Port == INSTANCE DisplayPort

SystemClock(keys) ==
    /\ CoreClock(CoreWires)
    /\ ControllerClock(mem_addr, mem_wdata, mem_we, display_ready, keys)
    /\ Port!DisplayClock

ResetButton ==
    /\ CoreReset
    /\ ControllerReset
    /\ display_ready' = TRUE

SystemInit ==
    /\ CoreInit
    /\ ControllerInit
    /\ mem \in Images
    /\ display_ready = TRUE

\* The keyboard port is idle or brings one character.
KeyPort == {{}} \cup {{k} : k \in Keys}

SystemNext == (\E keys \in KeyPort : SystemClock(keys)) \/ ResetButton

SystemSpec == SystemInit /\ [][SystemNext]_systemVars
-----------------------------------------------------------------------------
SystemTypeOK == CoreTypeOK /\ ControllerTypeOK /\ display_ready \in BOOLEAN

\* Once a program has cleared bit 15 of MCR no word of memory changes, whatever
\* store or interrupt push was under way in the clock in which the halt took
\* effect.
FrozenMachineKeepsMemory == [][machine_halt => mem' = mem]_systemVars

\* Nothing but the reset button starts a halted machine again: a write that is
\* still on the frozen bus does not reach MCR.
OnlyResetRestarts ==
    [][machine_halt /\ ~machine_halt' => ResetButton]_systemVars

\* No word changes that the privilege of the running program does not reach at
\* the moment of the change, although the check was made a clock earlier, with
\* the protection register of then.
NoForbiddenWrite == [][mem' # mem => CanAccess(psr, mpr, mem_addr)]_systemVars

\* A program in user mode widens the memory protection only if the protection
\* gives it the page of the device registers.
ProtectionKept ==
    [][mpr' # mpr => CanAccess(psr, mpr, MPR_ADDR) \/ ResetButton]_systemVars

\* The prescaler and the tick counter keep the promised period to the clock:
\* with its strobes and the word on the bus as its inputs, each clock edge of
\* the computer is one of the promised countdown, which is loaded by a store to
\* TMI only, loses no tick and counts no clock twice or not at all; the button
\* turns it off.
KeepsPeriod ==
    /\ Promise!Init
    /\ [][ IF ResetButton THEN Promise!Reset
           ELSE Promise!Edge(tmr_read, tmi_we, mem_wdata) ]_systemVars
=============================================================================
