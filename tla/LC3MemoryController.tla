------------------------ MODULE LC3MemoryController ------------------------
(***************************************************************************)
(* The address decoder of rtl/lc3_memory_controller.sv with the RAM, the   *)
(* framebuffer and the device registers behind it.  It contains the timer  *)
(* and the keyboard.  Everything it does it does at every clock edge for   *)
(* the address and strobe it then sees: the core does not tell it when an  *)
(* access starts or ends, and leaves the address standing between two.     *)
(*                                                                         *)
(* mem holds the RAM below RAM_WORDS and the framebuffer, which occupy     *)
(* disjoint addresses.  The second port of the framebuffer, through which  *)
(* the video side reads, changes no state and is left out.                 *)
(***************************************************************************)
EXTENDS LC3Timer, LC3Keyboard

CONSTANT RAM_WORDS

\* The RAM ends below the framebuffer.
ASSUME ControllerParameters == RAM_WORDS \in Nat /\ RAM_WORDS <= 49152

VARIABLES mem, cpu_rdata, mcr, mpr, kb_int_bit,
          tmr_read, tmi_we, kbdr_read, display_valid, display_data

controllerVars == <<mem, cpu_rdata, mcr, mpr, kb_int_bit, tmr_read, tmi_we,
                    kbdr_read, display_valid, display_data,
                    timerVars, keyboardVars>>

FRAMEBUFFER_START == 49152    \* xC000
FRAMEBUFFER_END   == 65023    \* xFDFF
DEVICE_START      == 65024    \* xFE00
KBSR_ADDR == 65024            \* xFE00
KBDR_ADDR == 65026            \* xFE02
DSR_ADDR  == 65028            \* xFE04
DDR_ADDR  == 65030            \* xFE06
TMR_ADDR  == 65032            \* xFE08
TMI_ADDR  == 65034            \* xFE0A
MPR_ADDR  == 65042            \* xFE12
MCR_ADDR  == 65534            \* xFFFE
DeviceRegisters == {KBSR_ADDR, KBDR_ADDR, DSR_ADDR, DDR_ADDR, TMR_ADDR,
                    TMI_ADDR, MPR_ADDR, MCR_ADDR}

IsFramebuffer(a) == FRAMEBUFFER_START <= a /\ a <= FRAMEBUFFER_END
IsRam(a)         == a < RAM_WORDS
IsDevice(a)      == a >= DEVICE_START

(***************************************************************************)
(* Outputs.                                                                *)
(***************************************************************************)
\* Mutant of kbsr_value: the ready bit shows only while interrupts are enabled.
kbsr_value_Enabled == (IF kb_ready_bit /\ kb_int_bit THEN 32768 ELSE 0)
                      + (IF kb_int_bit THEN 16384 ELSE 0)

kbsr_value   == (IF kb_ready_bit THEN 32768 ELSE 0)
                + (IF kb_int_bit THEN 16384 ELSE 0)
machine_halt == mcr < 32768

\* Mutant of irq_pending: the enable bit alone raises the request.
irq_pending_WhenEnabled == kb_int_bit

irq_pending  == kb_ready_bit /\ kb_int_bit
irq_priority == 4
irq_vector   == 128           \* INT_KEYBOARD_VEC
keyboard_ready == ~kb_ready_bit

(***************************************************************************)
(* One clock edge.  addr, wdata and we are the bus, ready is display_ready *)
(* and keys is what the keyboard port brings.                              *)
(***************************************************************************)
Reads(r, addr, we)  == addr = r /\ ~we
Writes(r, addr, we) == addr = r /\ we

\* The word on cpu_rdata after the edge.  DDR has no read path, and a write to
\* a device register leaves what was there.
ReadData(addr, we, ready) ==
    IF IsFramebuffer(addr) \/ IsRam(addr) THEN Peek(mem, addr)
    ELSE IF addr \notin DeviceRegisters THEN 0
    ELSE CASE Reads(KBSR_ADDR, addr, we) -> kbsr_value
           [] Reads(KBDR_ADDR, addr, we) -> kbdr_value
           [] Reads(DSR_ADDR, addr, we)  -> IF ready THEN 32768 ELSE 0
           [] Reads(TMR_ADDR, addr, we)  -> tmr_value
           [] Reads(TMI_ADDR, addr, we)  -> tmi_value
           [] Reads(MPR_ADDR, addr, we)  -> mpr
           [] Reads(MCR_ADDR, addr, we)  -> mcr
           [] OTHER                      -> cpu_rdata

\* RAM and framebuffer; a write to the gap between them is dropped.
StorageClock(addr, wdata, we) ==
    mem' = IF we /\ (IsFramebuffer(addr) \/ IsRam(addr))
           THEN Poke(mem, addr, wdata) ELSE mem

\* Mutant of PulsesClock: display_valid is not taken back by default.
PulsesClock_HoldsValid(addr, wdata, we, ready) ==
    /\ kbdr_read' = Reads(KBDR_ADDR, addr, we)
    /\ tmr_read' = Reads(TMR_ADDR, addr, we)
    /\ tmi_we' = Writes(TMI_ADDR, addr, we)
    /\ display_valid' = (display_valid
                          \/ (Writes(DDR_ADDR, addr, we) /\ ready))
    /\ display_data' = IF Writes(DDR_ADDR, addr, we) /\ ready
                       THEN wdata % 256 ELSE display_data

\* One-clock pulses to the devices, visible to them one clock later.
PulsesClock(addr, wdata, we, ready) ==
    /\ kbdr_read' = Reads(KBDR_ADDR, addr, we)
    /\ tmr_read' = Reads(TMR_ADDR, addr, we)
    /\ tmi_we' = Writes(TMI_ADDR, addr, we)
    /\ display_valid' = (Writes(DDR_ADDR, addr, we) /\ ready)
    /\ display_data' = IF display_valid' THEN wdata % 256 ELSE display_data

ControlRegistersClock(addr, wdata, we) ==
    /\ mpr' = IF Writes(MPR_ADDR, addr, we) THEN wdata ELSE mpr
    /\ mcr' = IF Writes(MCR_ADDR, addr, we) THEN wdata ELSE mcr
    /\ kb_int_bit' = IF Writes(KBSR_ADDR, addr, we)
                     THEN (wdata \div 16384) % 2 = 1 ELSE kb_int_bit

\* The timer takes the word of a TMI write from the bus one clock after the
\* write, when tmi_we has reached it.
ControllerClock(addr, wdata, we, ready, keys) ==
    /\ cpu_rdata' = ReadData(addr, we, ready)
    /\ StorageClock(addr, wdata, we)
    /\ PulsesClock(addr, wdata, we, ready)
    /\ ControlRegistersClock(addr, wdata, we)
    /\ TimerClock(tmr_read, tmi_we, wdata)
    /\ KeyboardClock(keys, kbdr_read)

\* The registers after the first reset; mem is left to the module's user.
ControllerInit ==
    /\ cpu_rdata = 0
    /\ mcr = 65535
    /\ mpr = 0
    /\ kb_int_bit = FALSE
    /\ tmr_read = FALSE
    /\ tmi_we = FALSE
    /\ kbdr_read = FALSE
    /\ display_valid = FALSE
    /\ display_data = 0
    /\ TimerInit
    /\ KeyboardInit

\* A clock edge during reset: the memories keep their words.
ControllerReset ==
    /\ cpu_rdata' = 0
    /\ mcr' = 65535
    /\ mpr' = 0
    /\ kb_int_bit' = FALSE
    /\ tmr_read' = FALSE
    /\ tmi_we' = FALSE
    /\ kbdr_read' = FALSE
    /\ display_valid' = FALSE
    /\ display_data' = 0
    /\ UNCHANGED mem
    /\ TimerReset
    /\ KeyboardReset
-----------------------------------------------------------------------------
ControllerTypeOK ==
    /\ IsMemory(mem)
    /\ cpu_rdata \in Word
    /\ mcr \in Word
    /\ mpr \in Word
    /\ kb_int_bit \in BOOLEAN
    /\ tmr_read \in BOOLEAN
    /\ tmi_we \in BOOLEAN
    /\ kbdr_read \in BOOLEAN
    /\ display_valid \in BOOLEAN
    /\ display_data \in Byte
    /\ TimerTypeOK
    /\ KeyboardTypeOK
=============================================================================
