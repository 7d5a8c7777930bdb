--------------------------- MODULE LC3SystemProofs ---------------------------
(***************************************************************************)
(* The properties of LC3System that relate a store to the clock in which   *)
(* it takes effect, proved for every program, every privilege encoding,    *)
(* every use of the keyboard and the reset button.  The inductive          *)
(* invariant adds to the types and CoreFlow the one write that may still   *)
(* be on the bus after a device register has changed: the second push of   *)
(* an interrupt, one word below the register.                              *)
(***************************************************************************)
EXTENDS LC3SystemRun, LC3CoreProofs

\* The words below MPR and MCR; neither is RAM, framebuffer or a register.
BelowMpr == 65041
BelowMcr == 65533

\* A write on the bus is allowed by the protection of this moment.
WriteChecked ==
    mem_we => CanAccess(psr, mpr, mem_addr) \/ mem_addr = BelowMpr

\* A write on the bus of a halted machine.
FrozenWrite == mem_we /\ machine_halt => mem_addr = BelowMcr

SystemInv == SystemTypeOK /\ CoreFlow /\ WriteChecked /\ FrozenWrite
-----------------------------------------------------------------------------
\* The wires between the blocks have the widths of their ports.
LEMMA WiresTyped == ASSUME SystemTypeOK
                    PROVE  CoreWires \in CoreInput
  <1>1. /\ cpu_rdata \in Word
        /\ mpr \in Word
        /\ machine_halt \in BOOLEAN
        /\ irq_pending \in BOOLEAN
        /\ irq_priority \in 0 .. 7
        /\ irq_vector \in Byte
    BY DEF SystemTypeOK, ControllerTypeOK, KeyboardTypeOK, machine_halt,
           irq_pending, irq_priority, irq_vector, Byte
  <1> QED
    BY <1>1 DEF CoreWires, CoreInput

\* A millisecond has at least one clock.
LEMMA ClocksType == /\ CLOCKS_PER_MILLISECOND \in Nat
                    /\ CLOCKS_PER_MILLISECOND > 0
  BY TimerParameters DEF Word

\* The timer keeps its widths.
LEMMA TimerTypeStep ==
  ASSUME TimerTypeOK, NEW read \in BOOLEAN, NEW we \in BOOLEAN,
         NEW v \in Word, TimerClock(read, we, v)
  PROVE  TimerTypeOK'
  <1>1. /\ clock_count \in Nat /\ clock_count < CLOCKS_PER_MILLISECOND
        /\ remaining_ticks \in Nat /\ remaining_ticks < 65536
        /\ tmi_value \in Nat /\ tmi_value < 65536
    BY ClocksType DEF TimerTypeOK, Word
  <1>2. v \in Nat /\ v < 65536
    BY DEF Word
  <1>3. timer_ready' \in BOOLEAN
    <2>1. \/ timer_ready' = FALSE
          \/ timer_ready' = TRUE
          \/ timer_ready' = (timer_ready /\ ~read)
      BY DEF TimerClock, LoadInterval, Disabled, CountClock, CountTick,
             Expire
    <2> QED
      BY <2>1
  <1>4. /\ clock_count' \in Nat /\ clock_count' < CLOCKS_PER_MILLISECOND
        /\ remaining_ticks' \in Nat /\ remaining_ticks' < 65536
        /\ tmi_value' \in Nat /\ tmi_value' < 65536
    <2>1. CASE LoadInterval(we, v)
      <3>1. tmi_value' = v /\ remaining_ticks' = v
            /\ clock_count' = CLOCKS_PER_MILLISECOND - 1
        BY <2>1 DEF LoadInterval, Reload
      <3> QED
        BY <1>2, <3>1, ClocksType
    <2>2. CASE Disabled(we)
      <3>1. tmi_value' = 0 /\ remaining_ticks' = 0 /\ clock_count' = 0
        BY <2>2 DEF Disabled
      <3> QED
        BY <3>1, ClocksType
    <2>3. CASE CountClock(read, we)
      BY <1>1, <2>3, ClocksType DEF CountClock
    <2>4. CASE CountTick(read, we)
      BY <1>1, <2>4, ClocksType DEF CountTick, Reload
    <2>5. CASE Expire(we)
      BY <1>1, <2>5, ClocksType DEF Expire, Reload
    <2> QED
      BY <2>1, <2>2, <2>3, <2>4, <2>5 DEF TimerClock
  <1> QED
    BY <1>3, <1>4, ClocksType DEF TimerTypeOK, Word

\* So does the keyboard.
LEMMA KeyboardTypeStep ==
  ASSUME KeyboardTypeOK, NEW keys \in SUBSET Byte, NEW read \in BOOLEAN,
         KeyboardClock(keys, read)
  PROVE  KeyboardTypeOK'
  <1>1. kb_ready_bit' \in BOOLEAN
    <2>1. \/ kb_ready_bit' = TRUE
          \/ kb_ready_bit' = (kb_ready_bit /\ ~read)
      BY DEF KeyboardClock
    <2> QED
      BY <2>1
  <1>2. kbdr_value' \in Byte
    BY DEF KeyboardClock, KeyboardTypeOK
  <1> QED
    BY <1>1, <1>2 DEF KeyboardTypeOK

\* Every word the address decoder may answer with is a word.
LEMMA ReadDataType ==
  ASSUME ControllerTypeOK, NEW addr \in Word, NEW we \in BOOLEAN,
         NEW ready \in BOOLEAN
  PROVE  ReadData(addr, we, ready) \in Word
  <1>1. Peek(mem, addr) \in Word
    BY MemoryType, Literals DEF ControllerTypeOK
  <1>2. /\ 0 \in Word /\ 32768 \in Word
        /\ kbsr_value \in Word
        /\ tmr_value \in Word
        /\ kbdr_value \in Word
    BY DEF kbsr_value, tmr_value, ControllerTypeOK, KeyboardTypeOK, Word,
           Byte
  <1>3. /\ cpu_rdata \in Word /\ mpr \in Word /\ mcr \in Word
        /\ tmi_value \in Word
    BY DEF ControllerTypeOK, TimerTypeOK
  <1> QED
    BY <1>1, <1>2, <1>3 DEF ReadData

\* A clock edge keeps the widths of the memory controller,
LEMMA ControllerTypeStep ==
  ASSUME ControllerTypeOK, NEW addr \in Word, NEW wdata \in Word,
         NEW we \in BOOLEAN, NEW ready \in BOOLEAN, NEW keys \in SUBSET Byte,
         ControllerClock(addr, wdata, we, ready, keys)
  PROVE  ControllerTypeOK'
  <1>1. cpu_rdata' \in Word
    BY ReadDataType DEF ControllerClock
  <1>2. IsMemory(mem')
    BY MemoryType DEF ControllerTypeOK, ControllerClock, StorageClock
  <1>3. mcr' \in Word /\ mpr' \in Word /\ kb_int_bit' \in BOOLEAN
    <2>1. ControlRegistersClock(addr, wdata, we)
      BY DEF ControllerClock
    <2>2. mcr \in Word /\ mpr \in Word /\ kb_int_bit \in BOOLEAN
      BY DEF ControllerTypeOK
    <2>3. mcr' \in Word /\ mpr' \in Word
      BY <2>1, <2>2 DEF ControlRegistersClock
    <2>4. PICK n : n = (wdata \div 16384) % 2
      OBVIOUS
    <2>5. kb_int_bit' = IF Writes(KBSR_ADDR, addr, we) THEN n = 1
                        ELSE kb_int_bit
      BY <2>1, <2>4 DEF ControlRegistersClock
    <2>6. kb_int_bit' \in BOOLEAN
      BY <2>2, <2>5, Zenon
    <2> QED
      BY <2>3, <2>6
  <1>4. /\ tmr_read' \in BOOLEAN /\ tmi_we' \in BOOLEAN
        /\ kbdr_read' \in BOOLEAN /\ display_valid' \in BOOLEAN
    <2>1. \A b \in BOOLEAN : \A c \in BOOLEAN : (b /\ c) \in BOOLEAN
      OBVIOUS
    <2>2. \A r : Reads(r, addr, we) \in BOOLEAN
                 /\ Writes(r, addr, we) \in BOOLEAN
      BY DEF Reads, Writes
    <2> QED
      BY <2>1, <2>2, Zenon DEF ControllerClock, PulsesClock
  <1>5. display_data' \in Byte
    <2>1. wdata % 256 \in Byte
      BY DEF Word, Byte
    <2> QED
      BY <2>1 DEF ControllerTypeOK, ControllerClock, PulsesClock
  <1>6. TimerTypeOK'
    BY TimerTypeStep DEF ControllerTypeOK, ControllerClock
  <1>7. KeyboardTypeOK'
    BY KeyboardTypeStep DEF ControllerTypeOK, ControllerClock
  <1> QED
    BY <1>1, <1>2, <1>3, <1>4, <1>5, <1>6, <1>7 DEF ControllerTypeOK

\* so does a reset,
LEMMA ControllerTypeReset ==
  ASSUME ControllerTypeOK, ControllerReset
  PROVE  ControllerTypeOK'
  <1>1. 0 \in Word /\ 65535 \in Word /\ 0 \in Byte
    BY Literals DEF Byte
  <1>2. TimerTypeOK'
    <2>1. 0 \in 0 .. CLOCKS_PER_MILLISECOND - 1
      BY ClocksType
    <2>2. clock_count' = 0 /\ remaining_ticks' = 0 /\ tmi_value' = 0
      BY DEF ControllerReset, TimerReset
    <2>3. /\ clock_count' \in 0 .. CLOCKS_PER_MILLISECOND - 1
          /\ remaining_ticks' \in Word
          /\ tmi_value' \in Word
      BY <1>1, <2>1, <2>2
    <2>4. timer_ready' = FALSE
      BY DEF ControllerReset, TimerReset
    <2>5. timer_ready' \in BOOLEAN
      BY <2>4
    <2> QED
      BY <2>3, <2>5 DEF TimerTypeOK
  <1>3. KeyboardTypeOK'
    <2>1. kb_ready_bit' = FALSE /\ kbdr_value' = 0
      BY DEF ControllerReset, KeyboardReset
    <2>2. kb_ready_bit' \in BOOLEAN
      BY <2>1
    <2>3. kbdr_value' \in Byte
      BY <1>1, <2>1
    <2> QED
      BY <2>2, <2>3 DEF KeyboardTypeOK
  <1>4. IsMemory(mem')
    BY DEF ControllerTypeOK, ControllerReset
  <1>5. /\ cpu_rdata' \in Word
        /\ mcr' \in Word
        /\ mpr' \in Word
        /\ display_data' \in Byte
    <2>1. /\ cpu_rdata' = 0 /\ display_data' = 0
          /\ mcr' = 65535 /\ mpr' = 0
      BY DEF ControllerReset
    <2> QED
      BY <1>1, <2>1
  <1>6. /\ kb_int_bit' \in BOOLEAN
        /\ tmr_read' \in BOOLEAN
        /\ tmi_we' \in BOOLEAN
        /\ kbdr_read' \in BOOLEAN
        /\ display_valid' \in BOOLEAN
    <2>1. /\ kb_int_bit' = FALSE
          /\ tmr_read' = FALSE
          /\ tmi_we' = FALSE
          /\ kbdr_read' = FALSE
          /\ display_valid' = FALSE
      BY DEF ControllerReset
    <2> QED
      BY <2>1
  <1> QED
    BY <1>2, <1>3, <1>4, <1>5, <1>6 DEF ControllerTypeOK

\* and it starts with them.
LEMMA ControllerTypeInit ==
  ASSUME ControllerInit, IsMemory(mem)
  PROVE  ControllerTypeOK
  <1>1. 0 \in Word /\ 65535 \in Word /\ 0 \in Byte
    BY Literals DEF Byte
  <1>2. TimerTypeOK
    <2>1. 0 \in 0 .. CLOCKS_PER_MILLISECOND - 1
      BY ClocksType
    <2>2. clock_count = 0 /\ remaining_ticks = 0 /\ tmi_value = 0
      BY DEF ControllerInit, TimerInit
    <2>3. /\ clock_count \in 0 .. CLOCKS_PER_MILLISECOND - 1
          /\ remaining_ticks \in Word
          /\ tmi_value \in Word
      BY <1>1, <2>1, <2>2
    <2>4. timer_ready = FALSE
      BY DEF ControllerInit, TimerInit
    <2>5. timer_ready \in BOOLEAN
      BY <2>4
    <2> QED
      BY <2>3, <2>5 DEF TimerTypeOK
  <1>3. KeyboardTypeOK
    <2>1. kb_ready_bit = FALSE /\ kbdr_value = 0
      BY DEF ControllerInit, KeyboardInit
    <2>2. kb_ready_bit \in BOOLEAN
      BY <2>1
    <2>3. kbdr_value \in Byte
      BY <1>1, <2>1
    <2> QED
      BY <2>2, <2>3 DEF KeyboardTypeOK
  <1>5. /\ cpu_rdata \in Word
        /\ mcr \in Word
        /\ mpr \in Word
        /\ display_data \in Byte
    <2>1. /\ cpu_rdata = 0 /\ display_data = 0
          /\ mcr = 65535 /\ mpr = 0
      BY DEF ControllerInit
    <2> QED
      BY <1>1, <2>1
  <1>6. /\ kb_int_bit \in BOOLEAN
        /\ tmr_read \in BOOLEAN
        /\ tmi_we \in BOOLEAN
        /\ kbdr_read \in BOOLEAN
        /\ display_valid \in BOOLEAN
    <2>1. /\ kb_int_bit = FALSE
          /\ tmr_read = FALSE
          /\ tmi_we = FALSE
          /\ kbdr_read = FALSE
          /\ display_valid = FALSE
      BY DEF ControllerInit
    <2> QED
      BY <2>1
  <1> QED
    BY <1>2, <1>3, <1>5, <1>6 DEF ControllerTypeOK
-----------------------------------------------------------------------------
\* The write a clock edge leaves on the bus when one was there before it is
\* the second push of an interrupt or the frozen one.
LEMMA BusAfterWrite ==
  ASSUME SystemTypeOK, CoreFlow, CoreClock(CoreWires), mem_we, mem_we'
  PROVE  \/ machine_halt /\ mem_addr' = mem_addr
         \/ ~machine_halt /\ mem_addr' = Plus(mem_addr, 65535)
  <1>1. CASE machine_halt
    BY <1>1 DEF CoreClock, CoreFrozen, coreVars, CoreWires
  <1>2. CASE ~machine_halt
    <2>1. CoreStep(CoreWires)
      BY <1>2 DEF CoreClock, CoreFrozen, CoreWires
    <2> QED
      BY <1>2, <2>1, WiresTyped, WritesApart DEF SystemTypeOK
  <1> QED
    BY <1>1, <1>2

\* The device registers change only when they are written.
LEMMA ControlRegistersKept ==
  ASSUME NEW keys,
         ControllerClock(mem_addr, mem_wdata, mem_we, display_ready, keys)
  PROVE  /\ mpr' # mpr => mem_we /\ mem_addr = MPR_ADDR
         /\ mcr' # mcr => mem_we /\ mem_addr = MCR_ADDR
  BY DEF ControllerClock, ControlRegistersClock, Writes

\* One word below MPR and MCR.
LEMMA Below == /\ Plus(MPR_ADDR, 65535) = BelowMpr
               /\ Plus(MCR_ADDR, 65535) = BelowMcr
               /\ BelowMpr # MPR_ADDR
               /\ BelowMcr # MCR_ADDR
               /\ BelowMcr # MPR_ADDR
  BY DEF Plus, MPR_ADDR, MCR_ADDR, BelowMpr, BelowMcr

\* The protection register changes under a write to it, and after that only
\* the word below it can be on the bus.
LEMMA WriteCheckedStep ==
  ASSUME SystemInv, NEW keys, SystemClock(keys)
  PROVE  WriteChecked'
  <1>1. SUFFICES ASSUME mem_we'
                 PROVE  \/ CanAccess(psr', mpr', mem_addr')
                        \/ mem_addr' = BelowMpr
    BY DEF WriteChecked, CanAccess, IsSupervisor, PageOpen, BelowMpr
  <1>2. CoreClock(CoreWires)
    BY DEF SystemClock
  <1>3. CASE mpr' # mpr
    <2>1. mem_we /\ mem_addr = MPR_ADDR
      BY <1>3, ControlRegistersKept DEF SystemClock
    <2>2. ~machine_halt
      BY <2>1, Below DEF SystemInv, FrozenWrite
    <2> QED
      BY <1>1, <1>2, <2>1, <2>2, BusAfterWrite, Below DEF SystemInv
  <1>4. CASE mpr' = mpr /\ machine_halt
    <2>1. mem_we' = mem_we /\ mem_addr' = mem_addr /\ psr' = psr
      BY <1>2, <1>4 DEF CoreClock, CoreFrozen, CoreWires, coreVars
    <2> QED
      BY <1>1, <1>4, <2>1 DEF SystemInv, WriteChecked
  <1>5. CASE mpr' = mpr /\ ~machine_halt
    <2>1. CoreStep(CoreWires) /\ CoreWires.mpr = mpr
      BY <1>2, <1>5 DEF CoreClock, CoreFrozen, CoreWires
    <2>2. psr' = psr /\ CanAccess(psr, CoreWires.mpr, mem_addr')
      BY <1>1, <2>1, WiresTyped, BusStep DEF SystemInv, SystemTypeOK
    <2> QED
      BY <1>5, <2>1, <2>2
  <1> QED
    BY <1>3, <1>4, <1>5

\* The same for the register that halts the machine.
LEMMA FrozenWriteStep ==
  ASSUME SystemInv, NEW keys, SystemClock(keys)
  PROVE  FrozenWrite'
  <1>1. SUFFICES ASSUME mem_we', machine_halt'
                 PROVE  mem_addr' = BelowMcr
    BY DEF FrozenWrite, machine_halt, BelowMcr
  <1>2. CoreClock(CoreWires)
    BY DEF SystemClock
  <1>3. CASE machine_halt
    <2>1. mem_we' = mem_we /\ mem_addr' = mem_addr
      BY <1>2, <1>3 DEF CoreClock, CoreFrozen, CoreWires, coreVars
    <2> QED
      BY <1>1, <1>3, <2>1 DEF SystemInv, FrozenWrite
  <1>4. CASE ~machine_halt
    <2>1. mcr' # mcr
      BY <1>1, <1>4 DEF machine_halt
    <2>2. mem_we /\ mem_addr = MCR_ADDR
      BY <2>1, ControlRegistersKept DEF SystemClock
    <2> QED
      BY <1>1, <1>2, <1>4, <2>2, BusAfterWrite, Below DEF SystemInv
  <1> QED
    BY <1>3, <1>4
-----------------------------------------------------------------------------
\* The invariant holds at first,
LEMMA SystemInvInit == ASSUME SystemInit
                       PROVE  SystemInv
  <1>1. CoreTypeOK /\ CoreFlow
    BY CoreTypeInit, CoreFlowInit DEF SystemInit
  <1>2. IsMemory(mem)
    BY SystemParameters DEF SystemInit
  <1>3. ControllerTypeOK
    BY <1>2, ControllerTypeInit DEF SystemInit
  <1>4. display_ready \in BOOLEAN
    <2>1. display_ready = TRUE
      BY DEF SystemInit
    <2> QED
      BY <2>1
  <1>5. ~mem_we
    BY DEF SystemInit, CoreInit
  <1> QED
    BY <1>1, <1>3, <1>4, <1>5
    DEF SystemInv, SystemTypeOK, WriteChecked, FrozenWrite

\* is kept by every clock edge,
LEMMA SystemInvClock ==
  ASSUME SystemInv, NEW keys \in KeyPort, SystemClock(keys)
  PROVE  SystemInv'
  <1>1. CoreTypeOK' /\ CoreFlow'
    BY WiresTyped, CoreTypeStep, CoreFlowStep
    DEF SystemInv, SystemTypeOK, SystemClock
  <1>2. ControllerTypeOK'
    <2>1. keys \in SUBSET Byte
      BY SystemParameters DEF KeyPort
    <2>2. /\ mem_addr \in Word /\ mem_wdata \in Word
          /\ mem_we \in BOOLEAN /\ display_ready \in BOOLEAN
      BY DEF SystemInv, SystemTypeOK, CoreTypeOK
    <2> QED
      BY <2>1, <2>2, ControllerTypeStep
      DEF SystemInv, SystemTypeOK, SystemClock
  <1>3. display_ready' \in BOOLEAN
    <2>1. display_ready' = FALSE \/ display_ready' \in {display_ready, TRUE}
      BY DEF SystemClock, Port!DisplayClock
    <2>2. display_ready \in BOOLEAN
      BY DEF SystemInv, SystemTypeOK
    <2> QED
      BY <2>1, <2>2
  <1> QED
    BY <1>1, <1>2, <1>3, WriteCheckedStep, FrozenWriteStep
    DEF SystemInv, SystemTypeOK

\* by the reset button,
LEMMA SystemInvReset ==
  ASSUME SystemInv, ResetButton
  PROVE  SystemInv'
  <1>1. CoreTypeOK' /\ CoreFlow'
    BY CoreTypeReset, CoreFlowReset DEF ResetButton
  <1>2. ControllerTypeOK'
    BY ControllerTypeReset DEF SystemInv, SystemTypeOK, ResetButton
  <1>3. display_ready' \in BOOLEAN
    <2>1. display_ready' = TRUE
      BY DEF ResetButton
    <2> QED
      BY <2>1
  <1>4. ~mem_we'
    BY DEF ResetButton, CoreReset
  <1> QED
    BY <1>1, <1>2, <1>3, <1>4
    DEF SystemInv, SystemTypeOK, WriteChecked, FrozenWrite

\* and while nothing changes.
LEMMA SystemInvStutter ==
  ASSUME SystemInv, UNCHANGED systemVars
  PROVE  SystemInv'
  <1>1. UNCHANGED coreVars /\ UNCHANGED controllerVars
        /\ display_ready' = display_ready
    BY DEF systemVars
  <1>2. CoreTypeOK'
    BY <1>1 DEF coreVars, SystemInv, SystemTypeOK, CoreTypeOK
  <1>3. CoreFlow'
    BY <1>1 DEF coreVars, SystemInv, CoreFlow, ReadReturns, RtiPrivileged,
       RtiHalfDone, VectorOnBus, PushOnBus, StrobeDrops, Bound, InRti
  <1>4. ControllerTypeOK'
    BY <1>1 DEF controllerVars, timerVars, keyboardVars, SystemInv,
       SystemTypeOK, ControllerTypeOK, TimerTypeOK, KeyboardTypeOK
  <1>5. WriteChecked' /\ FrozenWrite'
    BY <1>1 DEF coreVars, controllerVars, SystemInv, WriteChecked,
       FrozenWrite, machine_halt, CanAccess, IsSupervisor, PageOpen
  <1> QED
    BY <1>1, <1>2, <1>3, <1>4, <1>5 DEF SystemInv, SystemTypeOK

\* The inductive invariant of the computer.
THEOREM SystemInvariant == SystemSpec => []SystemInv
  <1>1. SystemInv /\ [SystemNext]_systemVars => SystemInv'
    BY SystemInvClock, SystemInvReset, SystemInvStutter DEF SystemNext
  <1> QED
    BY SystemInvInit, <1>1, PTL DEF SystemSpec

\* Every register of the computer and every word of its memory keeps its
\* width.
THEOREM SystemTypeCorrect == SystemSpec => []SystemTypeOK
  BY SystemInvariant, PTL DEF SystemInv
-----------------------------------------------------------------------------
\* The words below the two registers are neither RAM nor framebuffer.
LEMMA NotStorage ==
  /\ ~IsFramebuffer(BelowMpr) /\ ~IsRam(BelowMpr)
  /\ ~IsFramebuffer(BelowMcr) /\ ~IsRam(BelowMcr)
  BY ControllerParameters DEF IsFramebuffer, IsRam, BelowMpr, BelowMcr,
     FRAMEBUFFER_START, FRAMEBUFFER_END

\* Memory changes only at the address on the bus, by a write.
LEMMA StorageKept ==
  ASSUME SystemNext, mem' # mem
  PROVE  mem_we /\ (IsFramebuffer(mem_addr) \/ IsRam(mem_addr))
  BY DEF SystemNext, SystemClock, ControllerClock, StorageClock, ResetButton,
         ControllerReset

\* A program that has cleared bit 15 of MCR leaves the memory as it is from
\* that clock on, although a push may still stand on the frozen bus.
THEOREM FrozenMemoryKept == SystemSpec => FrozenMachineKeepsMemory
  <1>1. ASSUME SystemInv, SystemNext, machine_halt
        PROVE  mem' = mem
    <2>1. mem' # mem => mem_we /\ mem_addr # BelowMcr
      BY <1>1, StorageKept, NotStorage
    <2> QED
      BY <1>1, <2>1 DEF SystemInv, FrozenWrite
  <1>2. SystemInv /\ [SystemNext]_systemVars
          => [machine_halt => mem' = mem]_systemVars
    BY <1>1
  <1> QED
    BY <1>2, SystemInvariant, PTL DEF SystemSpec, FrozenMachineKeepsMemory

\* Nothing but the reset button starts a halted machine again.
THEOREM ResetRestarts == SystemSpec => OnlyResetRestarts
  <1>1. ASSUME SystemInv, SystemNext, machine_halt, ~machine_halt'
        PROVE  ResetButton
    <2>1. ASSUME NEW keys, SystemClock(keys)
          PROVE  FALSE
      <3>1. mcr' # mcr
        BY <1>1 DEF machine_halt
      <3>2. mem_we /\ mem_addr = MCR_ADDR
        BY <2>1, <3>1, ControlRegistersKept DEF SystemClock
      <3> QED
        BY <1>1, <3>2, Below DEF SystemInv, FrozenWrite
    <2> QED
      BY <1>1, <2>1 DEF SystemNext
  <1>2. SystemInv /\ [SystemNext]_systemVars
          => [machine_halt /\ ~machine_halt' => ResetButton]_systemVars
    BY <1>1
  <1> QED
    BY <1>2, SystemInvariant, PTL DEF SystemSpec, OnlyResetRestarts

\* No store reaches a word the running program may not write at that moment,
\* although it was checked a clock earlier.
THEOREM WritesAllowed == SystemSpec => NoForbiddenWrite
  <1>1. ASSUME SystemInv, SystemNext, mem' # mem
        PROVE  CanAccess(psr, mpr, mem_addr)
    BY <1>1, StorageKept, NotStorage DEF SystemInv, WriteChecked
  <1>2. SystemInv /\ [SystemNext]_systemVars
          => [mem' # mem => CanAccess(psr, mpr, mem_addr)]_systemVars
    BY <1>1
  <1> QED
    BY <1>2, SystemInvariant, PTL DEF SystemSpec, NoForbiddenWrite

\* The memory protection is changed only by a program it lets at the device
\* registers, or by reset.
THEOREM ProtectionGuarded == SystemSpec => ProtectionKept
  <1>1. ASSUME SystemInv, SystemNext, mpr' # mpr, ~ResetButton
        PROVE  CanAccess(psr, mpr, MPR_ADDR)
    <2>1. PICK keys : SystemClock(keys)
      BY <1>1 DEF SystemNext
    <2>2. mem_we /\ mem_addr = MPR_ADDR
      BY <1>1, <2>1, ControlRegistersKept DEF SystemClock
    <2> QED
      BY <1>1, <2>2, Below DEF SystemInv, WriteChecked
  <1>2. SystemInv /\ [SystemNext]_systemVars
          => [mpr' # mpr => CanAccess(psr, mpr, MPR_ADDR)
                            \/ ResetButton]_systemVars
    BY <1>1
  <1> QED
    BY <1>2, SystemInvariant, PTL DEF SystemSpec, ProtectionKept
-----------------------------------------------------------------------------
(***************************************************************************)
(* The timer: its two counters are the countdown of IntervalTimer.         *)
(***************************************************************************)

\* Multiples of the clocks per millisecond, which the SMT solver is not to
\* multiply out again at every use.
LEMMA Multiples ==
  ASSUME NEW c \in Nat, c > 0, NEW n \in Nat
  PROVE  /\ n * c \in Nat
         /\ n > 0 => n * c >= c
         /\ n * c + c = (n + 1) * c
         /\ 0 * c = 0
  OBVIOUS

\* A clock edge that may load a word keeps the tick counter in its range.
LEMMA TicksStep ==
  ASSUME TimerTypeOK, TicksInRange, NEW read \in BOOLEAN,
         NEW we \in BOOLEAN, NEW v \in Word, TimerClock(read, we, v)
  PROVE  TicksInRange'
  <1>1. /\ remaining_ticks \in Nat
        /\ tmi_value \in Nat
        /\ tmi_value # 0 => 1 <= remaining_ticks
        /\ tmi_value # 0 => remaining_ticks <= tmi_value
    BY DEF TimerTypeOK, TicksInRange, Word
  <1>2. v \in Nat
    BY DEF Word
  <1>3. /\ tmi_value' # 0 => remaining_ticks' \in Nat
        /\ tmi_value' # 0 => 1 <= remaining_ticks'
        /\ tmi_value' # 0 => remaining_ticks' <= tmi_value'
        /\ tmi_value' \in Nat
    <2>1. CASE LoadInterval(we, v)
      BY <1>2, <2>1 DEF LoadInterval, Reload
    <2>2. CASE Disabled(we)
      BY <1>1, <2>2 DEF Disabled
    <2>3. CASE CountClock(read, we)
      BY <1>1, <2>3 DEF CountClock
    <2>4. CASE CountTick(read, we)
      BY <1>1, <2>4 DEF CountTick, Reload
    <2>5. CASE Expire(we)
      BY <1>1, <2>5 DEF Expire, Reload
    <2> QED
      BY <2>1, <2>2, <2>3, <2>4, <2>5 DEF TimerClock
  <1> QED
    BY <1>3 DEF TicksInRange

\* Every clock edge of the timer is one of the promised countdown.
LEMMA PromiseStep ==
  ASSUME TimerTypeOK, TicksInRange, NEW read \in BOOLEAN,
         NEW we \in BOOLEAN, NEW v \in Word, TimerClock(read, we, v)
  PROVE  Promise!Edge(read, we, v)
  <1> DEFINE C == CLOCKS_PER_MILLISECOND
  <1>1. /\ clock_count \in Nat
        /\ remaining_ticks \in Nat
        /\ tmi_value \in Nat
        /\ tmi_value # 0 => 1 <= remaining_ticks
        /\ C \in Nat /\ C > 0
    BY ClocksType DEF TimerTypeOK, TicksInRange, Word
  <1>2. CASE LoadInterval(we, v)
    <2>1. /\ tmi_value' = v /\ remaining_ticks' = v /\ clock_count' = C - 1
          /\ timer_ready' = FALSE
      BY <1>2 DEF LoadInterval, Reload
    <2>2. ClocksLeft' = v * C
      <3>1. CASE v = 0
        BY <1>1, <2>1, <3>1 DEF ClocksLeft
      <3>2. CASE v # 0
        <4>1. PICK n \in Nat : v - 1 = n /\ v = n + 1
          BY <3>2 DEF Word
        <4>2. PICK p \in Nat : p = n * C /\ p + C = v * C
          BY <1>1, <4>1, Multiples
        <4>3. ClocksLeft' = p + (C - 1) + 1
          BY <2>1, <3>2, <4>1, <4>2 DEF ClocksLeft
        <4> QED
          BY <1>1, <4>2, <4>3
      <3> QED
        BY <3>1, <3>2
    <2> QED
      BY <1>2, <2>1, <2>2
      DEF LoadInterval, Promise!Edge, Promise!Load, Promise!Clocks
  <1>3. CASE Disabled(we)
    BY <1>3 DEF Disabled, ClocksLeft, Promise!Edge, Promise!Off
  <1>4. CASE CountClock(read, we)
    <2>1. /\ tmi_value # 0 /\ tmi_value' = tmi_value
          /\ remaining_ticks' = remaining_ticks
          /\ clock_count # 0 /\ clock_count' = clock_count - 1
          /\ timer_ready' = (timer_ready /\ ~read) /\ ~we
      BY <1>4 DEF CountClock
    <2>2. PICK p \in Nat : p = (remaining_ticks - 1) * C
      BY <1>1, <2>1, Multiples
    <2>3. ClocksLeft = p + clock_count + 1 /\ ClocksLeft' = p + clock_count
      BY <1>1, <2>1, <2>2 DEF ClocksLeft
    <2>4. ClocksLeft > 1 /\ ClocksLeft' = ClocksLeft - 1
      BY <1>1, <2>1, <2>2, <2>3
    <2> QED
      BY <2>1, <2>4 DEF Promise!Edge, Promise!Count
  <1>5. CASE CountTick(read, we)
    <2>1. /\ tmi_value # 0 /\ tmi_value' = tmi_value
          /\ remaining_ticks > 1 /\ remaining_ticks' = remaining_ticks - 1
          /\ clock_count = 0 /\ clock_count' = C - 1
          /\ timer_ready' = (timer_ready /\ ~read) /\ ~we
      BY <1>5 DEF CountTick, Reload
    <2>2. PICK n \in Nat : n = remaining_ticks - 2
      BY <1>1, <2>1
    <2>3. PICK p \in Nat : p = n * C /\ p + C = (n + 1) * C
      BY <1>1, <2>2, Multiples
    <2>4. remaining_ticks - 1 = n + 1 /\ remaining_ticks' - 1 = n
      BY <1>1, <2>1, <2>2
    <2>5. ClocksLeft = p + C + 1 /\ ClocksLeft' = p + C
      BY <1>1, <2>1, <2>3, <2>4 DEF ClocksLeft
    <2>6. ClocksLeft > 1 /\ ClocksLeft' = ClocksLeft - 1
      BY <1>1, <2>3, <2>5
    <2> QED
      BY <2>1, <2>6 DEF Promise!Edge, Promise!Count
  <1>6. CASE Expire(we)
    <2>1. /\ tmi_value # 0 /\ tmi_value' = tmi_value
          /\ remaining_ticks = 1 /\ remaining_ticks' = tmi_value
          /\ clock_count = 0 /\ clock_count' = C - 1
          /\ timer_ready' = TRUE /\ ~we
      BY <1>1, <1>6 DEF Expire, Reload
    <2>2. PICK p \in Nat : p = (tmi_value - 1) * C /\ p + C = tmi_value * C
      <3>1. PICK n \in Nat : n = tmi_value - 1 /\ tmi_value = n + 1
        BY <1>1, <2>1
      <3> QED
        BY <1>1, <3>1, Multiples
    <2>3. ClocksLeft = 1 /\ ClocksLeft' = tmi_value * C
      BY <1>1, <2>1, <2>2, Multiples DEF ClocksLeft
    <2> QED
      BY <2>1, <2>3 DEF Promise!Edge, Promise!Fire, Promise!Clocks
  <1> QED
    BY <1>2, <1>3, <1>4, <1>5, <1>6 DEF TimerClock

\* A clock edge of the computer is one of its timer.
LEMMA TimerOfClock ==
  ASSUME SystemTypeOK, NEW keys, SystemClock(keys)
  PROVE  /\ TimerTypeOK
         /\ tmr_read \in BOOLEAN
         /\ tmi_we \in BOOLEAN
         /\ mem_wdata \in Word
         /\ TimerClock(tmr_read, tmi_we, mem_wdata)
  BY DEF SystemTypeOK, CoreTypeOK, ControllerTypeOK, SystemClock,
         ControllerClock

\* The counters keep their ranges: the comparison with 1 that detects the
\* last millisecond cannot be stepped over.
THEOREM TicksStayInRange == SystemSpec => []TicksInRange
  <1>1. SystemInit => TicksInRange
    BY DEF SystemInit, ControllerInit, TimerInit, TicksInRange
  <1>2. ASSUME SystemTypeOK, TicksInRange, SystemNext
        PROVE  TicksInRange'
    <2>1. ASSUME NEW keys, SystemClock(keys)
          PROVE  TicksInRange'
      BY <1>2, <2>1, TimerOfClock, TicksStep
    <2>2. CASE ResetButton
      BY <2>2 DEF ResetButton, ControllerReset, TimerReset, TicksInRange
    <2> QED
      BY <1>2, <2>1, <2>2 DEF SystemNext
  <1>3. ASSUME TicksInRange, UNCHANGED systemVars
        PROVE  TicksInRange'
    BY <1>3 DEF systemVars, controllerVars, timerVars, TicksInRange
  <1>4. SystemTypeOK /\ TicksInRange /\ [SystemNext]_systemVars
          => TicksInRange'
    BY <1>2, <1>3
  <1> QED
    BY <1>1, <1>4, SystemTypeCorrect, PTL DEF SystemSpec

\* Whatever programs do with its registers, and whenever the reset button is
\* pressed, each clock edge of the computer is the edge of the promised
\* countdown: the ready bit is set at exactly the clocks it names.
THEOREM PeriodKept == SystemSpec => KeepsPeriod
  <1> DEFINE PromisedEdge == IF ResetButton THEN Promise!Reset
                             ELSE Promise!Edge(tmr_read, tmi_we, mem_wdata)
  <1>1. SystemInit => Promise!Init
    BY DEF SystemInit, ControllerInit, TimerInit, Promise!Init, ClocksLeft
  <1>2. ASSUME SystemTypeOK, TicksInRange, SystemNext
        PROVE  PromisedEdge
    <2>1. CASE ResetButton
      <3>1. tmi_value' = 0 /\ timer_ready' = FALSE
        BY <2>1 DEF ResetButton, ControllerReset, TimerReset
      <3> QED
        BY <2>1, <3>1 DEF Promise!Reset, Promise!Init, ClocksLeft
    <2>2. CASE ~ResetButton
      <3>1. PICK keys : SystemClock(keys)
        BY <1>2, <2>2 DEF SystemNext
      <3>2. Promise!Edge(tmr_read, tmi_we, mem_wdata)
        BY <1>2, <3>1, TimerOfClock, PromiseStep
      <3> QED
        BY <2>2, <3>2
    <2> QED
      BY <2>1, <2>2
  <1>3. SystemTypeOK /\ TicksInRange /\ [SystemNext]_systemVars
          => [PromisedEdge]_systemVars
    BY <1>2
  <1> QED
    BY <1>1, <1>3, SystemTypeCorrect, TicksStayInRange, PTL
    DEF SystemSpec, KeepsPeriod
-----------------------------------------------------------------------------
(***************************************************************************)
(* The computer with its programs, its keyboard and its history: the       *)
(* contracts of LC3SystemRun are all that its properties need of the       *)
(* programs.                                                               *)
(***************************************************************************)

\* The history watches the computer and does not touch it.
THEOREM RunIsSystem == RunSpec => SystemSpec
  <1>1. RunInit => SystemInit
    BY DEF RunInit
  <1>2. [RunNext]_runVars => [SystemNext]_systemVars
    BY DEF RunNext, ClockEdge, Tick, PressReset, SystemNext, runVars
  <1> QED
    BY <1>1, <1>2, PTL DEF RunSpec, SystemSpec

\* What holds for the computer holds in its runs.
LEMMA SystemOfRun == RunSpec => []SystemInv
  BY RunIsSystem, SystemInvariant, PTL

\* A clock edge of the computer leaves the core alone or is one of its steps.
LEMMA CoreOfClock ==
  ASSUME SystemInv, NEW keys, SystemClock(keys)
  PROVE  /\ CoreTypeOK /\ CoreFlow /\ CoreWires \in CoreInput
         /\ \/ machine_halt /\ UNCHANGED coreVars
            \/ ~machine_halt /\ CoreStep(CoreWires)
         /\ CoreWires.mem_rdata = cpu_rdata
         /\ CoreWires.irq_pending = irq_pending
         /\ CoreWires.irq_priority = irq_priority
  BY WiresTyped
  DEF SystemInv, SystemTypeOK, SystemClock, CoreClock, CoreFrozen, CoreWires

\* A step towards the next instruction, or a clock of the halted machine.
NearerOrHalted == \/ EdgesLeft' < EdgesLeft
                  \/ machine_halt /\ UNCHANGED coreVars

\* In the computer the core may be frozen in the midst of an instruction, by
\* the store that clears the run bit of MCR, and by nothing else: every other
\* clock edge, and the reset button, bring the next instruction nearer.
THEOREM OnlyHaltDelays ==
  SystemSpec => [][state \notin {"FETCH", "HALT"} => NearerOrHalted]_systemVars
  <1>1. ASSUME SystemInv, SystemNext, state \notin {"FETCH", "HALT"}
        PROVE  \/ EdgesLeft' < EdgesLeft
               \/ machine_halt /\ UNCHANGED coreVars
    <2>1. ASSUME NEW keys \in KeyPort, SystemClock(keys)
          PROVE  \/ EdgesLeft' < EdgesLeft
                 \/ machine_halt /\ UNCHANGED coreVars
      BY <1>1, <2>1, CoreOfClock, StepCountsDown
    <2>2. CASE ResetButton
      <3>1. EdgesLeft' = 0
        BY <2>2 DEF ResetButton, CoreReset, EdgesLeft, Remaining
      <3>2. EdgesLeft \in 0 .. 9 /\ EdgesLeft # 0
        BY <1>1, EdgesBounded DEF SystemInv, SystemTypeOK
      <3> QED
        BY <3>1, <3>2
    <2> QED
      BY <1>1, <2>1, <2>2 DEF SystemNext
  <1>2. SystemInv /\ [SystemNext]_systemVars
          => [state \notin {"FETCH", "HALT"} => NearerOrHalted]_systemVars
    BY <1>1 DEF NearerOrHalted
  <1> QED
    BY <1>2, SystemInvariant, PTL DEF SystemSpec

\* The core does not follow the timer: it waits for no answer to a store.  The
\* word is there all the same when the timer takes it, a clock later.
THEOREM IntervalsAsWritten ==
  RunSpec /\ []TimerOffStack => []IntervalAsWritten
  <1>1. RunInit => IntervalAsWritten
    BY DEF RunInit, SystemInit, ControllerInit, IntervalAsWritten
  <1>2. ASSUME SystemInv, TimerOffStack, IntervalAsWritten,
               [RunNext]_runVars
        PROVE  IntervalAsWritten'
    <2>1. ASSUME NEW keys \in KeyPort, Tick(keys)
          PROVE  IntervalAsWritten'
      <3>1. /\ SystemClock(keys)
            /\ tmi_we' = Writes(TMI_ADDR, mem_addr, mem_we)
            /\ tmi_we' => interval' = mem_wdata
        BY <2>1 DEF Tick, SystemClock, ControllerClock, PulsesClock, Record
      <3>2. tmi_we' => mem_we /\ state # "INT_PUSH_PC"
        BY <1>2, <3>1 DEF Writes, TimerOffStack
      <3>3. tmi_we' => mem_wdata' = mem_wdata
        BY <1>2, <3>1, <3>2, CoreOfClock, DataStays DEF coreVars
      <3> QED
        BY <3>1, <3>3 DEF IntervalAsWritten
    <2>2. CASE PressReset
      BY <2>2 DEF PressReset, ResetButton, ControllerReset,
                  IntervalAsWritten
    <2>3. CASE UNCHANGED runVars
      BY <1>2, <2>3 DEF runVars, systemVars, coreVars, controllerVars,
                        historyVars, IntervalAsWritten
    <2> QED
      BY <1>2, <2>1, <2>2, <2>3 DEF RunNext, ClockEdge
  <1> QED
    BY <1>1, <1>2, SystemOfRun, PTL DEF RunSpec

-----------------------------------------------------------------------------
(***************************************************************************)
(* The display.                                                            *)
(***************************************************************************)

\* What the program has been told of the display is still so.
DisplayTold ==
    dsr_told \/ FindsReady(DSR_ADDR)
      => display_ready /\ ~display_valid

\* No character is on its way to the display while a word is loaded, or while
\* the display is busy.
DisplayIdle == /\ Bound("REG_WRITEBACK") => ~display_valid
               /\ display_valid => display_ready

\* What is sent is shown or on its way.
DisplayInv == /\ DisplayTold
              /\ DisplayIdle
              /\ sent \in Seq(Byte)
              /\ shown \in Seq(Byte)
              /\ CharactersDisplayed

\* The same with the clock edges at which the machine stands still.
LEMMA LoadClocks ==
  ASSUME SystemInv, NEW keys, SystemClock(keys)
  PROVE  /\ state' = "REG_WRITEBACK"
              => /\ Bound("REG_WRITEBACK")
                 /\ UNCHANGED bus
         /\ Bound("REG_WRITEBACK")' => ~mem_we
  <1>1. CASE machine_halt /\ UNCHANGED coreVars
    BY <1>1 DEF coreVars, bus, Bound, SystemInv, CoreFlow, StrobeDrops
  <1>2. CASE CoreStep(CoreWires)
    BY <1>2, CoreOfClock, LoadSteps DEF Bound
  <1> QED
    BY <1>1, <1>2, CoreOfClock

\* The word of DSR.
DsrWord(ready) == IF ready THEN 32768 ELSE 0

\* What a read of the registers a program polls finds.
LEMMA DeviceReads ==
  ASSUME NEW ready \in BOOLEAN
  PROVE  /\ ReadData(KBSR_ADDR, FALSE, ready) = kbsr_value
         /\ ReadData(KBDR_ADDR, FALSE, ready) = kbdr_value
         /\ ReadData(DSR_ADDR, FALSE, ready) = DsrWord(ready)
  <1>1. \A r \in {KBSR_ADDR, KBDR_ADDR, DSR_ADDR} :
          /\ ~IsFramebuffer(r) /\ ~IsRam(r)
          /\ r \in DeviceRegisters
    BY ControllerParameters DEF IsFramebuffer, IsRam, DeviceRegisters,
       FRAMEBUFFER_START, FRAMEBUFFER_END, DSR_ADDR, KBSR_ADDR, KBDR_ADDR
  <1>2. \A r \in {KBSR_ADDR, KBDR_ADDR, DSR_ADDR}, s \in DeviceRegisters :
          Reads(s, r, FALSE) = (r = s)
    BY DEF Reads
  <1> QED
    BY <1>1, <1>2
    DEF ReadData, Reads, DsrWord, DeviceRegisters, KBSR_ADDR, KBDR_ADDR,
        DSR_ADDR, DDR_ADDR, TMR_ADDR, TMI_ADDR, MPR_ADDR,
        MCR_ADDR

\* A load from DSR sees the flag of the clock before.
LEMMA DsrAnswer ==
  ASSUME SystemTypeOK, mem_addr = DSR_ADDR, ~mem_we, NEW keys,
         SystemClock(keys)
  PROVE  cpu_rdata' = DsrWord(display_ready)
  <1>1. cpu_rdata' = ReadData(DSR_ADDR, FALSE, display_ready)
    BY DEF SystemClock, ControllerClock, SystemTypeOK, CoreTypeOK
  <1>2. display_ready \in BOOLEAN
    BY DEF SystemTypeOK
  <1> QED
    BY <1>1, <1>2, DeviceReads

\* A clock edge keeps what the program has been told of the display true, and
\* moves one character from what is sent to what is shown.
LEMMA DisplayInvClock ==
  ASSUME SystemInv, DisplayInv, DisplayAsked, NEW keys \in KeyPort,
         Tick(keys)
  PROVE  DisplayInv'
  <1> DEFINE stores == Writes(DDR_ADDR, mem_addr, mem_we)
             s      == mem_wdata % 256
  <1>1. SystemClock(keys) /\ Port!DisplayClock
    BY DEF Tick, SystemClock
  <1>2. display_valid' <=> stores /\ display_ready
    BY <1>1 DEF SystemClock, ControllerClock, PulsesClock
  <1>3. display_valid' => display_data' = s
    BY <1>1 DEF SystemClock, ControllerClock, PulsesClock
  <1>4. /\ sent' = AppendIf(stores, sent, s)
        /\ shown' = AppendIf(display_valid /\ display_ready, shown,
                             display_data)
    BY DEF Tick, Record
  <1>5. dsr_told' <=> \/ FindsReady(DSR_ADDR)
                      \/ dsr_told /\ ~stores
    BY DEF Tick, Record
  <1>6. stores => display_ready /\ ~display_valid
    BY Zenon DEF DisplayAsked, DisplayInv, DisplayTold
  <1>7. display_ready /\ ~display_valid => display_ready'
    BY <1>1 DEF Port!DisplayClock
  <1>8. DisplayIdle'
    <2>1. Bound("REG_WRITEBACK")' => ~stores
      BY <1>1, LoadClocks DEF Writes
    <2>2. ~stores => ~display_valid'
      BY <1>2
    <2>3. display_valid' => display_ready'
      BY <1>2, <1>6, <1>7
    <2> QED
      BY <2>1, <2>2, <2>3, Zenon DEF DisplayIdle
  <1>9. DisplayTold'
    <2>1. ASSUME FindsReady(DSR_ADDR)'
          PROVE  display_ready' /\ ~display_valid'
      <3>1. /\ mem_addr = DSR_ADDR /\ ~mem_we
            /\ Bound("REG_WRITEBACK")
        BY <1>1, <2>1, LoadClocks DEF bus, FindsReady, Loads, Bound
      <3>2. ~display_valid /\ ~stores
        BY <3>1 DEF DisplayInv, DisplayIdle, Writes
      <3>3. display_ready
        BY <1>1, <2>1, <3>1, DsrAnswer DEF SystemInv, FindsReady, DsrWord
      <3> QED
        BY <1>2, <1>7, <3>2, <3>3
    <2>2. ASSUME dsr_told'
          PROVE  display_ready' /\ ~display_valid'
      <3>1. ~stores
        BY <1>5, <2>2 DEF FindsReady, Loads, Writes, SystemInv, CoreFlow,
                          StrobeDrops
      <3>2. dsr_told \/ FindsReady(DSR_ADDR)
        BY <1>5, <2>2, Zenon
      <3>3. display_ready /\ ~display_valid
        BY <3>2, Zenon DEF DisplayInv, DisplayTold
      <3> QED
        BY <1>2, <1>7, <3>1, <3>3
    <2> QED
      BY <2>1, <2>2, Zenon DEF DisplayTold
  <1>10. /\ s \in Byte /\ display_data \in Byte
         /\ sent \in Seq(Byte) /\ shown \in Seq(Byte)
    <2>1. mem_wdata \in Word /\ display_data \in Byte
      BY DEF SystemInv, SystemTypeOK, CoreTypeOK, ControllerTypeOK
    <2> QED
      BY <2>1 DEF Word, Byte, DisplayInv
  <1>11. sent' \in Seq(Byte) /\ shown' \in Seq(Byte)
    BY <1>4, <1>10 DEF AppendIf
  <1>12. CharactersDisplayed'
    <2>1. sent = shown'
      BY <1>4, <1>10
      DEF DisplayInv, DisplayIdle, CharactersDisplayed, AppendIf
    <2>2. CASE stores
      <3>1. display_valid' /\ display_data' = s
        BY <1>2, <1>3, <1>6, <2>2
      <3>2. sent' = Append(shown', display_data')
        BY <1>4, <2>1, <2>2, <3>1 DEF AppendIf
      <3> QED
        BY <1>10, <1>11, <3>1, <3>2 DEF CharactersDisplayed
    <2>3. CASE ~stores
      <3>1. ~display_valid'
        BY <1>2, <2>3
      <3>2. sent' = shown'
        BY <1>4, <2>1, <2>3 DEF AppendIf
      <3> QED
        BY <1>11, <3>1, <3>2 DEF CharactersDisplayed
    <2> QED
      BY <2>2, <2>3
  <1> QED
    BY <1>8, <1>9, <1>11, <1>12 DEF DisplayInv

\* It holds when reset has been asserted.
LEMMA DisplayInvFresh ==
  /\ RunInit => DisplayInv
  /\ PressReset => DisplayInv'
  <1>1. << >> \in Seq(Byte) /\ << >> = << >> \o << >>
    OBVIOUS
  <1>2. ASSUME RunInit PROVE DisplayInv
    BY <1>1, <1>2
    DEF RunInit, SystemInit, CoreInit, ControllerInit, Fresh, DisplayInv,
        DisplayTold, DisplayIdle, CharactersDisplayed, FindsReady,
        Loads, Bound
  <1>3. ASSUME PressReset PROVE DisplayInv'
    BY <1>1, <1>3
    DEF PressReset, ResetButton, CoreReset, ControllerReset, DisplayInv,
        DisplayTold, DisplayIdle, CharactersDisplayed, FindsReady,
        Loads, Bound
  <1> QED
    BY <1>2, <1>3

\* A program that stores to DDR only after DSR has told it that the display
\* is ready loses no character, sends none twice and sees them in order.
THEOREM CharactersAreDisplayed ==
  RunSpec /\ []DisplayAsked => []CharactersDisplayed
  <1>1. ASSUME SystemInv, DisplayAsked, DisplayInv, [RunNext]_runVars
        PROVE  DisplayInv'
    <2>1. CASE UNCHANGED runVars
      BY <1>1, <2>1
      DEF runVars, systemVars, coreVars, controllerVars, historyVars,
          DisplayInv, DisplayTold, DisplayIdle, CharactersDisplayed,
          FindsReady, Loads, Bound
    <2> QED
      BY <1>1, <2>1, DisplayInvClock, DisplayInvFresh
      DEF RunNext, ClockEdge
  <1>2. DisplayInv => CharactersDisplayed
    BY DEF DisplayInv
  <1> QED
    BY <1>1, <1>2, DisplayInvFresh, SystemOfRun, PTL DEF RunSpec

-----------------------------------------------------------------------------
(***************************************************************************)
(* The keyboard.                                                           *)
(***************************************************************************)

\* The address of KBDR stands on the bus.
KbdrOnBus == mem_addr = KBDR_ADDR

\* A halted machine has been stopped by a write, so its bus shows MCR, the
\* word below it, or the interrupt vector.
HaltedAway ==
    machine_halt => /\ ~KbdrOnBus
                    /\ \/ state \in {"FETCH", "INT_WRITE_COMPLETE", "HALT"}
                       \/ Bound("INT_SET_PC")

\* Where the core is in a clock in which the keyboard sees a read of KBDR.
ReadSeen ==
    kbdr_read => \/ KbdrOnBus /\ state \in {"REG_WRITEBACK", "FETCH"}
                 \/ state = "MEM_WAIT" /\ return_state = "LATCH_IR"
                 \/ state = "HALT"

\* A load from KBDR takes the character that is waiting, and the keyboard
\* sees the read in the same clock.
KeyDelivered == Loads(KBDR_ADDR) => kbdr_read /\ cpu_rdata = kbdr_value

\* What the core has been told of is still waiting.
ToldWaits == /\ key_told => kb_ready_bit
             /\ FindsReady(KBSR_ADDR) => kb_ready_bit

\* While the address stands on the bus after the load, nothing waits, and
\* nothing is promised when the late pulses clear the ready bit again.
KeyGone ==
    /\ KbdrOnBus /\ state = "FETCH" => ~kb_ready_bit
    /\ KbdrOnBus => state # "INT_PUSH_PSR"
    /\ KbdrOnBus /\ state = "HALT" => ~key_told
    /\ kbdr_read /\ state \in {"MEM_WAIT", "HALT"} => ~key_told

\* The handler is entered for a character the core has been told of.
EntryTold == Handling => key_told

KeyInv == /\ HaltedAway
          /\ ReadSeen
          /\ KeyDelivered
          /\ ToldWaits
          /\ KeyGone
          /\ EntryTold

-----------------------------------------------------------------------------
\* The machine is halted by a write, which leaves no load under way.
LEMMA HaltedAwayStep ==
  ASSUME SystemInv, HaltedAway, NEW keys, SystemClock(keys)
  PROVE  HaltedAway'
  <1>1. SUFFICES ASSUME machine_halt'
                 PROVE  /\ ~KbdrOnBus'
                        /\ \/ state' \in {"FETCH", "INT_WRITE_COMPLETE",
                                          "HALT"}
                           \/ Bound("INT_SET_PC")'
    BY DEF HaltedAway
  <1>2. CASE machine_halt
    BY <1>2, CoreOfClock DEF HaltedAway, KbdrOnBus, Bound, coreVars
  <1>3. CASE ~machine_halt
    <2>1. mcr' # mcr
      BY <1>1, <1>3 DEF machine_halt
    <2>2. mem_we /\ mem_addr = MCR_ADDR
      BY <2>1, ControlRegistersKept DEF SystemClock
    <2>3. MCR_ADDR # KBDR_ADDR /\ BelowMcr # KBDR_ADDR
          /\ ~(KBDR_ADDR < 512)
      BY DEF MCR_ADDR, KBDR_ADDR, BelowMcr
    <2> QED
      BY <1>3, <2>2, <2>3, CoreOfClock, AfterWrite, Below DEF KbdrOnBus
  <1> QED
    BY <1>2, <1>3

\* The clock edges with the address of KBDR on the bus: the last ones of the
\* load, and the next fetch, which no interrupt replaces.
LEMMA KbdrClocks ==
  ASSUME SystemInv, KeyInv, KeysAsked, NEW keys, SystemClock(keys),
         KbdrOnBus
  PROVE  /\ CoreStep(CoreWires) /\ ~mem_we
         /\ \/ /\ state = "MEM_WAIT" /\ return_state = "REG_WRITEBACK"
               /\ state' = "REG_WRITEBACK" /\ KbdrOnBus' /\ key_told
            \/ /\ state = "REG_WRITEBACK" /\ key_told
               /\ state' = "FETCH" /\ KbdrOnBus'
            \/ /\ state = "FETCH"
               /\ state' = "MEM_WAIT" /\ return_state' = "LATCH_IR"
            \/ state \in {"FETCH", "HALT"} /\ state' = "HALT"
  <1>1. /\ ~mem_we
        /\ \/ state = "REG_WRITEBACK" /\ key_told
           \/ state = "MEM_WAIT" /\ return_state = "REG_WRITEBACK"
              /\ key_told
           \/ state \in {"FETCH", "HALT"}
    BY DEF KeysAsked, KbdrOnBus, KeyInv, KeyGone
  <1>2. CoreStep(CoreWires)
    BY CoreOfClock DEF KeyInv, HaltedAway
  <1>3. state = "FETCH" => ~Accepts(CoreWires)
    BY CoreOfClock DEF Accepts, irq_pending, KeyInv, KeyGone
  <1>4. CASE FetchInstruction(CoreWires)
    BY <1>1, <1>2, <1>4 DEF FetchInstruction, IssueRead, AccessFault
  <1>5. CASE MemWait(CoreWires)
    BY <1>1, <1>2, <1>5 DEF MemWait, KbdrOnBus, bus
  <1>6. CASE RegWriteback(CoreWires)
    BY <1>1, <1>2, <1>6 DEF RegWriteback, KbdrOnBus, bus
  <1>7. CASE Halted(CoreWires)
    BY <1>1, <1>2, <1>7 DEF Halted, coreVars
  <1>8. \/ FetchInstruction(CoreWires) \/ MemWait(CoreWires)
        \/ RegWriteback(CoreWires) \/ Halted(CoreWires)
    BY <1>1, <1>2, <1>3 DEF CoreStep, AcceptInterrupt, LatchIR, Decode,
       ExecBR, ExecALU, ExecLEA, ExecJMP, ExecJSR, FetchIndirectPtr,
       FetchMem, ExecStore, WriteStore, ExecTrap, PcWrite, PsrWrite,
       IntPushPSR, IntPushPC, IntWriteComplete, IntSetPC
  <1> QED
    BY <1>1, <1>2, <1>4, <1>5, <1>6, <1>7, <1>8

\* The address comes to the bus with a load.
LEMMA KbdrComes ==
  ASSUME SystemInv, KeysAsked', NEW keys, SystemClock(keys),
         ~KbdrOnBus, KbdrOnBus'
  PROVE  state' = "MEM_WAIT" /\ return_state' = "REG_WRITEBACK"
  <1>1. mem_addr' # mem_addr
    BY DEF KbdrOnBus
  <1>2. CoreStep(CoreWires)
    BY <1>1, CoreOfClock DEF coreVars
  <1>3. state' = "MEM_WAIT" \/ mem_we'
    BY <1>1, <1>2, AddressMoves
  <1> QED
    BY <1>3 DEF KeysAsked, KbdrOnBus

\* What the clock edge does to the keyboard.
LEMMA KeyboardOfClock ==
  ASSUME NEW keys, SystemClock(keys)
  PROVE  /\ kbdr_read' <=> KbdrOnBus /\ ~mem_we
         /\ Latches(keys) => kb_ready_bit' /\ kbdr_value' \in keys
         /\ ~Latches(keys) => /\ kb_ready_bit' <=> kb_ready_bit /\ ~kbdr_read
                              /\ kbdr_value' = kbdr_value
         /\ Latches(keys) => ~kb_ready_bit
  BY DEF SystemClock, ControllerClock, PulsesClock, Reads, KbdrOnBus,
     KeyboardClock, Latches

\* Where a read has been seen nothing is promised, but in the load itself.
LEMMA ReadTakesPromised ==
  ASSUME KeyInv, kbdr_read, key_told \/ FindsReady(KBSR_ADDR)
  PROVE  state = "REG_WRITEBACK" /\ KbdrOnBus
  <1>1. kb_ready_bit
    BY Zenon DEF KeyInv, ToldWaits
  <1>2. CASE FindsReady(KBSR_ADDR)
    <2>1. state = "REG_WRITEBACK" /\ ~KbdrOnBus
      BY <1>2 DEF FindsReady, Loads, KbdrOnBus, KBSR_ADDR, KBDR_ADDR
    <2> QED
      BY <2>1 DEF KeyInv, ReadSeen
  <1>3. CASE key_told
    BY <1>1, <1>3 DEF KeyInv, ReadSeen, KeyGone
  <1> QED
    BY <1>2, <1>3

\* What has been promised waits until it has been loaded.
LEMMA PromiseKept ==
  ASSUME SystemInv, KeyInv, NEW keys, SystemClock(keys),
         key_told \/ FindsReady(KBSR_ADDR)
  PROVE  /\ kb_ready_bit /\ ~Latches(keys)
         /\ ~Loads(KBDR_ADDR) => kb_ready_bit'
         /\ kbdr_value' = kbdr_value
  <1>1. kb_ready_bit
    BY Zenon DEF KeyInv, ToldWaits
  <1>2. ~Loads(KBDR_ADDR) => ~kbdr_read
    BY ReadTakesPromised DEF Loads, KbdrOnBus
  <1> QED
    BY <1>1, <1>2, KeyboardOfClock

\* Only an interrupt that is accepted brings the core to its first push.
LEMMA EntryBegins ==
  ASSUME SystemInv, KeyInv, NEW keys, SystemClock(keys)
  PROVE  state' = "INT_PUSH_PSR" <=> AcceptInterrupt(CoreWires)
  <1>1. AcceptInterrupt(CoreWires) => state' = "INT_PUSH_PSR"
    BY DEF AcceptInterrupt
  <1>2. CASE machine_halt
    <2>1. state' # "INT_PUSH_PSR"
      BY <1>2, CoreOfClock DEF KeyInv, HaltedAway, Bound, coreVars
    <2> QED
      BY <1>1, <2>1
  <1>3. CASE ~machine_halt
    BY <1>1, <1>3, CoreOfClock, EntrySteps
  <1> QED
    BY <1>2, <1>3

\* What the program knows after the clock edge.
LEMMA ToldClock ==
  ASSUME SystemInv, KeyInv, NEW keys, Tick(keys)
  PROVE  key_told' <=> \/ AcceptInterrupt(CoreWires)
                       \/ FindsReady(KBSR_ADDR)
                       \/ key_told /\ ~Loads(KBDR_ADDR)
  <1>1. key_told' <=> \/ state' = "INT_PUSH_PSR"
                      \/ FindsReady(KBSR_ADDR)
                      \/ key_told /\ ~Loads(KBDR_ADDR)
    BY DEF Tick, Record
  <1>2. state' = "INT_PUSH_PSR" <=> AcceptInterrupt(CoreWires)
    BY EntryBegins DEF Tick
  <1> QED
    BY <1>1, <1>2, Zenon

\* The invariant step by step.
LEMMA ReadSeenStep ==
  ASSUME SystemInv, KeyInv, KeysAsked, NEW keys, SystemClock(keys)
  PROVE  ReadSeen' /\ KeyDelivered'
  <1>1. ReadSeen'
    <2>1. SUFFICES ASSUME kbdr_read'
                   PROVE  \/ KbdrOnBus'
                             /\ state' \in {"REG_WRITEBACK", "FETCH"}
                          \/ state' = "MEM_WAIT"
                             /\ return_state' = "LATCH_IR"
                          \/ state' = "HALT"
      BY DEF ReadSeen
    <2>2. KbdrOnBus
      BY <2>1, KeyboardOfClock
    <2> QED
      BY <2>2, KbdrClocks
  <1>2. KeyDelivered'
    <2>1. SUFFICES ASSUME state' = "REG_WRITEBACK", KbdrOnBus'
                   PROVE  kbdr_read' /\ cpu_rdata' = kbdr_value'
      BY DEF KeyDelivered, Loads, KbdrOnBus
    <2>2. KbdrOnBus /\ ~mem_we
      BY <2>1, LoadClocks DEF bus, KbdrOnBus, Bound
    <2>3. key_told
      BY <2>1, <2>2, KbdrClocks
    <2>4. cpu_rdata' = kbdr_value
      <3>1. cpu_rdata' = ReadData(KBDR_ADDR, FALSE, display_ready)
        BY <2>2 DEF SystemClock, ControllerClock, SystemInv, SystemTypeOK,
                    CoreTypeOK, KbdrOnBus
      <3>2. display_ready \in BOOLEAN
        BY DEF SystemInv, SystemTypeOK
      <3> QED
        BY <3>1, <3>2, DeviceReads
    <2> QED
      BY <2>2, <2>3, <2>4, PromiseKept, KeyboardOfClock
  <1> QED
    BY <1>1, <1>2

\* A promise is made while the character waits, and kept.
LEMMA ToldWaitsStep ==
  ASSUME SystemInv, KeyInv, KeysAsked, NEW keys, Tick(keys)
  PROVE  ToldWaits'
  <1>1. SystemClock(keys)
    BY DEF Tick
  <1>2. key_told' => kb_ready_bit'
    <2>1. CASE AcceptInterrupt(CoreWires)
      <3>1. state = "FETCH" /\ kb_ready_bit
        BY <1>1, <2>1, CoreOfClock
        DEF AcceptInterrupt, Accepts, irq_pending
      <3>2. ~kbdr_read
        BY <3>1 DEF KeyInv, ReadSeen, KeyGone
      <3> QED
        BY <1>1, <3>1, <3>2, KeyboardOfClock
    <2>2. CASE FindsReady(KBSR_ADDR)
      <3>1. ~Loads(KBDR_ADDR)
        BY <2>2 DEF FindsReady, Loads, KBSR_ADDR, KBDR_ADDR
      <3> QED
        BY <1>1, <2>2, <3>1, PromiseKept
    <2>3. CASE key_told /\ ~Loads(KBDR_ADDR)
      BY <1>1, <2>3, PromiseKept
    <2> QED
      BY <2>1, <2>2, <2>3, ToldClock
  <1>3. FindsReady(KBSR_ADDR)' => kb_ready_bit'
    <2>1. SUFFICES ASSUME FindsReady(KBSR_ADDR)'
                   PROVE  kb_ready_bit'
      OBVIOUS
    <2>2. /\ mem_addr = KBSR_ADDR /\ ~mem_we
          /\ Bound("REG_WRITEBACK")
      BY <1>1, <2>1, LoadClocks DEF bus, FindsReady, Loads, Bound
    <2>3. state = "MEM_WAIT" /\ return_state = "REG_WRITEBACK"
      <3>1. state' = "REG_WRITEBACK"
        BY <2>1 DEF FindsReady, Loads
      <3>2. CoreStep(CoreWires)
        BY <1>1, <3>1, CoreOfClock
        DEF KeyInv, HaltedAway, Bound, coreVars
      <3> QED
        BY <1>1, <3>1, <3>2, CoreOfClock, LoadSteps
    <2>4. ~kbdr_read
      BY <2>3 DEF KeyInv, ReadSeen
    <2>5. kb_ready_bit
      <3>1. cpu_rdata' = ReadData(KBSR_ADDR, FALSE, display_ready)
        BY <1>1, <2>2 DEF SystemClock, ControllerClock, SystemInv,
                          SystemTypeOK, CoreTypeOK
      <3>2. display_ready \in BOOLEAN
        BY DEF SystemInv, SystemTypeOK
      <3>3. cpu_rdata' = kbsr_value
        BY <3>1, <3>2, DeviceReads
      <3>4. cpu_rdata' >= 32768
        BY <2>1 DEF FindsReady
      <3> QED
        BY <3>3, <3>4 DEF kbsr_value
    <2> QED
      BY <1>1, <2>4, <2>5, KeyboardOfClock
  <1> QED
    BY <1>2, <1>3, Zenon DEF ToldWaits

\* The load takes the ready bit and the promise away before the next fetch.
LEMMA KeyGoneStep ==
  ASSUME SystemInv, KeyInv, KeysAsked, KeysAsked', NEW keys, Tick(keys)
  PROVE  KeyGone'
  <1>1. SystemClock(keys)
    BY DEF Tick
  <1>2. CASE KbdrOnBus
    <2>1. state' = "FETCH" => ~kb_ready_bit'
      <3>1. SUFFICES ASSUME state' = "FETCH"
                     PROVE  ~kb_ready_bit'
        OBVIOUS
      <3>2. state = "REG_WRITEBACK" /\ key_told
        BY <1>1, <1>2, <3>1, KbdrClocks
      <3>3. kbdr_read
        BY <1>2, <3>2 DEF KeyInv, KeyDelivered, Loads, KbdrOnBus
      <3> QED
        BY <1>1, <3>2, <3>3, PromiseKept, KeyboardOfClock
    <2>2. state' # "INT_PUSH_PSR"
      BY <1>1, <1>2, KbdrClocks
    <2>3. ASSUME state' = "HALT" \/ (kbdr_read' /\ state' = "MEM_WAIT")
          PROVE  ~key_told'
      <3>1. state \in {"FETCH", "HALT"}
        BY <1>1, <1>2, <2>3, KbdrClocks
      <3>2. ~key_told
        BY <1>2, <3>1 DEF KeyInv, KeyGone, ToldWaits
      <3>3. ~FindsReady(KBSR_ADDR)
        BY <3>1 DEF FindsReady, Loads
      <3>4. ~AcceptInterrupt(CoreWires)
        BY <2>2 DEF AcceptInterrupt
      <3> QED
        BY <3>2, <3>3, <3>4, ToldClock
    <2> QED
      BY <2>1, <2>2, <2>3 DEF KeyGone
  <1>3. CASE ~KbdrOnBus
    <2>1. ~kbdr_read'
      BY <1>1, <1>3, KeyboardOfClock
    <2>2. KbdrOnBus' => state' = "MEM_WAIT"
      BY <1>1, <1>3, KbdrComes
    <2> QED
      BY <2>1, <2>2 DEF KeyGone
  <1> QED
    BY <1>2, <1>3

\* The entry into a handler begins with a promise.
LEMMA EntryToldStep ==
  ASSUME SystemInv, KeyInv, NEW keys, Tick(keys)
  PROVE  EntryTold'
  <1>1. SUFFICES ASSUME Handling'
                 PROVE  key_told'
    BY DEF EntryTold
  <1>2. SystemClock(keys)
    BY DEF Tick
  <1>3. Handling \/ AcceptInterrupt(CoreWires)
    <2>1. CASE UNCHANGED coreVars
      BY <1>1, <2>1 DEF coreVars, Handling, Bound
    <2>2. CASE CoreStep(CoreWires)
      BY <1>1, <1>2, <2>2, CoreOfClock, EntrySteps
    <2> QED
      BY <1>2, <2>1, <2>2, CoreOfClock
  <1>4. Handling => key_told /\ ~Loads(KBDR_ADDR)
    BY DEF KeyInv, EntryTold, Handling, Bound, Loads
  <1> QED
    BY <1>3, <1>4, ToldClock

\* Nothing is promised when reset has been asserted.
LEMMA KeyInvFresh ==
  /\ RunInit => KeyInv
  /\ PressReset => KeyInv'
  <1> USE DEF KeyInv, HaltedAway, ReadSeen, KeyDelivered, ToldWaits, KeyGone,
              EntryTold, KbdrOnBus, FindsReady, Loads, Handling, Bound,
              machine_halt
  <1>1. ASSUME RunInit PROVE KeyInv
    BY <1>1 DEF RunInit, SystemInit, CoreInit, ControllerInit, KeyboardInit,
                Fresh, KBDR_ADDR
  <1>2. ASSUME PressReset PROVE KeyInv'
    BY <1>2 DEF PressReset, ResetButton, CoreReset, ControllerReset,
                KeyboardReset, KBDR_ADDR
  <1> QED
    BY <1>1, <1>2

\* Every step keeps the invariant of the keyboard,
LEMMA KeyInvNext ==
  ASSUME SystemInv, KeysAsked, KeysAsked', KeyInv, [RunNext]_runVars
  PROVE  KeyInv'
  <1>1. ASSUME NEW keys \in KeyPort, Tick(keys)
        PROVE  KeyInv'
    <2>1. SystemClock(keys)
      BY <1>1 DEF Tick
    <2>2. HaltedAway'
      BY <2>1, HaltedAwayStep DEF KeyInv
    <2> QED
      BY <1>1, <2>1, <2>2, ReadSeenStep, ToldWaitsStep, KeyGoneStep,
         EntryToldStep
      DEF KeyInv
  <1>2. CASE UNCHANGED runVars
    BY <1>2
    DEF runVars, systemVars, coreVars, controllerVars, keyboardVars,
        historyVars, KeyInv, HaltedAway, ReadSeen, KeyDelivered, ToldWaits,
        KeyGone, EntryTold, KbdrOnBus, FindsReady, Loads, Handling, Bound,
        machine_halt
  <1> QED
    BY <1>1, <1>2, KeyInvFresh DEF RunNext, ClockEdge

\* so it holds in every run of a program that asks first.
LEMMA KeyInvariant == RunSpec /\ []KeysAsked => []KeyInv
  BY KeyInvFresh, KeyInvNext, SystemOfRun, PTL DEF RunSpec

\* A program that loads KBDR only after it has been told of a character is
\* called for no character that is gone: the ready bit that raised the
\* interrupt is still set when the handler starts.
THEOREM HandlersHaveTheirKey ==
  RunSpec /\ []KeysAsked => []HandlerHasKey
  <1>1. KeyInv => HandlerHasKey
    BY DEF KeyInv, EntryTold, ToldWaits, HandlerHasKey, Handling, Bound
  <1> QED
    BY <1>1, KeyInvariant, PTL

\* The characters loaded so far are older than the one that waits.
GotOlder ==
    /\ typed \in Nat
    /\ kbdr_value \in Nat /\ kbdr_value <= typed
    /\ got \in Seq(Nat)
    /\ \A i \in 1 .. Len(got) : /\ got[i] <= kbdr_value
                                /\ kb_ready_bit => got[i] < kbdr_value
    /\ KeysReadOnce

\* The keyboard takes the next character or keeps the one it has.
LEMMA KeyboardNumbers ==
  ASSUME SystemInv, KeyInv, GotOlder, NEW keys, Tick(keys)
  PROVE  /\ typed' \in Nat /\ kbdr_value' \in Nat /\ kbdr_value' <= typed'
         /\ \/ ~kb_ready_bit /\ kbdr_value < kbdr_value'
            \/ /\ kbdr_value' = kbdr_value
               /\ kb_ready_bit' => kb_ready_bit
  <1>1. SystemClock(keys) /\ SendKey(keys)
    BY DEF Tick
  <1>2. typed \in Nat /\ kbdr_value \in Nat /\ kbdr_value <= typed
    BY DEF GotOlder
  <1>3. \/ typed' = typed /\ keys = {}
        \/ typed' = typed + 1 /\ keys = {typed + 1}
    BY <1>1 DEF SendKey
  <1>4. CASE Latches(keys)
    <2>1. typed' = typed + 1 /\ kbdr_value' = typed + 1
      BY <1>1, <1>3, <1>4, KeyboardOfClock DEF Latches
    <2> QED
      BY <1>1, <1>2, <1>4, <2>1, KeyboardOfClock
  <1>5. CASE ~Latches(keys)
    BY <1>1, <1>2, <1>3, <1>5, KeyboardOfClock
  <1> QED
    BY <1>4, <1>5

\* The program loads a character that no load has taken before.
LEMMA GotOlderClock ==
  ASSUME SystemInv, KeyInv, KeysAsked, GotOlder, NEW keys, Tick(keys)
  PROVE  GotOlder'
  <1>1. /\ typed' \in Nat /\ kbdr_value' \in Nat /\ kbdr_value' <= typed'
        /\ \/ ~kb_ready_bit /\ kbdr_value < kbdr_value'
           \/ /\ kbdr_value' = kbdr_value
              /\ kb_ready_bit' => kb_ready_bit
    BY KeyboardNumbers
  <1>2. /\ got \in Seq(Nat) /\ kbdr_value \in Nat
        /\ \A i \in 1 .. Len(got) : /\ got[i] \in Nat
                                    /\ got[i] <= kbdr_value
                                    /\ kb_ready_bit => got[i] < kbdr_value
    BY DEF GotOlder
  <1>3. got' = AppendIf(Loads(KBDR_ADDR), got, cpu_rdata)
    BY DEF Tick, Record
  <1>4. CASE ~Loads(KBDR_ADDR)
    <2>1. got' = got
      BY <1>3, <1>4 DEF AppendIf
    <2>2. \A i \in 1 .. Len(got') :
            /\ got'[i] <= kbdr_value'
            /\ kb_ready_bit' => got'[i] < kbdr_value'
      BY <1>1, <1>2, <2>1
    <2>3. KeysReadOnce'
      BY <2>1 DEF GotOlder, KeysReadOnce
    <2> QED
      BY <1>1, <1>2, <2>1, <2>2, <2>3 DEF GotOlder
  <1>5. CASE Loads(KBDR_ADDR)
    <2>1. SystemClock(keys)
      BY DEF Tick
    <2>2. cpu_rdata = kbdr_value /\ kbdr_read /\ key_told
      BY <1>5, Zenon DEF KeyInv, KeyDelivered, KeysAsked, Loads
    <2>3. /\ kb_ready_bit /\ ~kb_ready_bit'
          /\ kbdr_value' = kbdr_value
      BY <2>1, <2>2, PromiseKept, KeyboardOfClock
    <2>4. PICK m \in Nat : m = Len(got)
      BY <1>2
    <2>5. /\ got' \in Seq(Nat)
          /\ Len(got') = m + 1
          /\ got'[m + 1] = kbdr_value
          /\ \A i \in 1 .. m : got'[i] = got[i]
      BY <1>2, <1>3, <1>5, <2>2, <2>4 DEF AppendIf
    <2>6. \A i \in 1 .. Len(got') :
            /\ got'[i] <= kbdr_value'
            /\ kb_ready_bit' => got'[i] < kbdr_value'
      BY <1>2, <2>3, <2>4, <2>5
    <2>7. KeysReadOnce'
      <3>1. \A i \in 2 .. m : got[i - 1] < got[i]
        BY <2>4 DEF GotOlder, KeysReadOnce
      <3>2. m > 0 => got[m] < kbdr_value
        BY <1>2, <2>3, <2>4
      <3>3. ASSUME NEW i \in 2 .. m + 1
            PROVE  got'[i - 1] < got'[i]
        <4>1. CASE i = m + 1
          BY <2>5, <3>2, <4>1
        <4>2. CASE i \in 2 .. m
          BY <2>5, <3>1, <4>2
        <4> QED
          BY <4>1, <4>2
      <3> QED
        BY <2>5, <3>3 DEF KeysReadOnce
    <2> QED
      BY <1>1, <2>5, <2>6, <2>7 DEF GotOlder
  <1> QED
    BY <1>4, <1>5

\* At first, and after a reset, nothing has been loaded.
LEMMA GotOlderFresh ==
  /\ RunInit => GotOlder
  /\ GotOlder /\ PressReset => GotOlder'
  <1>1. << >> \in Seq(Nat) /\ Len(<< >>) = 0
    OBVIOUS
  <1>2. ASSUME RunInit PROVE GotOlder
    BY <1>1, <1>2 DEF RunInit, SystemInit, ControllerInit, KeyboardInit,
                      Fresh, GotOlder, KeysReadOnce
  <1>3. ASSUME GotOlder, PressReset PROVE GotOlder'
    BY <1>1, <1>3 DEF PressReset, ResetButton, ControllerReset,
                      KeyboardReset, GotOlder, KeysReadOnce
  <1> QED
    BY <1>2, <1>3

\* The ready bit goes down two clocks after the load, and the address of KBDR
\* still stands on the bus then, yet a program that asks first never loads a
\* character twice, and loads them in the order in which they were sent.
THEOREM KeysAreReadOnce == RunSpec /\ []KeysAsked => []KeysReadOnce
  <1>1. ASSUME SystemInv, KeyInv, KeysAsked, GotOlder, [RunNext]_runVars
        PROVE  GotOlder'
    <2>1. CASE UNCHANGED runVars
      BY <1>1, <2>1
      DEF runVars, systemVars, controllerVars, keyboardVars, historyVars,
          GotOlder, KeysReadOnce
    <2> QED
      BY <1>1, <2>1, GotOlderClock, GotOlderFresh DEF RunNext, ClockEdge
  <1>2. GotOlder => KeysReadOnce
    BY DEF GotOlder
  <1> QED
    BY <1>1, <1>2, GotOlderFresh, KeyInvariant, SystemOfRun, PTL
    DEF RunSpec

-----------------------------------------------------------------------------
\* Whether an interrupt is kept out or has been counted.
Answering == \/ Handling
             \/ Priority(psr) >= irq_priority
             \/ state = "HALT"

\* A character for which no interrupt has been accepted yet waits, or the
\* program knows of it and no interrupt is accepted before it has been loaded.
KeyCounted ==
    /\ entered \in Nat /\ latched \in Nat
    /\ entered <= latched
    /\ kb_ready_bit => entered < latched \/ (key_told /\ Answering)

\* The core keeps the interrupt out until the handler has loaded the
\* character.
LEMMA AnsweringClock ==
  ASSUME SystemInv, KeyInv, HandlersAnswer, Answering, key_told, NEW keys,
         SystemClock(keys)
  PROVE  Answering' /\ ~AcceptInterrupt(CoreWires)
  <1>1. CASE machine_halt /\ UNCHANGED coreVars
    <2>1. Answering'
      BY <1>1 DEF coreVars, Answering, Handling, Bound, irq_priority
    <2>2. ~AcceptInterrupt(CoreWires)
      BY <1>1 DEF coreVars, AcceptInterrupt
    <2> QED
      BY <2>1, <2>2
  <1>2. CASE CoreStep(CoreWires)
    <2> DEFINE in == CoreWires
    <2>1. /\ CoreTypeOK /\ CoreFlow /\ in \in CoreInput
          /\ in.irq_priority = irq_priority
          /\ in.mem_rdata = cpu_rdata
          /\ irq_priority \in Nat
      BY CoreOfClock DEF irq_priority
    <2> HIDE DEF in
    <2>2. CASE Handling
      <3>1. \/ Handling' \/ state' = "HALT" \/ IntSetPC(in)
        BY <1>2, <2>1, <2>2, EntrySteps DEF in
      <3>2. ASSUME IntSetPC(in)
            PROVE  Priority(psr') >= irq_priority
        <4>1. state = "INT_SET_PC"
          BY <3>2 DEF IntSetPC
        <4>2. Priority(psr') = irq_priority
          BY <1>2, <2>1, <4>1, PriorityStep DEF in
        <4> QED
          BY <2>1, <4>2
      <3>3. ~AcceptInterrupt(in)
        BY <2>2 DEF Handling, Bound, AcceptInterrupt
      <3> QED
        BY <3>1, <3>2, <3>3 DEF Answering, irq_priority, in
    <2>3. CASE state = "HALT"
      <3>1. UNCHANGED coreVars
        BY <1>2, <2>3, HaltLasts
      <3> QED
        BY <2>3, <3>1 DEF coreVars, Answering, AcceptInterrupt
    <2>4. CASE Priority(psr) >= irq_priority /\ ~Handling
      <3>1. ~AcceptInterrupt(in)
        <4>1. Priority(psr) \in Nat
          BY <2>1 DEF CoreTypeOK, Priority, Word
        <4> QED
          BY <2>1, <2>4, <4>1 DEF AcceptInterrupt, Accepts
      <3>2. Priority(psr') >= irq_priority
        <4>1. CASE state = "PSR_WRITE"
          <5>1. psr' = cpu_rdata
            BY <1>2, <2>1, <4>1, PsrWriteOnly DEF PsrWrite, in
          <5>2. ~(Priority(cpu_rdata) < irq_priority)
            BY <4>1 DEF HandlersAnswer
          <5>3. Priority(cpu_rdata) \in Nat
            BY DEF SystemInv, SystemTypeOK, ControllerTypeOK, Priority,
                   Word
          <5> QED
            BY <2>1, <5>1, <5>2, <5>3
        <4>2. CASE state # "PSR_WRITE"
          <5>1. state # "INT_SET_PC"
            BY <2>4 DEF Handling, Bound
          <5>2. Priority(psr') = Priority(psr)
            BY <1>2, <2>1, <4>2, <5>1, PriorityStep DEF in
          <5> QED
            BY <2>4, <5>2
        <4> QED
          BY <4>1, <4>2
      <3> QED
        BY <3>1, <3>2 DEF Answering, irq_priority, in
    <2> QED
      BY <2>2, <2>3, <2>4 DEF Answering
  <1> QED
    BY <1>1, <1>2, CoreOfClock

\* An interrupt is accepted for a character that none was accepted for.
LEMMA KeyCountedClock ==
  ASSUME SystemInv, KeyInv, KeysAsked, HandlersAnswer, KeyCounted,
         NEW keys, Tick(keys)
  PROVE  KeyCounted'
  <1>1. SystemClock(keys)
    BY DEF Tick
  <1>2. /\ latched' = IF Latches(keys) THEN latched + 1 ELSE latched
        /\ entered' = IF AcceptInterrupt(CoreWires) THEN entered + 1
                                                    ELSE entered
    <2>1. state' = "INT_PUSH_PSR" <=> AcceptInterrupt(CoreWires)
      BY <1>1, EntryBegins
    <2> QED
      BY <2>1 DEF Tick, Record
  <1>3. entered \in Nat /\ latched \in Nat /\ entered <= latched
    BY DEF KeyCounted
  <1>4. AcceptInterrupt(CoreWires) => kb_ready_bit /\ state = "FETCH"
    BY <1>1, CoreOfClock DEF AcceptInterrupt, Accepts, irq_pending
  <1>5. Latches(keys) => ~kb_ready_bit
    BY <1>1, KeyboardOfClock
  <1>6. CASE AcceptInterrupt(CoreWires)
    <2>1. entered < latched
      <3>1. ~(key_told /\ Answering)
        BY <1>1, <1>6, AnsweringClock
      <3> QED
        BY <1>4, <1>6, <3>1 DEF KeyCounted, Answering
    <2>2. entered' = entered + 1 /\ latched' = latched
      BY <1>2, <1>4, <1>5, <1>6
    <2>3. key_told' /\ Handling'
      BY <1>6, ToldClock DEF AcceptInterrupt, Handling
    <2> QED
      BY <1>3, <2>1, <2>2, <2>3 DEF KeyCounted, Answering
  <1>7. CASE ~AcceptInterrupt(CoreWires) /\ Latches(keys)
    <2>1. entered' = entered /\ latched' = latched + 1
      BY <1>2, <1>7
    <2> QED
      BY <1>3, <2>1 DEF KeyCounted
  <1>8. CASE ~AcceptInterrupt(CoreWires) /\ ~Latches(keys)
    <2>1. entered' = entered /\ latched' = latched
      BY <1>2, <1>8
    <2>2. ASSUME kb_ready_bit', ~(entered < latched)
          PROVE  key_told' /\ Answering'
      <3>1. kb_ready_bit
        BY <1>1, <1>8, <2>2, KeyboardOfClock
      <3>2. key_told /\ Answering
        BY <2>2, <3>1 DEF KeyCounted, Answering
      <3>3. ~Loads(KBDR_ADDR)
        <4>1. Loads(KBDR_ADDR) => kbdr_read
          BY DEF KeyInv, KeyDelivered
        <4> QED
          BY <1>1, <1>8, <2>2, <4>1, KeyboardOfClock
      <3> QED
        BY <1>1, <3>2, <3>3, AnsweringClock, ToldClock
    <2> QED
      BY <1>3, <2>1, <2>2 DEF KeyCounted, Answering, irq_priority
  <1> QED
    BY <1>6, <1>7, <1>8

\* At first, and after a reset, both numbers are zero.
LEMMA KeyCountedFresh ==
  /\ RunInit => KeyCounted
  /\ PressReset => KeyCounted'
  <1>1. ASSUME RunInit PROVE KeyCounted
    BY <1>1 DEF RunInit, SystemInit, ControllerInit, KeyboardInit, Fresh,
                KeyCounted
  <1>2. ASSUME PressReset PROVE KeyCounted'
    BY <1>2 DEF PressReset, ResetButton, ControllerReset, KeyboardReset,
                KeyCounted
  <1> QED
    BY <1>1, <1>2

\* The keyboard holds its request up until the load has taken the character.
\* With handlers that load it before they return to a lower priority, the
\* core still accepts no more interrupts than characters have come.
THEOREM InterruptsPerKey ==
  RunSpec /\ []KeysAsked /\ []HandlersAnswer => []OneInterruptPerKey
  <1>1. ASSUME SystemInv, KeyInv, KeysAsked, HandlersAnswer, KeyCounted,
               [RunNext]_runVars
        PROVE  KeyCounted'
    <2>1. CASE UNCHANGED runVars
      BY <1>1, <2>1
      DEF runVars, systemVars, coreVars, controllerVars, keyboardVars,
          historyVars, KeyCounted, Answering, Handling, Bound, irq_priority
    <2> QED
      BY <1>1, <2>1, KeyCountedClock, KeyCountedFresh
      DEF RunNext, ClockEdge
  <1>2. KeyCounted => OneInterruptPerKey
    BY DEF KeyCounted, OneInterruptPerKey
  <1> QED
    BY <1>1, <1>2, KeyCountedFresh, KeyInvariant, SystemOfRun, PTL
    DEF RunSpec
=============================================================================
