------------------------- MODULE LC3SimulatorProofs -------------------------
(***************************************************************************)
(* The simulator object, for every memory size, every set of images and    *)
(* every order of calls: a load leaves the image in memory although it     *)
(* clocks the core along, and an object that was loaded once is one        *)
(* LC3Machine.  The invariant says how far a load has come (Loading), what *)
(* an object is before its first load has ended (Fresh), and which of the  *)
(* wires a call leaves as they were (WiresDown).                           *)
(***************************************************************************)
EXTENDS LC3Simulator, TLAPS

Loading ==
    call = "load" => /\ addr \in 0 .. kMemoryWordCount
                     /\ \A a \in 0 .. addr - 1 : Peek(mem, a) = image[a]

Prefix(n) == [a \in 0 .. n - 1 |-> image[a]]

Fresh ==
    loads = 0 \/ (loads = 1 /\ call = "load") =>
        /\ CoreInit
        /\ reset = TRUE
        /\ mem_rdata = 0
        /\ mem = IF loads = 0 THEN [a \in {} |-> 0] ELSE Prefix(addr)

WiresDown ==
    /\ call # "load" => loader = {}
    /\ call # "load" /\ loads # 0 => reset = FALSE
    /\ call = "load" => loads # 0
    /\ ~alive => call = "none"

SimulatorInv == /\ loads \in Nat
                /\ image \in Images
                /\ mpr \in Mprs /\ irq \in Irqs
                /\ Loading
                /\ Fresh
                /\ WiresDown

\* The choice among one word of the loader is that word.
LEMMA LoaderDrives ==
  ASSUME NEW w
  PROVE  Bus({w}) = LoaderBus(w)
  <1>1. (CHOOSE v \in {w} : TRUE) = w /\ {w} # {}
    OBVIOUS
  <1> QED BY <1>1 DEF Bus

\* A store is found where it was made, and nowhere else.
LEMMA PokePeek ==
  ASSUME NEW m, NEW a, NEW v
  PROVE  /\ Peek(Poke(m, a, v), a) = v
         /\ \A b : b # a => Peek(Poke(m, a, v), b) = Peek(m, b)
  BY DEF Peek, Poke

\* Words stored one after the other make the beginning of an image.
LEMMA PrefixGrows ==
  ASSUME NEW n \in Nat, NEW m, m = Prefix(n), image \in Images
  PROVE  /\ Peek(m, n) = 0
         /\ Poke(m, n, image[n]) = Prefix(n + 1)
  BY DEF Prefix, Peek, Poke

\* The calls that set no wire and touch nothing that the invariant is about.
LEMMA Idle ==
  ASSUME SimulatorInv,
         UNCHANGED <<machineVars, reset, loader, image, addr, loads, call, alive>>
  PROVE  SimulatorInv'
  BY DEF SimulatorInv, Loading, Fresh, WiresDown, Prefix, machineVars,
         CoreInit, coreVars

\* A new object is as SimulatorInit has it.
LEMMA SimulatorInvInit == SimulatorInit => SimulatorInv
  BY DEF SimulatorInit, FreshModel, SimulatorInv, Loading, Fresh, WiresDown

\* One more word is in its place, whatever the core wanted to store.
LEMMA LoadWordKeeps ==
  ASSUME SimulatorInv, LoadWord
  PROVE  SimulatorInv'
  <1> DEFINE w == [addr |-> addr, wdata |-> image[addr]]
  <1>1. /\ call = "load" /\ call' = "load"
        /\ addr \in 0 .. kMemoryWordCount /\ addr < kMemoryWordCount
        /\ addr' = addr + 1
        /\ loads' = loads /\ image' = image /\ reset' = reset /\ alive' = alive
        /\ loader' = {w}
        /\ Tick(loader')
    BY DEF LoadWord, SimulatorInv, Loading
  <1>2. kMemoryWordCount \in Nat
    BY SimulatorParameters
  <1>3. Bus(loader') = [addr |-> addr, wdata |-> image[addr], we |-> TRUE]
    <2>1. Bus({w}) = LoaderBus(w)
      BY LoaderDrives
    <2>2. Bus(loader') = Bus({w})
      BY <1>1
    <2> QED BY <2>1, <2>2 DEF LoaderBus
  <1>4. /\ mem' = Poke(mem, addr, image[addr])
        /\ mem_rdata' = Peek(mem, addr)
    BY <1>1, <1>3 DEF Tick
  <1>5. Loading'
    <2>1. \A a \in 0 .. addr : Peek(mem', a) = image[a]
      BY <1>1, <1>2, <1>4, PokePeek DEF SimulatorInv, Loading
    <2> QED BY <1>1, <1>2, <2>1 DEF Loading
  <1>6. Fresh'
    <2>1. SUFFICES ASSUME loads = 1
                   PROVE  /\ CoreInit'
                          /\ reset' = TRUE
                          /\ mem_rdata' = 0
                          /\ mem' = Prefix(addr)'
      BY <1>1 DEF Fresh, SimulatorInv, WiresDown
    <2>2. reset = TRUE /\ mem = Prefix(addr) /\ image \in Images
      BY <1>1, <2>1 DEF SimulatorInv, Fresh
    <2>3. CoreReset
      BY <1>1, <2>2 DEF Tick
    <2>4. mem_rdata' = 0 /\ mem' = Prefix(addr + 1)
      BY <1>1, <1>2, <1>4, <2>2, PrefixGrows
    <2>5. CoreInit'
      BY <2>3 DEF CoreReset, CoreInit
    <2> QED BY <1>1, <2>2, <2>4, <2>5 DEF Prefix
  <1> QED BY <1>1, <1>5, <1>6 DEF SimulatorInv, WiresDown, Tick

\* A run is clock edges with the loader off; before the first load they find
\* the core in reset and the memory empty.
LEMMA RunCycleKeeps ==
  ASSUME SimulatorInv, RunCycle
  PROVE  SimulatorInv'
  <1>1. /\ call = "run" /\ call' = "run"
        /\ UNCHANGED <<addr, loads, image, reset, alive, loader>>
        /\ loader = {}
        /\ Tick({})
    BY DEF RunCycle, SimulatorInv, WiresDown
  <1>2. Fresh'
    <2>1. SUFFICES ASSUME loads = 0
                   PROVE  /\ CoreInit'
                          /\ reset' = TRUE
                          /\ mem_rdata' = 0
                          /\ mem' = [a \in {} |-> 0]
      BY <1>1 DEF Fresh
    <2>2. CoreInit /\ reset = TRUE /\ mem = [a \in {} |-> 0]
      BY <2>1 DEF SimulatorInv, Fresh
    <2>3. Bus({}).we = FALSE
      BY <2>2 DEF Bus, CoreBus, CoreInit
    <2>4. mem' = mem /\ mem_rdata' = 0
      BY <1>1, <2>2, <2>3 DEF Tick, Peek
    <2>5. CoreInit'
      BY <1>1, <2>2 DEF Tick, CoreReset, CoreInit
    <2> QED BY <1>1, <2>2, <2>4, <2>5
  <1>3. Loading'
    <2>1. call' # "load"
      BY <1>1
    <2> QED BY <2>1 DEF Loading
  <1>4. mpr' = mpr /\ irq' = irq
    BY <1>1 DEF Tick
  <1> QED BY <1>1, <1>2, <1>3, <1>4 DEF SimulatorInv, WiresDown

\* Every call, and every turn of a loop, keeps the invariant.
LEMMA SimulatorInvStep ==
  ASSUME SimulatorInv, [SimulatorNext]_simVars
  PROVE  SimulatorInv'
  <1>1. CASE \E limit \in CycleLimits : New(limit)
    <2>1. ~alive /\ call' = call /\ image' = image /\ CoreReset
          /\ mem' = [a \in {} |-> 0] /\ mem_rdata' = 0 /\ reset' = TRUE
          /\ loader' = {} /\ loads' = 0 /\ alive' /\ mpr' = mpr /\ irq' = irq
      BY <1>1 DEF New
    <2>2. CoreInit'
      BY <2>1 DEF CoreReset, CoreInit
    <2> QED BY <2>1, <2>2 DEF SimulatorInv, Loading, Fresh, WiresDown
  <1>2. CASE CreateFails \/ Drop
    BY <1>2 DEF CreateFails, Drop, SimulatorInv, Loading, Fresh, WiresDown, Prefix,
                machineVars, CoreInit, coreVars
  <1>3. ASSUME NEW a, Answers(a) PROVE SimulatorInv'
    BY <1>3, Idle DEF Answers
  <1>4. CASE NotImplemented \/ StepInstruction
             \/ \E e \in {"InvalidArgument", "RuntimeError"} : LoadRefused(e)
    BY <1>3, <1>4 DEF NotImplemented, StepInstruction, LoadRefused
  <1>5. CASE \E dense \in Images : LoadDenseImage(dense)
    <2>1. PICK dense \in Images : LoadDenseImage(dense)
      BY <1>5
    <2>2. /\ call = "none" /\ call' = "load" /\ addr' = 0 /\ loads' = loads + 1
          /\ image' = dense /\ alive /\ alive' = alive
          /\ UNCHANGED <<machineVars, reset, loader>>
      BY <2>1 DEF LoadDenseImage
    <2>3. Fresh'
      <3>1. SUFFICES ASSUME loads = 0
                     PROVE  /\ CoreInit'
                            /\ reset' = TRUE
                            /\ mem_rdata' = 0
                            /\ mem' = Prefix(addr)'
        <4>1. loads \in Nat
          BY DEF SimulatorInv
        <4>2. loads' # 0 /\ (loads' = 1 => loads = 0)
          BY <2>2, <4>1
        <4> QED BY <4>2 DEF Fresh
      <3>2. /\ CoreInit /\ reset = TRUE /\ mem_rdata = 0
            /\ mem = [a \in {} |-> 0]
        BY <3>1 DEF SimulatorInv, Fresh
      <3>3. Prefix(addr)' = [a \in {} |-> 0]
        BY <2>2 DEF Prefix
      <3> QED BY <2>2, <3>2, <3>3 DEF machineVars, CoreInit, coreVars
    <2>4. Loading'
      BY <2>2, SimulatorParameters DEF Loading
    <2> QED BY <2>2, <2>3, <2>4 DEF SimulatorInv, WiresDown, machineVars
  <1>6. CASE LoadWord
    BY <1>6, LoadWordKeeps
  <1>7. CASE LoadReturns
    BY <1>7 DEF LoadReturns, SimulatorInv, Loading, Fresh, WiresDown, machineVars
  <1>8. CASE Run
    BY <1>8 DEF Run, SimulatorInv, Loading, Fresh, WiresDown, machineVars,
                CoreInit, coreVars
  <1>9. CASE RunCycle
    BY <1>9, RunCycleKeeps
  <1>10. CASE RunReturns
    BY <1>10 DEF RunReturns, SimulatorInv, Loading, Fresh, WiresDown,
                 machineVars, CoreInit, coreVars
  <1>11. CASE Observed \/ UNCHANGED simVars
    BY <1>11, Idle DEF Observed, simVars
  <1> QED BY <1>1, <1>2, <1>4, <1>5, <1>6, <1>7, <1>8, <1>9, <1>10, <1>11
          DEF SimulatorNext

\* The invariant above holds in every state of the simulator object.
THEOREM SimulatorInvariant == SimulatorSpec => []SimulatorInv
  BY SimulatorInvInit, SimulatorInvStep, PTL DEF SimulatorSpec

\* Every load, of whatever object at whatever time, leaves its image in memory.
THEOREM LoadsAreWhole == SimulatorSpec => LoadedAsGiven
  <1>1. ASSUME SimulatorInv, [SimulatorNext]_simVars
        PROVE  [LoadReturns => \A a \in 0 .. kMemoryWordCount - 1 :
                                  Peek(mem', a) = image[a]]_simVars
    BY <1>1 DEF LoadReturns, SimulatorInv, Loading, machineVars
  <1> QED BY <1>1, SimulatorInvariant, PTL DEF SimulatorSpec, LoadedAsGiven

\* An object that is loaded once is LC3Machine with that image, and its runs
\* together are one behaviour of it, whatever their limits are.
THEOREM RunsAreOneMachine == SimulatorSpec => OneMachine
  <1> DEFINE Step == loads = 1 /\ loads' = 1 =>
               /\ call = "load" /\ call' = "none" => MachineInit'
               /\ call # "load" => Clock \/ UNCHANGED machineVars
  <1>1. ASSUME SimulatorInv, [SimulatorNext]_simVars PROVE Step
    <2> SUFFICES ASSUME loads = 1, loads' = 1 PROVE Step
      OBVIOUS
    <2>1. ASSUME UNCHANGED machineVars, call = "load" => call' = "load"
          PROVE  Step
      BY <2>1
    <2>2. ~\E limit \in CycleLimits : New(limit)
      BY DEF New
    <2>3. ~\E dense \in Images : LoadDenseImage(dense)
      BY DEF LoadDenseImage
    <2>4. CASE LoadWord
      BY <2>4 DEF LoadWord
    <2>5. CASE LoadReturns
      <3>1. /\ CoreInit /\ mem_rdata = 0 /\ mem = Prefix(addr)
            /\ addr = kMemoryWordCount /\ image \in Images
            /\ call = "load" /\ UNCHANGED machineVars
        BY <1>1, <2>5 DEF LoadReturns, SimulatorInv, Fresh
      <3>2. mem = image
        <4>1. IsMemory(image) /\ DOMAIN image = 0 .. kMemoryWordCount - 1
          BY <3>1, SimulatorParameters, MachineParameters
        <4> QED BY <3>1, <4>1 DEF IsMemory, Prefix
      <3>3. mpr \in Mprs /\ irq \in Irqs
        BY <1>1 DEF SimulatorInv
      <3>4. MachineInit'
        BY <3>1, <3>2, <3>3 DEF MachineInit, CoreInit, machineVars, coreVars
      <3> QED BY <3>1, <3>4
    <2>6. CASE RunCycle
      <3>1. call = "run" /\ reset = FALSE /\ Tick({})
        BY <1>1, <2>6 DEF RunCycle, SimulatorInv, WiresDown
      <3>2. CoreClock(CoreInputs) /\ UNCHANGED <<mpr, irq>>
        BY <3>1 DEF Tick
      <3>3. MemoryClock
        BY <3>1 DEF Tick, Bus, CoreBus, MemoryClock
      <3>4. InputsChange
        BY <1>1, <3>2 DEF SimulatorInv, InputsChange
      <3> QED BY <3>1, <3>2, <3>3, <3>4 DEF Clock
    <2>7. CASE \E a : Answers(a)
      BY <2>1, <2>7 DEF Answers
    <2>8. CASE \/ CreateFails \/ Drop \/ Run \/ RunReturns \/ Observed
               \/ UNCHANGED simVars
      BY <2>1, <2>8 DEF CreateFails, Drop, Run, RunReturns, Observed, simVars
    <2> QED BY <1>1, <2>2, <2>3, <2>4, <2>5, <2>6, <2>7, <2>8
            DEF SimulatorNext, NotImplemented, StepInstruction, LoadRefused
  <1> QED BY <1>1, SimulatorInvariant, PTL DEF SimulatorSpec, OneMachine
=============================================================================
