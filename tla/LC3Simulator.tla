---------------------------- MODULE LC3Simulator ----------------------------
(***************************************************************************)
(* sw/crates/lc3-sim over sw/verilator: the core and a memory without      *)
(* devices as a library object, which a program makes, loads, runs and     *)
(* drops.  The two loops of lc3_sim_core.cpp are one action per turn, and  *)
(* a turn is one clock edge of lc3_verilator_top.sv; the other calls       *)
(* only set wires.  A build without the Verilator back end answers every   *)
(* call but `new' with an error.                                           *)
(*                                                                         *)
(* A report is left in `answer'; what `new' and a dropped object leave     *)
(* there is NoAnswer.  History: `loads' counts the loads of this object,   *)
(* `edges' the clock edges of its runs.                                    *)
(***************************************************************************)
EXTENDS LC3Machine

CONSTANTS
    kMemoryWordCount,  \* the words the loader writes (65536)
    CycleLimits,       \* values of max_cycles; 0 is no limit
    MaxLoads,          \* bound on loads
    MaxEdges           \* bound on edges

ASSUME SimulatorParameters ==
    /\ kMemoryWordCount \in Nat \ {0}
    /\ kMemoryWordCount <= 65536
    /\ \A dense \in Images : DOMAIN dense = 0 .. kMemoryWordCount - 1
    /\ Mprs = {65535} /\ \A i \in Irqs : ~i.pending  \* tied off by the top
    /\ CycleLimits \subseteq Nat
    /\ MaxLoads \in Nat
    /\ MaxEdges \in Nat
    /\ pennsim_privilege_mode

VARIABLES
    backend,          \* whether the build has the Verilator back end
    alive,            \* the object exists
    max_cycles,
    reset, loader,    \* inputs of the top; loader is {} or one word to write
    call,             \* "none", or the call that is in a loop: "load", "run"
    image, addr,      \* argument and loop variable of load_dense_image
    cycle,            \* loop variable of run_cycles
    answer,           \* of the last call
    loads, edges

simVars == <<machineVars, backend, alive, max_cycles, reset, loader, call,
             image, addr, cycle, answer, loads, edges>>

\* What the multiplexers of the top put on the bus of the memory.
LoaderBus(w) == [addr |-> w.addr, wdata |-> w.wdata, we |-> TRUE]
CoreBus      == [addr |-> mem_addr, wdata |-> mem_wdata, we |-> mem_we]

\* Mutant of Bus: a store of the core goes before a word of the loader.
Bus_CoreFirst(word) == IF word = {} \/ mem_we THEN CoreBus
                       ELSE LoaderBus(CHOOSE w \in word : TRUE)

Bus(word) == IF word = {} THEN CoreBus ELSE LoaderBus(CHOOSE w \in word : TRUE)

\* Impl::tick: one rising edge, with `word' on the inputs of the loader.
Tick(word) ==
    /\ IF reset THEN CoreReset ELSE CoreClock(CoreInputs)
    /\ mem' = IF Bus(word).we THEN Poke(mem, Bus(word).addr, Bus(word).wdata)
                              ELSE mem
    /\ mem_rdata' = Peek(mem, Bus(word).addr)
    /\ UNCHANGED <<mpr, irq>>

halted == state = "HALT"

NoAnswer  == [status |-> "none"]
Status(s) == [status |-> s]
RunReport == [status |-> "ok", pc |-> pc, ir |-> ir, cycles |-> cycle]

\* The model after the one edge that `new' gives it: reset is up and stays up
\* until the first load.
FreshModel ==
    /\ CoreInit
    /\ mem = [a \in {} |-> 0]
    /\ mem_rdata = 0
    /\ mpr \in Mprs
    /\ irq \in Irqs
    /\ reset = TRUE
    /\ loader = {}

SimulatorInit ==
    /\ FreshModel
    /\ backend \in BOOLEAN
    /\ alive = TRUE
    /\ max_cycles \in CycleLimits
    /\ call = "none"
    /\ image \in Images
    /\ addr = 0
    /\ cycle = 0
    /\ answer = NoAnswer
    /\ loads = 0
    /\ edges = 0

\* Drop, and a new object for the program to use.
New(limit) ==
    /\ ~alive
    /\ alive' = TRUE
    /\ max_cycles' = limit
    /\ CoreReset
    /\ mem' = [a \in {} |-> 0]
    /\ mem_rdata' = 0
    /\ reset' = TRUE
    /\ loader' = {}
    /\ answer' = NoAnswer
    /\ cycle' = 0
    /\ addr' = 0
    /\ loads' = 0
    /\ edges' = 0
    /\ UNCHANGED <<mpr, irq, backend, call, image>>

\* The constructor of the model throws: there is no object.
CreateFails ==
    /\ ~alive /\ backend
    /\ answer' = Status("CreateFailed")
    /\ UNCHANGED <<machineVars, backend, alive, max_cycles, reset, loader, call, image,
                   addr, cycle, loads, edges>>

Drop ==
    /\ alive
    /\ call = "none"
    /\ alive' = FALSE
    /\ answer' = NoAnswer
    /\ UNCHANGED <<machineVars, backend, max_cycles, reset, loader, call, image,
                   addr, cycle, loads, edges>>

Answers(a) ==
    /\ alive
    /\ call = "none"
    /\ answer' = a
    /\ UNCHANGED <<machineVars, reset, loader, backend, alive, max_cycles, call, image, addr,
                   cycle, loads, edges>>

\* A call that the build, or this version of the library, does not support.
NotImplemented == /\ ~backend
                  /\ Answers(Status("NotImplemented"))

StepInstruction == Answers(Status("NotImplemented"))

\* lc3_sim_ffi.h lets a C program pass a null pointer or another length.
LoadRefused(e) == backend /\ Answers(Status(e))

(***************************************************************************)
(* load_dense_image.                                                       *)
(***************************************************************************)
LoadDenseImage(dense) ==
    /\ backend /\ alive
    /\ call = "none"
    /\ loads < MaxLoads
    /\ call' = "load"
    /\ image' = dense
    /\ addr' = 0
    /\ loads' = loads + 1
    /\ answer' = NoAnswer
    /\ UNCHANGED <<machineVars, reset, loader, backend, alive, max_cycles, cycle, edges>>

LoadWord ==
    /\ call = "load"
    /\ addr < kMemoryWordCount
    /\ loader' = {[addr |-> addr, wdata |-> image[addr]]}
    /\ Tick(loader')
    /\ addr' = addr + 1
    /\ UNCHANGED <<reset, backend, alive, max_cycles, call, image, cycle,
                   answer, loads, edges>>

\* Mutant of LoadReturns: the write enable of the loader stays up.
LoadReturns_KeepsLoader ==
    /\ call = "load"
    /\ addr = kMemoryWordCount
    /\ reset' = FALSE
    /\ call' = "none"
    /\ answer' = Status("ok")
    /\ UNCHANGED <<machineVars, loader, backend, alive, max_cycles, image, addr, cycle, loads, edges>>

LoadReturns ==
    /\ call = "load"
    /\ addr = kMemoryWordCount
    /\ loader' = {}
    /\ reset' = FALSE
    /\ call' = "none"
    /\ answer' = Status("ok")
    /\ UNCHANGED <<machineVars, backend, alive, max_cycles, image, addr, cycle, loads, edges>>

(***************************************************************************)
(* run_cycles.                                                             *)
(***************************************************************************)
Run ==
    /\ backend /\ alive
    /\ call = "none"
    /\ edges < MaxEdges
    /\ call' = "run"
    /\ cycle' = 0
    /\ answer' = NoAnswer
    /\ UNCHANGED <<machineVars, reset, loader, backend, alive, max_cycles, image, addr,
                   loads, edges>>

GoesOn == ~halted /\ (max_cycles = 0 \/ cycle < max_cycles)

RunCycle ==
    /\ call = "run"
    /\ GoesOn
    /\ edges < MaxEdges
    /\ Tick(loader)
    /\ cycle' = cycle + 1
    /\ edges' = edges + 1
    /\ UNCHANGED <<reset, loader, backend, alive, max_cycles, call, image,
                   addr, answer, loads>>

RunReturns ==
    /\ call = "run"
    /\ ~GoesOn
    /\ call' = "none"
    /\ answer' = RunReport
    /\ UNCHANGED <<machineVars, reset, loader, backend, alive, max_cycles, image, addr,
                   cycle, loads, edges>>

\* The bound is reached: the run is observed no further.
Observed == /\ call = "run"
            /\ GoesOn
            /\ edges = MaxEdges
            /\ UNCHANGED simVars

SimulatorNext ==
    \/ \E limit \in CycleLimits : New(limit)
    \/ CreateFails
    \/ Drop
    \/ NotImplemented
    \/ StepInstruction
    \/ \E e \in {"InvalidArgument", "RuntimeError"} : LoadRefused(e)
    \/ \E dense \in Images : LoadDenseImage(dense)
    \/ LoadWord
    \/ LoadReturns
    \/ Run
    \/ RunCycle
    \/ RunReturns
    \/ Observed

SimulatorSpec == SimulatorInit /\ [][SimulatorNext]_simVars
-----------------------------------------------------------------------------
\* When a load returns the memory is the image, word for word, whatever the
\* core did in the meantime: a second load finds it running, perhaps in the
\* middle of a store, and does not stop it.
LoadedAsGiven ==
    [][ LoadReturns => \A a \in 0 .. kMemoryWordCount - 1 :
                          Peek(mem', a) = image[a] ]_simVars

\* From its first load on an object is one machine: the load leaves it as
\* LC3Machine starts, with the image in its memory, and the runs, however many
\* and however short, are its clock edges one after the other, with no reset
\* and nothing lost or repeated where one run ends and the next begins.
OneMachine ==
    [][ loads = 1 /\ loads' = 1 =>
          /\ call = "load" /\ call' = "none" => MachineInit'
          /\ call # "load" => \/ Clock
                              \/ UNCHANGED machineVars ]_simVars
=============================================================================
