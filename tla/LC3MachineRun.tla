---------------------------- MODULE LC3MachineRun ----------------------------
(***************************************************************************)
(* LC3Machine with three history variables, which record what has happened *)
(* and which no action of the machine reads:                               *)
(*   arch    the programmer's view of the registers and the memory when    *)
(*           the core last was at the start of an instruction, or halted;  *)
(*   frames  the contexts of the programs that were interrupted and not    *)
(*           yet returned to, innermost last;                              *)
(*   retired the number of instructions and handler entries completed,     *)
(*           which bounds the length of a run.                             *)
(***************************************************************************)
EXTENDS LC3Machine, Sequences

CONSTANT MaxRetired    \* bound on the length of a run
ASSUME RunBound == MaxRetired \in Nat

VARIABLES arch, frames, retired

runVars == <<machineVars, arch, frames, retired>>

Boundary == state \in {"FETCH", "HALT"}

Visible == [regs |-> regs, pc |-> pc, psr |-> psr, ssp |-> ssp, usp |-> usp,
            mem |-> mem, stopped |-> state = "HALT"]

Context == [pc |-> pc, psr |-> psr, regs |-> regs, ssp |-> ssp]

RunInit == MachineInit /\ arch = Visible /\ frames = <<>> /\ retired = 0

Record ==
    /\ arch' = IF Boundary' THEN Visible' ELSE arch
    /\ frames' = CASE state' = "INT_PUSH_PSR" -> Append(frames, Context)
                   [] state = "PSR_WRITE" /\ frames # <<>> ->
                        SubSeq(frames, 1, Len(frames) - 1)
                   [] OTHER -> frames
    /\ retired' = IF Boundary' /\ state # "HALT" THEN retired + 1 ELSE retired

Running == retired < MaxRetired /\ Clock /\ Record

\* The bound is reached: the run is observed no further.
Observed == retired = MaxRetired /\ UNCHANGED runVars

RunNext == Running \/ Observed

RunSpec == RunInit /\ [][RunNext]_runVars

FairRunSpec == RunSpec /\ WF_runVars(RunNext)
-----------------------------------------------------------------------------
(***************************************************************************)
(* What a handler owes the program it interrupted: it stays a supervisor,  *)
(* and when it comes to its RTI the registers hold what they held, the     *)
(* stack pointer stands where the entry left it, and the frame is as it    *)
(* was pushed.                                                             *)
(***************************************************************************)
Interrupted  == frames[Len(frames)]
StackTop(f)  == IF IsSupervisor(f.psr) THEN f.regs[6] ELSE f.ssp

FrameIntact ==
    /\ regs = [Interrupted.regs EXCEPT
                 ![6] = Plus(StackTop(Interrupted), 65534)]
    /\ Peek(mem, Plus(StackTop(Interrupted), 65534)) = Interrupted.pc
    /\ Peek(mem, Plus(StackTop(Interrupted), 65535)) = Interrupted.psr

HandlersTidy ==
    frames # <<>> =>
      /\ state = "EXEC_JMP" => ~IsRtt(ir)
      /\ state = "DECODE" /\ Opcode(ir) = OP_RTI => FrameIntact
-----------------------------------------------------------------------------
\* The clocked controller implements the instruction set: from one instruction
\* boundary to the next it does what one step of LC3ISA does, for every
\* instruction, fault and interrupt, and nothing is visible in between.
ISA == INSTANCE LC3ISA WITH
         regs <- arch.regs, pc <- arch.pc, psr <- arch.psr, ssp <- arch.ssp,
         usp <- arch.usp, mem <- arch.mem, stopped <- arch.stopped

ImplementsISA == ISA!Spec

\* An interrupt whose handler leaves the registers alone is invisible to the
\* interrupted program: the RTI that ends the handler gives back the PC, the
\* PSR with its flags, priority and mode, every register with the stack
\* pointer of the interrupted mode, and the supervisor stack pointer.
ContextRestored ==
    [][ state = "PSR_WRITE" /\ frames # <<>> =>
          Context' = frames[Len(frames)] ]_runVars

\* A handler is interrupted by a higher priority only: the handlers on the
\* stack are never more than the priorities the interrupt sources have.
NestingBounded ==
    \A i, j \in 1 .. Len(frames) :
        i < j => Priority(frames[i].psr) < Priority(frames[j].psr)
=============================================================================
