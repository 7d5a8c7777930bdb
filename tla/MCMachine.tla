------------------------------ MODULE MCMachine ------------------------------
(***************************************************************************)
(* LC3MachineRun on short programs.  The prologue at x0200 loads R1, R6    *)
(* and R7 and jumps to x3000, staying in supervisor mode (RET) or entering *)
(* user mode (RTT); the two instructions there are any of First and        *)
(* Second; after them the program spins.                                   *)
(***************************************************************************)
EXTENDS LC3MachineRun, LC3Programs

CONSTANTS First, Second

\* Every opcode and format, offsets of both signs, data in the program's own
\* page, jumps that change the privilege and instructions it forbids.
Choices == {
    ADDR(2, 1, 1), ADDI(2, 1, -1), ADDI(6, 6, -1), ANDR(1, 1, 7), INV(2, 7),
    LEA(3, -12), LD(2, 14), LDI(2, 14), LDR(2, 6, -1), ST(7, 14), STI(7, 14),
    STR(7, 6, 0), BR(N, 1), BR(ZP, -2), JMP(1), JMPT(7), JSR(1), JSRR(7),
    TRAP(37), RTI, ReservedOp }

Image(jump, first, second) ==
    At(512, <<LD(1, 7), LD(6, 7), LD(7, 7), jump>>)
    @@ At(520, <<40000, 12320, 12288>>)      \* R1 negative, R6 x3020, R7 x3000
    @@ At(12288, <<first, second, BR(NZP, -1)>>)
    @@ At(12303, <<12304, 12304, 0>>)        \* x300F: pointers to x3010
    @@ At(12320, <<12288>>)                  \* what R6 points to
    @@ At(37, <<768>>) @@ At(768, <<RTT>>)   \* a trap routine
    @@ At(384, <<1024, 1024>>)               \* vectors x80 and x81
    @@ At(1024, <<RTI>>)                     \* an interrupt handler

MCImages == {Image(jump, first, second) :
               jump \in {RET, RTT}, first \in First, second \in Second}

\* No protection, the protection the operating system sets up, and one that
\* gives the user the program's page and nothing else.
MCMprs == {65535, 4088, 8}
OsMpr  == {4088}

NoIrq    == [pending |-> FALSE, priority |-> 4, vector |-> 128]
Keyboard == [pending |-> TRUE, priority |-> 4, vector |-> 128]
Urgent   == [pending |-> TRUE, priority |-> 6, vector |-> 129]

Quiet        == {NoIrq}
KeyboardOnly == {NoIrq, Keyboard}
TwoSources   == {NoIrq, Keyboard, Urgent}

Spin == {BR(NZP, -1)}
=============================================================================
