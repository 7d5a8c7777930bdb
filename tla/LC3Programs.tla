----------------------------- MODULE LC3Programs -----------------------------
(***************************************************************************)
(* Instruction words, so that the programs TLC runs can be read.  An       *)
(* offset counts from the next instruction.                                *)
(***************************************************************************)
EXTENDS LC3Words, Sequences, TLC

LOCAL Format(op, d, s, low) == op * 4096 + d * 512 + s * 64 + low

ADDR(d, s, t) == Format(OP_ADD, d, s, t)
ADDI(d, s, n) == Format(OP_ADD, d, s, 32 + (n % 32))
ANDR(d, s, t) == Format(OP_AND, d, s, t)
ANDI(d, s, n) == Format(OP_AND, d, s, 32 + (n % 32))
INV(d, s)     == Format(OP_NOT, d, s, 63)
LEA(d, n)     == Format(OP_LEA, d, 0, n % 512)
LD(d, n)      == Format(OP_LD, d, 0, n % 512)
LDI(d, n)     == Format(OP_LDI, d, 0, n % 512)
LDR(d, b, n)  == Format(OP_LDR, d, b, n % 64)
ST(d, n)      == Format(OP_ST, d, 0, n % 512)
STI(d, n)     == Format(OP_STI, d, 0, n % 512)
STR(d, b, n)  == Format(OP_STR, d, b, n % 64)
BR(nzp, n)    == Format(OP_BR, nzp, 0, n % 512)
JMP(b)        == Format(OP_JMP, 0, b, 0)
JMPT(b)       == Format(OP_JMP, 0, b, 1)
JSR(n)        == Format(OP_JSR, 4, 0, n % 2048)
JSRR(b)       == Format(OP_JSR, 0, b, 0)
TRAP(v)       == Format(OP_TRAP, 0, 0, v)
RET           == JMP(7)
RTT           == JMPT(7)
RTI           == Format(OP_RTI, 0, 0, 0)
ReservedOp    == Format(13, 0, 0, 0)

N   == 4     \* condition codes of BR
Z   == 2
P   == 1
ZP  == 3
NZP == 7

\* The words of the sequence code from address a on.
At(a, code) == [x \in a .. a + Len(code) - 1 |-> code[x - a + 1]]
=============================================================================
