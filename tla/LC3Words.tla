------------------------------ MODULE LC3Words ------------------------------
(***************************************************************************)
(* The 16-bit arithmetic and the bit fields that rtl/lc3_core.sv is built  *)
(* from.  A bit vector is the natural number it denotes; a slice w[h:l] is *)
(* (w \div 2^l) % 2^(h-l+1), with the powers written out so that the SMT   *)
(* back end can reason about them; for the same reason a wide range is     *)
(* described by its bound and not as an interval.                          *)
(***************************************************************************)
EXTENDS Integers

Word == {n \in Nat : n < 65536}
Byte == {n \in Nat : n < 256}
Reg  == 0 .. 7

Plus(a, b) == (a + b) % 65536

\* Replication of the sign bit of a field whose sign bit has weight `sign'.
SignExtend(v, sign) == IF v < sign THEN v ELSE v + 65536 - 2 * sign

\* One bit of the bitwise conjunction, k a power of two.
AndBit(a, b, k) == IF (a \div k) % 2 = 1 /\ (b \div k) % 2 = 1 THEN k ELSE 0

\* The same for the four bits from that of weight k on.
AndNibble(a, b, k) == AndBit(a, b, k) + AndBit(a, b, 2 * k)
                      + AndBit(a, b, 4 * k) + AndBit(a, b, 8 * k)

BitAnd(a, b) == AndNibble(a, b, 1) + AndNibble(a, b, 16)
                + AndNibble(a, b, 256) + AndNibble(a, b, 4096)

BitNot(a) == 65535 - a

(***************************************************************************)
(* Instruction fields.                                                     *)
(***************************************************************************)
Opcode(i) == i \div 4096
DR(i)     == (i \div 512) % 8     \* also SR of the stores and nzp of BR
SR1(i)    == (i \div 64) % 8      \* also the base register
SR2(i)    == i % 8
IsImm(i)  == (i \div 32) % 2 = 1
IsJsr(i)  == (i \div 2048) % 2 = 1
IsRtt(i)  == i % 2 = 1
Imm5(i)       == SignExtend(i % 32, 16)
PcOffset9(i)  == SignExtend(i % 512, 256)
PcOffset11(i) == SignExtend(i % 2048, 1024)
Offset6(i)    == SignExtend(i % 64, 32)
TrapVector(i) == i % 256

OP_BR   == 0
OP_ADD  == 1
OP_LD   == 2
OP_ST   == 3
OP_JSR  == 4
OP_AND  == 5
OP_LDR  == 6
OP_STR  == 7
OP_RTI  == 8
OP_NOT  == 9
OP_LDI  == 10
OP_STI  == 11
OP_JMP  == 12
OP_LEA  == 14
OP_TRAP == 15

(***************************************************************************)
(* The processor status register: [15] privilege, [10:8] priority, [2:0]   *)
(* condition codes.                                                        *)
(***************************************************************************)
Priority(p) == (p \div 256) % 8
Flags(p)    == p % 8
ModeBit(p)  == p \div 32768

SetFlags(p, f)    == p - (p % 8) + f
SetPriority(p, n) == p - (p % 2048) + (p % 256) + 256 * n
SetModeBit(p, b)  == (p % 32768) + 32768 * b

\* Exactly one of N (4), Z (2) and P (1).
FlagsFor(v) == IF v >= 32768 THEN 4 ELSE IF v = 0 THEN 2 ELSE 1

\* |(nzp & psr[2:0])
SomeFlag(nzp, flags) ==
    \E k \in {1, 2, 4} : (nzp \div k) % 2 = 1 /\ (flags \div k) % 2 = 1

(***************************************************************************)
(* A sparse memory: a word outside the domain has never been written and   *)
(* reads as 0.                                                             *)
(***************************************************************************)
Peek(m, a)    == IF a \in DOMAIN m THEN m[a] ELSE 0
Poke(m, a, v) == [x \in DOMAIN m \cup {a} |-> IF x = a THEN v ELSE m[x]]

IsMemory(m) == /\ DOMAIN m \subseteq Word
               /\ m = [a \in DOMAIN m |-> m[a]]
               /\ \A a \in DOMAIN m : m[a] \in Word
=============================================================================
