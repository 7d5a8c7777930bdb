----------------------------- MODULE LC3Encoder -----------------------------
(***************************************************************************)
(* sw/crates/lc3-asm/src/encoder.rs: the two passes of the assembler.  The *)
(* first gives every label its address from the words each statement will *)
(* take, the second makes the words; nothing but these actions connects   *)
(* the two counts.  One action is one turn of a loop of `encode' or of    *)
(* `build_symbol_table'.                                                   *)
(*                                                                         *)
(* `placed' is the local variable `address' of the first pass with its     *)
(* past values: placed[i] is its value before statement i.  A diagnostic   *)
(* is the line it complains of.                                            *)
(***************************************************************************)
EXTENDS LC3Parser, LC3Words

VARIABLES
    statements,    \* the program that is assembled
    origin,        \* address of .ORIG, or NoAddress
    words,         \* the words made so far
    diagnostics,   \* lines that were complained of
    saw_end,
    symbols,       \* from the names of labels to their addresses
    rows,          \* the listing
    placed,
    phase,         \* "idle", "origin", "symbols", "encode", "done", "panic"
    next           \* the statement the second pass is at

encoderVars == <<statements, origin, words, diagnostics, saw_end, symbols,
                 rows, placed, phase, next>>

NoAddress    == -1
LAST_ADDRESS == 65535    \* u16::MAX
LONGEST_TEXT == 65534    \* of a .STRINGZ
NoSymbols == [n \in {} |-> 0]

\* current_addr
current_addr ==
    IF origin # NoAddress /\ origin + Len(words) <= LAST_ADDRESS
    THEN origin + Len(words) ELSE NoAddress

HasImage == phase = "done" /\ origin # NoAddress /\ diagnostics = {}

EncoderInit ==
    /\ statements = <<>>
    /\ origin = NoAddress
    /\ words = <<>>
    /\ diagnostics = {}
    /\ saw_end = FALSE
    /\ symbols = NoSymbols
    /\ rows = <<>>
    /\ placed = <<>>
    /\ phase = "idle"
    /\ next = 1

\* Encoder::default, or the end of an encoder's life.
ResetEncoder(program, at) ==
    /\ statements' = program
    /\ origin' = NoAddress
    /\ words' = <<>>
    /\ diagnostics' = {}
    /\ saw_end' = FALSE
    /\ symbols' = NoSymbols
    /\ rows' = <<>>
    /\ placed' = <<>>
    /\ phase' = at
    /\ next' = 1

(***************************************************************************)
(* Operands.                                                               *)
(***************************************************************************)
Matches(s, kinds) == /\ Len(s.operands) = Len(kinds)
                     /\ \A i \in DOMAIN kinds : s.operands[i].token = kinds[i]

NUMBER == <<"number">>
LABEL  == <<"ident">>
STRING_LITERAL == <<"string">>
ONE_REGISTER   == <<"register">>
TWO_REGISTERS  == <<"register", "register">>
THREE_REGISTERS == <<"register", "register", "register">>

IsAddress(s) == Matches(s, NUMBER) /\ s.operands[1].number \in Word
IsText(s)    == Matches(s, STRING_LITERAL) /\ s.operands[1].number <= LONGEST_TEXT

\* A number as a signed field: half the values of the field are negative.
Fits(i, half) == i \in -half .. half - 1
FitsWord(i)   == Fits(i, 32768) \/ i \in Word

(***************************************************************************)
(* read_origin.                                                            *)
(***************************************************************************)
StartsWithOrigin == statements # <<>> /\ statements[1].operation = ".ORIG"

ReadNoOrigin ==
    /\ phase = "origin"
    /\ ~StartsWithOrigin
    /\ diagnostics' = {IF statements = <<>> THEN 1 ELSE statements[1].line}
    /\ phase' = "encode"
    /\ UNCHANGED <<statements, origin, words, saw_end, symbols, rows, placed, next>>

ReadOrigin ==
    /\ phase = "origin"
    /\ StartsWithOrigin
    /\ LET s     == statements[1]
           found == IsAddress(s)
           first == IF found THEN s.operands[1].number ELSE NoAddress
       IN /\ origin' = first
          /\ rows' = <<[line |-> s.line, address |-> first, word_count |-> 0]>>
          /\ diagnostics' = IF found THEN {} ELSE {s.line}
          /\ placed' = IF found THEN <<first>> ELSE <<>>
          /\ phase' = IF found THEN "symbols" ELSE "encode"
    /\ next' = 2
    /\ UNCHANGED <<statements, words, saw_end, symbols>>

(***************************************************************************)
(* build_symbol_table.                                                     *)
(***************************************************************************)
\* The words that the first pass expects of a statement; a .BLKW or .STRINGZ
\* that the second pass will refuse takes none.
WordCount(s) ==
    IF s.operation = ".BLKW" /\ IsAddress(s) THEN s.operands[1].number
    ELSE IF s.operation = ".STRINGZ" /\ IsText(s) THEN s.operands[1].number + 1
    ELSE IF s.operation \in WordWise THEN 1
    ELSE 0

IsNewLabel(s) == s.label # "" /\ Upper[s.label] \notin DOMAIN symbols

\* Mutant of Overflows: the address after the last word is compared instead.
Overflows_Late(address, count) == count > 0 /\ address + count - 2 > LAST_ADDRESS

\* The last word would lie past the top of memory.
Overflows(address, count) == count > 0 /\ address + count - 1 > LAST_ADDRESS

CountStatement ==
    /\ phase = "symbols"
    /\ LET i       == Len(placed)
           s       == statements[i]
           count   == WordCount(s)
           over    == Overflows(placed[i], count)
       IN /\ symbols' = IF IsNewLabel(s)
                        THEN [n \in DOMAIN symbols \cup {Upper[s.label]} |->
                                IF n = Upper[s.label] THEN placed[i] ELSE symbols[n]]
                        ELSE symbols
          /\ diagnostics' =
                IF over \/ (s.label # "" /\ ~IsNewLabel(s))
                THEN diagnostics \cup {s.line} ELSE diagnostics
          /\ placed' = Append(placed, IF over THEN LAST_ADDRESS ELSE placed[i] + count)
          /\ phase' = IF i = Len(statements) THEN "encode" ELSE phase
    /\ UNCHANGED <<statements, origin, words, saw_end, rows, next>>

(***************************************************************************)
(* The second pass.  Every turn of its loop ends in one of these.          *)
(***************************************************************************)
Now      == statements[next]
Field(i) == Now.operands[i].number

\* Mutant of Emit: the row gets the address after the statement.
Emit_RowAfter(made) ==
    /\ words' = words \o made
    /\ rows' = Append(rows, [line |-> Now.line,
                             address |-> IF origin = NoAddress THEN NoAddress
                                         ELSE origin + Len(words) + Len(made),
                             word_count |-> Len(made)])
    /\ next' = next + 1
    /\ UNCHANGED <<statements, origin, symbols, placed, phase>>

\* The row says where the statement began, whatever it made.
Emit(made) ==
    /\ words' = words \o made
    /\ rows' = Append(rows, [line |-> Now.line, address |-> current_addr,
                             word_count |-> Len(made)])
    /\ next' = next + 1
    /\ UNCHANGED <<statements, origin, symbols, placed, phase>>

Make(made)   == Emit(made) /\ UNCHANGED <<diagnostics, saw_end>>
Report       == /\ Emit(<<>>)
                /\ diagnostics' = diagnostics \cup {Now.line}
                /\ UNCHANGED saw_end
MakeIf(ok, word) == IF ok THEN Make(<<word>>) ELSE Report

\* Mutant of MakeRelative: the offset counts from the statement itself.
MakeRelative_NoIncrement(ok, half, base) ==
    LET name   == Upper[Now.operands[Len(Now.operands)].name]
        offset == symbols[name] - current_addr
    IN IF ~ok \/ name \notin DOMAIN symbols THEN Report
       ELSE IF current_addr = NoAddress THEN Make(<<>>)
       ELSE MakeIf(Fits(offset, half), base + (offset % (2 * half)))

\* get_offset9 and get_offset11.  Past the top of memory there is no current
\* address, and the statement is dropped without a diagnostic of its own.
MakeRelative(ok, half, base) ==
    LET name   == Upper[Now.operands[Len(Now.operands)].name]
        offset == symbols[name] - current_addr - 1
    IN IF ~ok \/ name \notin DOMAIN symbols THEN Report
       ELSE IF current_addr = NoAddress THEN Make(<<>>)
       ELSE MakeIf(Fits(offset, half), base + (offset % (2 * half)))

Encoding(ops) == /\ ~saw_end
                 /\ Now.operation \in ops

\* A label alone: `operation' is empty.
EncodeLabel == Encoding({""}) /\ Make(<<>>)

ReadEnd == Encoding({".END"}) /\ saw_end' = TRUE /\ Emit(<<>>) /\ UNCHANGED diagnostics

NestedOrigin == Encoding({".ORIG"}) /\ Report

AfterEnd == saw_end /\ Report

\* encode_fill of a number.
EncodeFill ==
    /\ Encoding({".FILL"})
    /\ ~Matches(Now, LABEL)
    /\ MakeIf(Matches(Now, NUMBER) /\ FitsWord(Field(1)), Field(1) % 65536)

\* encode_fill of a label.  u16::try_from(*addr).expect() panics when the
\* label stands one past the top of memory.
FillAddress == symbols[Upper[Now.operands[1].name]]

EncodeFillLabel ==
    /\ Encoding({".FILL"})
    /\ Matches(Now, LABEL)
    /\ LET known == Upper[Now.operands[1].name] \in DOMAIN symbols
       IN /\ known => FillAddress <= LAST_ADDRESS
          /\ MakeIf(known, FillAddress)

FillPanics ==
    /\ Encoding({".FILL"})
    /\ Matches(Now, LABEL)
    /\ Upper[Now.operands[1].name] \in DOMAIN symbols
    /\ FillAddress > LAST_ADDRESS
    /\ phase' = "panic"
    /\ UNCHANGED <<statements, origin, words, diagnostics, saw_end, symbols,
                   rows, placed, next>>

EncodeTrap ==
    /\ Encoding({"TRAP"})
    /\ MakeIf(Matches(Now, NUMBER) /\ Field(1) \in Byte,
              4096 * OP_TRAP + Field(1))

\* Two registers and a number for a field.
RegistersAndNumber(half) == /\ Matches(Now, <<"register", "register", "number">>)
                            /\ Fits(Field(3), half)

\* encode_imm5_op
EncodeOperate ==
    /\ Encoding({"ADD", "AND"})
    /\ LET op   == IF Now.operation = "ADD" THEN OP_ADD ELSE OP_AND
           base == 4096 * op + 512 * Field(1) + 64 * Field(2)
       IN IF Matches(Now, THREE_REGISTERS)
          THEN Make(<<base + Field(3)>>)
          ELSE MakeIf(RegistersAndNumber(16), base + 32 + (Field(3) % 32))

EncodeNot ==
    /\ Encoding({"NOT"})
    /\ MakeIf(Matches(Now, TWO_REGISTERS),
              4096 * OP_NOT + 512 * Field(1) + 64 * Field(2) + 63)

EncodeBr ==
    /\ Encoding(Branches)
    /\ MakeRelative(Matches(Now, LABEL), 256, 512 * BranchFlags(Now.operation))

Offset9Code(op) == CASE op = "LD"  -> OP_LD
                     [] op = "LDI" -> OP_LDI
                     [] op = "LEA" -> OP_LEA
                     [] op = "ST"  -> OP_ST
                     [] OTHER      -> OP_STI

\* encode_offset9_op
EncodeOffset9 ==
    /\ Encoding({"LD", "LDI", "LEA", "ST", "STI"})
    /\ MakeRelative(Matches(Now, <<"register", "ident">>), 256,
                    4096 * Offset9Code(Now.operation) + 512 * Field(1))

\* encode_offset6_op
EncodeOffset6 ==
    /\ Encoding({"LDR", "STR"})
    /\ MakeIf(RegistersAndNumber(32),
              4096 * (IF Now.operation = "LDR" THEN OP_LDR ELSE OP_STR)
              + 512 * Field(1) + 64 * Field(2) + (Field(3) % 64))

EncodeJmp ==
    /\ Encoding({"JMP", "JMPT"})
    /\ MakeIf(Matches(Now, ONE_REGISTER),
              4096 * OP_JMP + 64 * Field(1)
              + (IF Now.operation = "JMPT" THEN 1 ELSE 0))

EncodeRet ==
    /\ Encoding({"RET", "RTT"})
    /\ MakeIf(Matches(Now, <<>>),
              4096 * OP_JMP + 64 * 7 + (IF Now.operation = "RTT" THEN 1 ELSE 0))

EncodeJsr ==
    /\ Encoding({"JSR"})
    /\ MakeRelative(Matches(Now, LABEL), 1024, 4096 * OP_JSR + 2048)

EncodeJsrr ==
    /\ Encoding({"JSRR"})
    /\ MakeIf(Matches(Now, ONE_REGISTER), 4096 * OP_JSR + 64 * Field(1))

EncodeRti ==
    /\ Encoding({"RTI"})
    /\ MakeIf(Matches(Now, <<>>), 4096 * OP_RTI)

\* Mutant of EncodeBlkw: one word whatever the operand.
EncodeBlkw_One ==
    /\ Encoding({".BLKW"})
    /\ IF IsAddress(Now) THEN Make(<<0>>) ELSE Report

EncodeBlkw ==
    /\ Encoding({".BLKW"})
    /\ IF IsAddress(Now) THEN Make([i \in 1 .. Field(1) |-> 0]) ELSE Report

\* Which bytes the text has is left out: each is an A.
EncodeStringz ==
    /\ Encoding({".STRINGZ"})
    /\ IF IsText(Now) /\ Now.operands[1].ascii
       THEN Make([i \in 1 .. Field(1) + 1 |-> IF i > Field(1) THEN 0 ELSE 65])
       ELSE Report

TrapCode(op) == CASE op = "GETC"  -> 32
                  [] op = "OUT"   -> 33
                  [] op = "PUTS"  -> 34
                  [] op = "IN"    -> 35
                  [] op = "PUTSP" -> 36
                  [] OTHER        -> 37

\* encode_reserved
EncodeReserved ==
    /\ Encoding(Traps)
    /\ MakeIf(Matches(Now, <<>>), 4096 * OP_TRAP + TrapCode(Now.operation))

EncodeStatement ==
    /\ phase = "encode"
    /\ next <= Len(statements)
    /\ \/ EncodeLabel \/ ReadEnd \/ NestedOrigin \/ AfterEnd
       \/ EncodeFill \/ EncodeFillLabel \/ FillPanics \/ EncodeTrap
       \/ EncodeOperate \/ EncodeNot \/ EncodeBr \/ EncodeOffset9
       \/ EncodeOffset6 \/ EncodeJmp \/ EncodeRet \/ EncodeJsr \/ EncodeJsrr
       \/ EncodeRti \/ EncodeBlkw \/ EncodeStringz \/ EncodeReserved

Finish ==
    /\ phase = "encode"
    /\ next > Len(statements)
    /\ phase' = "done"
    /\ UNCHANGED <<statements, origin, words, diagnostics, saw_end, symbols,
                   rows, placed, next>>

EncoderNext == ReadNoOrigin \/ ReadOrigin \/ CountStatement \/ EncodeStatement \/ Finish
=============================================================================
