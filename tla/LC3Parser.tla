----------------------------- MODULE LC3Parser -----------------------------
(***************************************************************************)
(* sw/crates/lc3-asm: from the tokens of a source text to its statements.  *)
(* A source is the sequence of its lines that are not empty, each with its *)
(* line number and its tokens.  Names are values with an upper case form,  *)
(* text of a string literal is its length in bytes and whether it is       *)
(* ASCII.  Commas between operands mean nothing and are left out.          *)
(***************************************************************************)
EXTENDS Integers, Sequences

CONSTANTS
    Names,      \* identifiers and mnemonics that occur in sources
    Upper       \* to_ascii_uppercase on them

ASSUME NamesAssumption == Upper \in [Names -> Names] /\ "" \notin Names

Ident(n)     == [token |-> "ident",    name |-> n,  number |-> 0, ascii |-> TRUE]
Register(r)  == [token |-> "register", name |-> "", number |-> r, ascii |-> TRUE]
Number(i)    == [token |-> "number",   name |-> "", number |-> i, ascii |-> TRUE]
Text(len, a) == [token |-> "string",   name |-> "", number |-> len, ascii |-> a]
Unexpected   == [token |-> "error",    name |-> "", number |-> 0, ascii |-> TRUE]

Kinds == {"ident", "register", "number", "string", "error"}

Token == {t \in [token : Kinds, name : Names \cup {""}, number : Int, ascii : BOOLEAN] :
            /\ t.token = "ident" => t.name \in Names
            /\ t.token = "register" => t.number \in 0 .. 7
            /\ t.token = "string" => t.number >= 0}

SourceLine == [line : Nat, tokens : Seq(Token) \ {<<>>}]

\* The condition codes that a BR mnemonic names: N 4, Z 2, P 1.
BranchFlags(op) ==
    CASE op \in {"BR", "BRNZP"} -> 7
      [] op = "BRN"  -> 4
      [] op = "BRNZ" -> 6
      [] op = "BRNP" -> 5
      [] op = "BRZ"  -> 2
      [] op = "BRZP" -> 3
      [] OTHER       -> 1

Branches   == {"BR", "BRNZP", "BRN", "BRNZ", "BRNP", "BRZ", "BRZP", "BRP"}
Traps      == {"GETC", "OUT", "PUTS", "IN", "PUTSP", "HALT"}
WordWise   == Branches \cup Traps \cup
              {"ADD", "AND", "NOT", "TRAP", ".FILL", "LD", "LDI", "LDR", "LEA",
               "ST", "STI", "STR", "JMP", "JMPT", "RET", "RTT", "JSR", "JSRR",
               "RTI"}
Operations == WordWise \cup {".ORIG", ".END", ".BLKW", ".STRINGZ"}

\* A statement without a label, or without an operation, has "" there.
IsOperation(tokens, i) == /\ i <= Len(tokens)
                          /\ tokens[i].token = "ident"
                          /\ Upper[tokens[i].name] \in Operations

\* A line is a label alone, or an operation with or without a label.
Malformed(tokens) ==
    \/ tokens[1].token # "ident"
    \/ /\ ~IsOperation(tokens, 1)
       /\ Len(tokens) > 1
       /\ ~IsOperation(tokens, 2)

ParseStatement(text) ==
    LET tokens == text.tokens
        Parsed(label, op, first) ==
            [line |-> text.line, label |-> label, operation |-> op,
             operands |-> SubSeq(tokens, first, Len(tokens))]
    IN IF IsOperation(tokens, 1)
       THEN Parsed("", Upper[tokens[1].name], 2)
       ELSE IF Len(tokens) = 1
            THEN Parsed(tokens[1].name, "", 2)
            ELSE Parsed(tokens[1].name, Upper[tokens[2].name], 3)

\* tokenize and parse_source stop at the first line that is wrong.
Parses(source) ==
    \A k \in DOMAIN source :
       /\ \A t \in DOMAIN source[k].tokens :
             source[k].tokens[t].token # "error"
       /\ ~Malformed(source[k].tokens)

ParseSource(source) == [k \in DOMAIN source |-> ParseStatement(source[k])]
=============================================================================
