-------------------------- MODULE LC3DesktopProofs --------------------------
(***************************************************************************)
(* The assembler, for every source and every way of opening files: its two *)
(* passes agree, no label lies farther out than one word past the top of   *)
(* memory, and the listing covers the image.  What the first pass counted  *)
(* is an induction over the statements that were counted (Counted); the    *)
(* second pass uses it at every statement, because whatever it does with a *)
(* statement it makes as many words as were counted, or complains          *)
(* (StatementEmits), and after a complaint nothing is promised.            *)
(*                                                                         *)
(* Then what the words are: the operands of a statement are read back from *)
(* the fields they were packed into (StatementDecodes), for every row made *)
(* so far (Decoded).  And what the desktop does with them: the rows share  *)
(* out the words of their image (RowsShare), the images that were loaded   *)
(* stay in memory as they were (MemoryInv), and the source view finds them *)
(* there, each address by one row.                                         *)
(***************************************************************************)
EXTENDS LC3Desktop, TLAPS, SequenceTheorems

\* A sequence, of whatever.
IsSeq(s) == s \in Seq({s[i] : i \in DOMAIN s})

\* A sequence over any set is one.
LEMMA AnySeq ==
  ASSUME NEW S, NEW s \in Seq(S)
  PROVE  IsSeq(s)
  BY DEF IsSeq

\* The sequence of words, rows or statements that is there at first.
LEMMA EmptyIsSeq == IsSeq(<<>>) /\ Len(<<>>) = 0
  BY EmptySeq, AnySeq

\* The length and the domain of a sequence.
LEMMA SeqShape ==
  ASSUME NEW s, IsSeq(s)
  PROVE  Len(s) \in Nat /\ DOMAIN s = 1 .. Len(s)
  BY LenProperties DEF IsSeq

\* The words of a statement are put behind those made so far.
LEMMA ConcatShape ==
  ASSUME NEW s, IsSeq(s), NEW t, IsSeq(t)
  PROVE  /\ IsSeq(s \o t)
         /\ Len(s \o t) = Len(s) + Len(t)
         /\ \A i \in 1 .. Len(s) : (s \o t)[i] = s[i]
  <1> DEFINE S == {s[i] : i \in DOMAIN s} \cup {t[i] : i \in DOMAIN t}
  <1>1. s \in Seq(S) /\ t \in Seq(S)
    <2>1. s \in Seq({s[i] : i \in DOMAIN s}) /\ t \in Seq({t[i] : i \in DOMAIN t})
      BY DEF IsSeq
    <2>2. {s[i] : i \in DOMAIN s} \subseteq S /\ {t[i] : i \in DOMAIN t} \subseteq S
      OBVIOUS
    <2> HIDE DEF S
    <2> QED BY <2>1, <2>2, SeqMonotonic
  <1> HIDE DEF S
  <1>2. s \o t \in Seq(S) /\ Len(s \o t) = Len(s) + Len(t)
    BY <1>1, ConcatProperties
  <1>3. Len(s) \in Nat /\ Len(t) \in Nat
    BY SeqShape
  <1>4. \A i \in 1 .. Len(s) : (s \o t)[i] = s[i]
    BY <1>1, <1>3, ConcatProperties
  <1> QED BY <1>2, <1>4, AnySeq

\* A single word that is put behind the others is the last.
LEMMA LastWord ==
  ASSUME NEW s, IsSeq(s), NEW w
  PROVE  (s \o <<w>>)[Len(s) + 1] = w
  <1> DEFINE S == {s[i] : i \in DOMAIN s} \cup {w}
  <1>1. s \in Seq(S) /\ <<w>> \in Seq(S) /\ Len(<<w>>) = 1 /\ <<w>>[1] = w
    <2>1. s \in Seq({s[i] : i \in DOMAIN s}) /\ {s[i] : i \in DOMAIN s} \subseteq S
      BY DEF IsSeq
    <2>2. <<w>> \in Seq(S)
      OBVIOUS
    <2> HIDE DEF S
    <2> QED BY <2>1, <2>2, SeqMonotonic
  <1> HIDE DEF S
  <1> PICK n \in Nat : n = Len(s)
    BY SeqShape
  <1>2. n + 1 \in 1 .. Len(s) + Len(<<w>>) /\ n + 1 > Len(s) /\ n + 1 - Len(s) = 1
    BY <1>1
  <1>3. (s \o <<w>>)[n + 1] = <<w>>[n + 1 - Len(s)]
    BY <1>1, <1>2, ConcatProperties
  <1> QED BY <1>1, <1>2, <1>3

\* A row, or an address, is put behind those there are.
LEMMA AppendShape ==
  ASSUME NEW s, IsSeq(s), NEW e
  PROVE  /\ IsSeq(Append(s, e))
         /\ Len(Append(s, e)) = Len(s) + 1
         /\ \A i \in 1 .. Len(s) : Append(s, e)[i] = s[i]
         /\ Append(s, e)[Len(s) + 1] = e
  <1> DEFINE S == {s[i] : i \in DOMAIN s} \cup {e}
  <1>1. s \in Seq(S) /\ e \in S
    <2>1. s \in Seq({s[i] : i \in DOMAIN s})
      BY DEF IsSeq
    <2>2. {s[i] : i \in DOMAIN s} \subseteq S
      OBVIOUS
    <2>3. s \in Seq(S)
      <3> HIDE DEF S
      <3> QED BY <2>1, <2>2, SeqMonotonic
    <2> QED BY <2>3
  <1> HIDE DEF S
  <1>2. /\ Append(s, e) \in Seq(S)
        /\ Len(Append(s, e)) = Len(s) + 1
        /\ \A i \in 1 .. Len(s) : Append(s, e)[i] = s[i]
        /\ Append(s, e)[Len(s) + 1] = e
    BY <1>1, AppendProperties
  <1> QED BY <1>2, AnySeq

\* The words of .BLKW and of .STRINGZ, in their number.
LEMMA TabulatedShape ==
  ASSUME NEW n \in Nat
  PROVE  /\ IsSeq([i \in 1 .. n |-> 0])
         /\ Len([i \in 1 .. n |-> 0]) = n
         /\ IsSeq([i \in 1 .. n + 1 |-> IF i > n THEN 0 ELSE 65])
         /\ Len([i \in 1 .. n + 1 |-> IF i > n THEN 0 ELSE 65]) = n + 1
  <1>1. /\ [i \in 1 .. n |-> 0] \in Seq(Nat)
        /\ Len([i \in 1 .. n |-> 0]) = n
    OBVIOUS
  <1>2. /\ [i \in 1 .. n + 1 |-> IF i > n THEN 0 ELSE 65] \in Seq(Nat)
        /\ Len([i \in 1 .. n + 1 |-> IF i > n THEN 0 ELSE 65]) = n + 1
    OBVIOUS
  <1>3. IsSeq([i \in 1 .. n |-> 0])
    BY <1>1, AnySeq
  <1>4. IsSeq([i \in 1 .. n + 1 |-> IF i > n THEN 0 ELSE 65])
    BY <1>2, AnySeq
  <1> QED BY <1>1, <1>2, <1>3, <1>4
-----------------------------------------------------------------------------
\* A program, of which the operands are tokens.
Statements(s) == /\ IsSeq(s)
                 /\ \A i \in 1 .. Len(s) : s[i].operands \in Seq(Token)

\* No address and no label is more than one word past the top of memory.
AddressesBounded ==
    /\ IsSeq(placed)
    /\ \A i \in 1 .. Len(placed) : placed[i] \in Nat /\ placed[i] <= LAST_ADDRESS + 1
    /\ \A n \in DOMAIN symbols : symbols[n] \in Nat /\ symbols[n] <= LAST_ADDRESS + 1

\* Nothing is left of the encoder before.
NothingRead == phase = "origin" =>
    /\ words = <<>>
    /\ diagnostics = {}

\* During the first pass only the row of .ORIG is there.
FirstPass == phase = "symbols" =>
    /\ StartsWithOrigin
    /\ origin \in Word
    /\ words = <<>>
    /\ next = 2
    /\ rows = <<[line |-> statements[1].line, address |-> origin, word_count |-> 0]>>
    /\ Len(placed) \in 1 .. Len(statements)
    /\ placed[1] = origin

\* What the first pass found out about the statements before the n-th.
Counted(n) ==
    \A i \in 1 .. n - 1 :
       /\ placed[i + 1] = placed[i] + WordCount(statements[i])
       /\ statements[i].label # "" =>
             /\ Upper[statements[i].label] \in DOMAIN symbols
             /\ symbols[Upper[statements[i].label]] = placed[i]

\* Every place is counted, until something is complained of.
PlacesCounted == phase \in {"symbols", "encode", "done"} /\ diagnostics = {}
                 => Counted(Len(placed))

\* The second pass is where the first one expected it.
SecondPass == phase \in {"encode", "done"} /\ diagnostics = {} =>
    /\ origin \in Word
    /\ IsSeq(words)
    /\ Len(placed) = Len(statements) + 1
    /\ next \in 2 .. Len(statements) + 1
    /\ origin + Len(words) = placed[next]
    /\ phase = "done" => next = Len(statements) + 1

\* The rows so far cover the words so far.
RowsCover == phase \in {"encode", "done"} /\ diagnostics = {} =>
    /\ IsSeq(rows)
    /\ Len(rows) = next - 1
    /\ RowStart(1) = origin
    /\ \A k \in 1 .. Len(rows) - 1 : RowStart(k + 1) = RowEnd(k)
    /\ RowEnd(Len(rows)) = origin + Len(words)

EncoderInv == /\ Statements(statements)
              /\ next \in Nat \ {0}
              /\ AddressesBounded
              /\ NothingRead
              /\ FirstPass
              /\ PlacesCounted
              /\ SecondPass
              /\ RowsCover
              /\ PanicsOnlyAtTop
-----------------------------------------------------------------------------
\* What the second pass does to the words and the listing, whatever the
\* statement: it makes a row, and it complains or makes n words.
Emits(n) ==
    \E made : /\ IsSeq(made)
              /\ Emit(made)
              /\ diagnostics \subseteq diagnostics'
              /\ diagnostics' = {} => Len(made) = n

\* The top of memory is a number, which is all most steps need to know of it.
LEMMA LastAddress == LAST_ADDRESS \in Nat
  BY DEF LAST_ADDRESS

\* The same of a word.
LEMMA WordIsNat == ASSUME NEW w \in Word PROVE w \in Nat
  BY DEF Word

\* A complaint makes a row and no words, and whatever was promised is excused.
LEMMA ReportEmits ==
  ASSUME Report, NEW n
  PROVE  Emits(n)
  <1>1. IsSeq(<<>>)
    BY EmptyIsSeq
  <1>2. Emit(<<>>) /\ diagnostics \subseteq diagnostics' /\ diagnostics' # {}
    BY DEF Report
  <1> HIDE DEF Emit
  <1> QED BY <1>1, <1>2 DEF Emits

\* Words that are made are as many as they are.
LEMMA MakeEmits ==
  ASSUME NEW made, IsSeq(made), Make(made)
  PROVE  Emits(Len(made))
  BY DEF Make, Emits

\* A single word.
LEMMA OneWordEmits ==
  ASSUME NEW w, Make(<<w>>)
  PROVE  Emits(1)
  <1>1. <<w>> \in Seq({w}) /\ Len(<<w>>) = 1
    OBVIOUS
  <1> QED BY <1>1, AnySeq, MakeEmits

\* One word, or a complaint.
LEMMA MakeIfEmits ==
  ASSUME NEW ok, NEW w, MakeIf(ok, w)
  PROVE  Emits(1)
  <1>1. CASE ok
    BY <1>1, OneWordEmits DEF MakeIf
  <1>2. CASE ~ok
    BY <1>2, ReportEmits DEF MakeIf
  <1> QED BY <1>1, <1>2

\* Where a word is still to be put down there is an address for it.
LEMMA RoomForWord ==
  ASSUME Statements(statements), AddressesBounded, PlacesCounted, SecondPass,
         phase = "encode", diagnostics = {}, next <= Len(statements), WordCount(Now) = 1
  PROVE  /\ current_addr = origin + Len(words)
         /\ current_addr = placed[next]
         /\ current_addr \in Nat
         /\ current_addr <= LAST_ADDRESS
         /\ current_addr # NoAddress
  <1>1. /\ origin \in Word /\ Len(words) \in Nat
        /\ Len(placed) = Len(statements) + 1
        /\ next \in 2 .. Len(statements) + 1
        /\ origin + Len(words) = placed[next]
    BY SeqShape DEF SecondPass
  <1>2. Len(placed) \in Nat /\ Len(statements) \in Int
    BY SeqShape DEF AddressesBounded, Statements
  <1>3. Counted(Len(placed))
    BY DEF PlacesCounted
  <1>4. next \in 1 .. Len(placed) - 1 /\ next + 1 \in 1 .. Len(placed)
    BY <1>1, <1>2
  <1>5. placed[next + 1] = placed[next] + 1
    BY <1>3, <1>4 DEF Counted, Now
  <1>6. placed[next] \in Nat /\ placed[next + 1] <= LAST_ADDRESS + 1
    BY <1>2, <1>4 DEF AddressesBounded
  <1>7. origin + Len(words) <= LAST_ADDRESS /\ origin \in Nat
    BY <1>1, <1>5, <1>6, LastAddress, WordIsNat
  <1> QED BY <1>1, <1>7 DEF current_addr, NoAddress

\* Past the top of memory a PC-relative statement would be dropped silently,
\* but the first pass has complained by then.
LEMMA MakeRelativeEmits ==
  ASSUME NEW ok, NEW half, NEW base, MakeRelative(ok, half, base),
         Statements(statements), AddressesBounded, PlacesCounted, SecondPass,
         phase = "encode", next <= Len(statements),
         WordCount(Now) = 1
  PROVE  Emits(1)
  <1> DEFINE name   == Upper[Now.operands[Len(Now.operands)].name]
             offset == symbols[name] - current_addr - 1
  <1>1. CASE ~ok \/ name \notin DOMAIN symbols
    BY <1>1, ReportEmits DEF MakeRelative
  <1>2. CASE ~(~ok \/ name \notin DOMAIN symbols) /\ current_addr # NoAddress
    <2>1. MakeIf(Fits(offset, half), base + (offset % (2 * half)))
      BY <1>2 DEF MakeRelative
    <2> HIDE DEF offset
    <2> QED BY <2>1, MakeIfEmits
  <1>3. CASE ~(~ok \/ name \notin DOMAIN symbols) /\ current_addr = NoAddress
    <2>1. Make(<<>>)
      BY <1>3 DEF MakeRelative
    <2>2. diagnostics # {}
      <3> HIDE DEF name, offset
      <3> SUFFICES ASSUME diagnostics = {} PROVE FALSE
        OBVIOUS
      <3> QED BY <1>3, RoomForWord
    <2>3. IsSeq(<<>>) /\ Emit(<<>>) /\ diagnostics' # {} /\ diagnostics \subseteq diagnostics'
      BY <2>1, <2>2, EmptyIsSeq DEF Make
    <2> QED BY <2>3 DEF Emits
  <1> QED BY <1>1, <1>2, <1>3

\* An instruction, a trap and a .FILL take one word.
LEMMA CountOfWordWise ==
  ASSUME NEW s, s.operation \in WordWise
  PROVE  WordCount(s) = 1
  BY DEF WordCount, WordWise, Branches, Traps

\* Apart from these only .BLKW and .STRINGZ take words.
LEMMA CountOfOthers ==
  ASSUME NEW s, s.operation \notin WordWise \cup {".BLKW", ".STRINGZ"}
  PROVE  WordCount(s) = 0
  BY DEF WordCount

\* A label alone, .ORIG and .END take no words.
LEMMA CountOfNothing ==
  ASSUME NEW s, s.operation = "" \/ s.operation = ".ORIG" \/ s.operation = ".END"
  PROVE  WordCount(s) = 0
  <1>1. /\ s.operation \notin Branches
        /\ s.operation \notin Traps
        /\ s.operation # ".BLKW"
        /\ s.operation # ".STRINGZ"
    BY DEF Branches, Traps
  <1>2. s.operation \notin WordWise
    BY <1>1 DEF WordWise
  <1> QED BY <1>1, <1>2, CountOfOthers

\* A .BLKW takes as many words as it says.
LEMMA CountOfBlkw ==
  ASSUME NEW s, s.operation = ".BLKW", IsAddress(s)
  PROVE  WordCount(s) = s.operands[1].number /\ WordCount(s) \in Nat
  <1>1. s.operands[1].number \in Nat
    BY WordIsNat DEF IsAddress
  <1>2. WordCount(s) = s.operands[1].number
    BY DEF WordCount
  <1> QED BY <1>1, <1>2

\* A .STRINGZ takes a word for each byte and one more.
LEMMA CountOfStringz ==
  ASSUME NEW s, s.operation = ".STRINGZ", s.operands \in Seq(Token), IsText(s)
  PROVE  /\ s.operands[1].number \in Nat
         /\ WordCount(s) = s.operands[1].number + 1
  <1>1. s.operands[1] \in Token /\ s.operands[1].token = "string"
    BY DEF IsText, Matches, STRING_LITERAL
  <1>2. s.operands[1].number \in Int
    BY <1>1 DEF Token
  <1>3. s.operands[1].number >= 0
    BY <1>1 DEF Token
  <1>4. WordCount(s) = s.operands[1].number + 1
    BY DEF WordCount
  <1> QED BY <1>2, <1>3, <1>4

\* No count is negative.
LEMMA CountIsNat ==
  ASSUME NEW s, s.operands \in Seq(Token)
  PROVE  WordCount(s) \in Nat
  <1>1. CASE s.operation = ".BLKW" /\ IsAddress(s)
    BY <1>1, CountOfBlkw
  <1>2. CASE s.operation = ".STRINGZ" /\ IsText(s)
    BY <1>2, CountOfStringz
  <1>3. CASE ~(s.operation = ".BLKW" /\ IsAddress(s)) /\ ~(s.operation = ".STRINGZ" /\ IsText(s))
    BY <1>3 DEF WordCount
  <1> QED BY <1>1, <1>2, <1>3

\* Whatever a statement is, the second pass makes the words of it that the
\* first pass counted, or complains.
LEMMA StatementEmits ==
  ASSUME EncoderInv, EncodeStatement, ~FillPanics
  PROVE  Emits(WordCount(Now))
  <1>1. /\ phase = "encode"
        /\ next <= Len(statements)
    BY DEF EncodeStatement
  <1>2. Now.operands \in Seq(Token)
    BY <1>1, SeqShape DEF EncoderInv, Statements, Now
  <1> USE DEF Encoding
  <1>3. ASSUME NEW ok, NEW w, MakeIf(ok, w), Now.operation \in WordWise
        PROVE  Emits(WordCount(Now))
    <2>1. Emits(1)
      BY <1>3, MakeIfEmits
    <2> QED BY <2>1, <1>3, CountOfWordWise
  <1>4. ASSUME NEW ok, NEW half, NEW base, MakeRelative(ok, half, base),
               Now.operation \in WordWise
        PROVE  Emits(WordCount(Now))
    <2>1. WordCount(Now) = 1
      BY <1>4, CountOfWordWise
    <2>2. Emits(1)
      BY <1>1, <1>4, <2>1, MakeRelativeEmits DEF EncoderInv
    <2> QED BY <2>1, <2>2
  <1>5. CASE EncodeLabel
    <2>1. Now.operation = "" /\ Make(<<>>)
      BY <1>5 DEF EncodeLabel
    <2>2. WordCount(Now) = 0
      BY <2>1, CountOfNothing
    <2>3. Emits(Len(<<>>))
      BY <2>1, MakeEmits, EmptyIsSeq
    <2> QED BY <2>2, <2>3, EmptyIsSeq
  <1>6. CASE ReadEnd
    <2>1. Now.operation = ".END" /\ Emit(<<>>) /\ diagnostics' = diagnostics
      BY <1>6 DEF ReadEnd
    <2>2. WordCount(Now) = 0
      BY <2>1, CountOfNothing
    <2> HIDE DEF Emit
    <2> QED BY <2>1, <2>2, EmptyIsSeq DEF Emits
  <1>7. CASE NestedOrigin \/ AfterEnd
    BY <1>7, ReportEmits DEF NestedOrigin, AfterEnd
  <1>8. CASE EncodeFill
    BY <1>3, <1>8 DEF EncodeFill, WordWise
  <1>9. CASE EncodeFillLabel
    BY <1>3, <1>9 DEF EncodeFillLabel, WordWise
  <1>10. CASE EncodeTrap
    BY <1>3, <1>10 DEF EncodeTrap, WordWise
  <1>11. CASE EncodeNot
    BY <1>3, <1>11 DEF EncodeNot, WordWise
  <1>12. CASE EncodeBr
    BY <1>4, <1>12 DEF EncodeBr, WordWise
  <1>13. CASE EncodeOffset9
    BY <1>4, <1>13 DEF EncodeOffset9, WordWise
  <1>14. CASE EncodeOffset6
    BY <1>3, <1>14 DEF EncodeOffset6, WordWise
  <1>15. CASE EncodeJmp
    BY <1>3, <1>15 DEF EncodeJmp, WordWise
  <1>16. CASE EncodeRet
    BY <1>3, <1>16 DEF EncodeRet, WordWise
  <1>17. CASE EncodeJsr
    BY <1>4, <1>17 DEF EncodeJsr, WordWise
  <1>18. CASE EncodeJsrr
    BY <1>3, <1>18 DEF EncodeJsrr, WordWise
  <1>19. CASE EncodeRti
    BY <1>3, <1>19 DEF EncodeRti, WordWise
  <1>20. CASE EncodeReserved
    BY <1>3, <1>20 DEF EncodeReserved, WordWise
  <1>21. CASE EncodeOperate
    <2>1. Now.operation \in WordWise
      BY <1>21 DEF EncodeOperate, WordWise
    <2>2. CASE Matches(Now, THREE_REGISTERS)
      <3>1. Emits(1)
        BY <1>21, <2>2, OneWordEmits DEF EncodeOperate
      <3> QED BY <2>1, <3>1, CountOfWordWise
    <2>3. CASE ~Matches(Now, THREE_REGISTERS)
      BY <1>3, <1>21, <2>1, <2>3 DEF EncodeOperate
    <2> QED BY <2>2, <2>3
  <1>22. CASE EncodeBlkw
    <2>1. CASE IsAddress(Now)
      <3>1. WordCount(Now) = Field(1) /\ Field(1) \in Nat
        <4>1. Now.operation = ".BLKW"
          BY <1>22 DEF EncodeBlkw
        <4> QED BY <2>1, <4>1, CountOfBlkw DEF Field
      <3>2. Make([i \in 1 .. Field(1) |-> 0])
        BY <1>22, <2>1 DEF EncodeBlkw
      <3>3. Emits(Len([i \in 1 .. Field(1) |-> 0]))
        BY <3>1, <3>2, TabulatedShape, MakeEmits
      <3> QED BY <3>1, <3>3, TabulatedShape
    <2>2. CASE ~IsAddress(Now)
      BY <1>22, <2>2, ReportEmits DEF EncodeBlkw
    <2> QED BY <2>1, <2>2
  <1>23. CASE EncodeStringz
    <2> DEFINE made == [i \in 1 .. Field(1) + 1 |-> IF i > Field(1) THEN 0 ELSE 65]
    <2>1. CASE IsText(Now) /\ Now.operands[1].ascii
      <3>1. Now.operation = ".STRINGZ"
        BY <1>23 DEF EncodeStringz
      <3>2. Field(1) \in Nat /\ WordCount(Now) = Field(1) + 1
        BY <1>2, <2>1, <3>1, CountOfStringz DEF Field
      <3>5. Make(made)
        BY <1>23, <2>1 DEF EncodeStringz
      <3>6. IsSeq(made) /\ Len(made) = Field(1) + 1
        BY <3>2, TabulatedShape
      <3> HIDE DEF made
      <3> QED BY <3>2, <3>5, <3>6, MakeEmits
    <2>2. CASE ~(IsText(Now) /\ Now.operands[1].ascii)
      BY <1>23, <2>2, ReportEmits DEF EncodeStringz
    <2> QED BY <2>1, <2>2
  <1> QED BY <1>5, <1>6, <1>7, <1>8, <1>9, <1>10, <1>11, <1>12, <1>13, <1>14, <1>15,
             <1>16, <1>17, <1>18, <1>19, <1>20, <1>21, <1>22, <1>23 DEF EncodeStatement
-----------------------------------------------------------------------------
\* Without .ORIG there is a complaint, and nothing to promise.
LEMMA ReadNoOriginKeeps ==
  ASSUME EncoderInv, ReadNoOrigin
  PROVE  EncoderInv'
  <1>1. /\ diagnostics' # {} /\ phase' = "encode"
        /\ UNCHANGED <<statements, symbols, placed, next>>
    BY DEF ReadNoOrigin
  <1>2. Statements(statements)' /\ (next \in Nat \ {0})' /\ AddressesBounded'
    BY <1>1 DEF EncoderInv, Statements, AddressesBounded
  <1> QED BY <1>1, <1>2 DEF EncoderInv, NothingRead, FirstPass, PlacesCounted,
                            SecondPass, RowsCover, PanicsOnlyAtTop

\* An .ORIG that is read is the place of the first statement.
LEMMA ReadOriginKeeps ==
  ASSUME EncoderInv, ReadOrigin
  PROVE  EncoderInv'
  <1> DEFINE s == statements[1]
             found == IsAddress(s)
             first == IF found THEN s.operands[1].number ELSE NoAddress
  <1>1. /\ phase = "origin" /\ StartsWithOrigin
        /\ origin' = first
        /\ rows' = <<[line |-> s.line, address |-> first, word_count |-> 0]>>
        /\ diagnostics' = IF found THEN {} ELSE {s.line}
        /\ placed' = IF found THEN <<first>> ELSE <<>>
        /\ phase' = IF found THEN "symbols" ELSE "encode"
        /\ next' = 2
        /\ UNCHANGED <<statements, words, saw_end, symbols>>
    BY DEF ReadOrigin
  <1>2. Statements(statements)' /\ (next \in Nat \ {0})'
    BY <1>1 DEF EncoderInv, Statements
  <1>3. words = <<>>
    BY <1>1 DEF EncoderInv, NothingRead
  <1>4. \A n \in DOMAIN symbols' : symbols'[n] \in Nat /\ symbols'[n] <= LAST_ADDRESS + 1
    BY <1>1 DEF EncoderInv, AddressesBounded
  <1>5. CASE found
    <2>1. first \in Word /\ first \in Nat /\ first <= LAST_ADDRESS + 1
      BY <1>5 DEF IsAddress, Word, LAST_ADDRESS
    <2>2. placed' = <<first>> /\ diagnostics' = {} /\ phase' = "symbols"
      BY <1>1, <1>5
    <2> HIDE DEF first, found
    <2>3. <<first>> \in Seq({first}) /\ Len(<<first>>) = 1 /\ <<first>>[1] = first
      OBVIOUS
    <2>4. IsSeq(placed)' /\ Len(placed') = 1 /\ placed'[1] = first
      BY <2>2, <2>3, AnySeq
    <2>5. AddressesBounded'
      BY <1>4, <2>1, <2>4 DEF AddressesBounded
    <2>6. Len(statements) \in Nat /\ Len(statements) >= 1
      BY <1>1, SeqShape, EmptySeq DEF StartsWithOrigin, EncoderInv, Statements, IsSeq
    <2>7. FirstPass'
      BY <1>1, <1>3, <2>1, <2>4, <2>6 DEF FirstPass, StartsWithOrigin
    <2>8. PlacesCounted'
      <3>1. \A i \in 1 .. Len(placed') - 1 : FALSE
        BY <2>4
      <3> QED BY <3>1 DEF PlacesCounted, Counted
    <2> QED BY <1>2, <2>2, <2>5, <2>7, <2>8 DEF EncoderInv, NothingRead, SecondPass,
                                              RowsCover, PanicsOnlyAtTop
  <1>6. CASE ~found
    <2>1. placed' = <<>> /\ diagnostics' # {} /\ phase' = "encode"
      BY <1>1, <1>6
    <2>2. AddressesBounded'
      BY <1>4, <2>1, EmptyIsSeq DEF AddressesBounded
    <2> QED BY <1>2, <2>1, <2>2 DEF EncoderInv, NothingRead, FirstPass, PlacesCounted,
                                   SecondPass, RowsCover, PanicsOnlyAtTop
  <1> QED BY <1>5, <1>6

\* The first pass: statement i is counted.
LEMMA CountStatementKeeps ==
  ASSUME EncoderInv, CountStatement
  PROVE  EncoderInv'
  <1> DEFINE i     == Len(placed)
             s     == statements[i]
             count == WordCount(s)
             over  == Overflows(placed[i], count)
             after == IF over THEN LAST_ADDRESS ELSE placed[i] + count
  <1>1. /\ phase = "symbols"
        /\ symbols' = IF IsNewLabel(s)
                      THEN [n \in DOMAIN symbols \cup {Upper[s.label]} |->
                              IF n = Upper[s.label] THEN placed[i] ELSE symbols[n]]
                      ELSE symbols
        /\ diagnostics' = IF over \/ (s.label # "" /\ ~IsNewLabel(s))
                          THEN diagnostics \cup {s.line} ELSE diagnostics
        /\ placed' = Append(placed, after)
        /\ phase' = IF i = Len(statements) THEN "encode" ELSE phase
    BY DEF CountStatement
  <1>1a. /\ statements' = statements /\ origin' = origin /\ words' = words
        /\ rows' = rows /\ next' = next
    BY DEF CountStatement
  <1>2. Statements(statements)' /\ (next \in Nat \ {0})'
    BY <1>1a DEF EncoderInv, Statements
  <1>3. /\ StartsWithOrigin /\ origin \in Word /\ words = <<>> /\ next = 2
        /\ rows = <<[line |-> statements[1].line, address |-> origin, word_count |-> 0]>>
        /\ i \in 1 .. Len(statements) /\ placed[1] = origin
        /\ Len(statements) \in Nat
    BY <1>1, SeqShape DEF EncoderInv, FirstPass, Statements
  <1>4. IsSeq(placed) /\ placed[i] \in Nat /\ placed[i] <= LAST_ADDRESS + 1
    BY <1>3 DEF EncoderInv, AddressesBounded
  <1>5. count \in Nat
    BY <1>3, CountIsNat DEF EncoderInv, Statements
  <1>6. after \in Nat /\ after <= LAST_ADDRESS + 1
    <2> HIDE DEF count
    <2> QED BY <1>4, <1>5, LastAddress DEF Overflows
  <1>7. /\ IsSeq(placed') /\ Len(placed') = i + 1
        /\ \A j \in 1 .. i : placed'[j] = placed[j]
        /\ placed'[i + 1] = after
    <2> HIDE DEF after
    <2> QED BY <1>1, <1>4, AppendShape
  <1> HIDE DEF count, after
  <1>8. AddressesBounded'
    <2>1. \A j \in 1 .. Len(placed') : placed'[j] \in Nat /\ placed'[j] <= LAST_ADDRESS + 1
      BY <1>3, <1>6, <1>7 DEF EncoderInv, AddressesBounded
    <2>2. \A n \in DOMAIN symbols' : symbols'[n] \in Nat /\ symbols'[n] <= LAST_ADDRESS + 1
      BY <1>1, <1>4 DEF EncoderInv, AddressesBounded
    <2> QED BY <1>7, <2>1, <2>2 DEF AddressesBounded
  <1>9. PlacesCounted'
    <2> SUFFICES ASSUME diagnostics' = {} PROVE Counted(Len(placed))'
      BY DEF PlacesCounted
    <2>0. Len(placed') - 1 = i /\ statements' = statements
      BY <1>1a, <1>3, <1>7
    <2> SUFFICES ASSUME NEW j \in 1 .. i
                 PROVE  /\ placed'[j + 1] = placed'[j] + WordCount(statements[j])
                        /\ statements[j].label # "" =>
                              /\ Upper[statements[j].label] \in DOMAIN symbols'
                              /\ symbols'[Upper[statements[j].label]] = placed'[j]
      <3> HIDE DEF i
      <3> QED BY <2>0 DEF Counted
    <2>1. diagnostics = {} /\ ~over /\ (s.label # "" => IsNewLabel(s))
      BY <1>1
    <2>2. CASE j = i
      <3>1. placed'[j + 1] = placed'[j] + count
        BY <1>3, <1>7, <2>1, <2>2 DEF after
      <3> QED BY <1>1, <1>3, <1>7, <2>1, <2>2, <3>1 DEF count
    <2>3. CASE j # i
      <3>1. j \in 1 .. Len(placed) - 1 /\ j \in 1 .. i /\ j + 1 \in 1 .. i
        BY <1>3, <2>3
      <3>2. Counted(Len(placed))
        BY <1>1, <2>1 DEF EncoderInv, PlacesCounted
      <3>3. /\ placed[j + 1] = placed[j] + WordCount(statements[j])
            /\ statements[j].label # "" =>
                  /\ Upper[statements[j].label] \in DOMAIN symbols
                  /\ symbols[Upper[statements[j].label]] = placed[j]
        BY <3>1, <3>2 DEF Counted
      <3>4. \A n \in DOMAIN symbols : n \in DOMAIN symbols' /\ symbols'[n] = symbols[n]
        BY <1>1 DEF IsNewLabel
      <3> QED BY <1>7, <3>1, <3>3, <3>4
    <2> QED BY <2>2, <2>3
  <1>10. CASE i # Len(statements)
    <2>1. FirstPass'
      <3>1. Len(placed') \in 1 .. Len(statements) /\ placed'[1] = origin
        BY <1>3, <1>7, <1>10
      <3> QED BY <1>1a, <1>3, <3>1 DEF FirstPass, StartsWithOrigin
    <2> QED BY <1>1, <1>1a, <1>2, <1>8, <1>9, <1>10, <2>1
            DEF EncoderInv, NothingRead, SecondPass, RowsCover, PanicsOnlyAtTop
  <1>11. CASE i = Len(statements)
    <2>1. phase' = "encode"
      BY <1>1, <1>11
    <2>2. IsSeq(words') /\ Len(words') = 0
      BY <1>1a, <1>3, EmptyIsSeq
    <2>3. origin' \in Nat /\ origin' # NoAddress
      <3>1. origin \in Nat
        BY <1>3, WordIsNat
      <3> QED BY <1>1a, <3>1 DEF NoAddress
    <2>4. ASSUME diagnostics' = {} PROVE placed'[2] = origin
      <3>1. statements[1].operation = ".ORIG"
        BY <1>3 DEF StartsWithOrigin
      <3>2. WordCount(statements[1]) = 0
        BY <3>1, CountOfNothing
      <3>3. Counted(Len(placed))'
        BY <1>1, <1>9, <2>1, <2>4 DEF PlacesCounted
      <3>4. 1 \in 1 .. Len(placed') - 1
        BY <1>3, <1>7
      <3>5. placed'[1 + 1] = placed'[1] + WordCount(statements[1])
        BY <1>1a, <3>3, <3>4 DEF Counted
      <3>6. placed'[1] = origin /\ origin \in Nat
        BY <1>3, <1>7, WordIsNat
      <3> QED BY <3>2, <3>5, <3>6
    <2>5. SecondPass'
      <3>1. Len(placed') = Len(statements) + 1 /\ next \in 2 .. Len(statements) + 1
        BY <1>3, <1>7, <1>11
      <3> QED BY <1>1a, <1>3, <2>1, <2>2, <2>3, <2>4, <3>1 DEF SecondPass
    <2>6. RowsCover'
      <3> DEFINE r == [line |-> statements[1].line, address |-> origin, word_count |-> 0]
      <3>1. IsSeq(<<r>>) /\ Len(<<r>>) = 1 /\ <<r>>[1] = r
        <4>1. <<r>> \in Seq({r}) /\ Len(<<r>>) = 1 /\ <<r>>[1] = r
          OBVIOUS
        <4> QED BY <4>1, AnySeq
      <3>2. rows' = <<r>> /\ next' = 2 /\ r.address = origin /\ r.word_count = 0
        BY <1>1a, <1>3
      <3> HIDE DEF r
      <3>3. RowStart(1)' = origin'
        BY <1>1a, <2>3, <3>1, <3>2 DEF RowStart
      <3>4. RowEnd(1)' = origin'
        <4>1. rows'[1].word_count = 0
          BY <3>1, <3>2
        <4> QED BY <2>3, <3>3, <4>1 DEF RowEnd
      <3> QED BY <2>2, <2>3, <3>1, <3>2, <3>3, <3>4 DEF RowsCover
    <2> QED BY <1>2, <1>8, <1>9, <2>1, <2>5, <2>6
            DEF EncoderInv, NothingRead, FirstPass, PanicsOnlyAtTop
  <1> QED BY <1>10, <1>11

\* The second pass: a statement is encoded.
LEMMA EncodeStatementKeeps ==
  ASSUME EncoderInv, EncodeStatement, ~FillPanics
  PROVE  EncoderInv'
  <1> DEFINE n == WordCount(Now)
  <1>1. phase = "encode" /\ next <= Len(statements)
    BY DEF EncodeStatement
  <1>2. PICK made : /\ IsSeq(made)
                    /\ Emit(made)
                    /\ diagnostics \subseteq diagnostics'
                    /\ diagnostics' = {} => Len(made) = n
    BY StatementEmits DEF Emits
  <1>3. /\ words' = words \o made
        /\ rows' = Append(rows, [line |-> Now.line, address |-> current_addr,
                                 word_count |-> Len(made)])
        /\ next' = next + 1
        /\ statements' = statements /\ origin' = origin /\ symbols' = symbols
        /\ placed' = placed /\ phase' = phase
    BY <1>2 DEF Emit
  <1>4. diagnostics' = {} => diagnostics = {}
    BY <1>2
  <1>5. Statements(statements)' /\ (next \in Nat \ {0})' /\ AddressesBounded'
    BY <1>3 DEF EncoderInv, Statements, AddressesBounded
  <1>6. PlacesCounted'
    BY <1>3, <1>4 DEF EncoderInv, PlacesCounted, Counted
  <1>7. ASSUME diagnostics' = {}
        PROVE  /\ origin \in Nat /\ IsSeq(words) /\ Len(words) \in Nat
               /\ Len(statements) \in Nat
               /\ Len(placed) = Len(statements) + 1
               /\ next \in 2 .. Len(statements)
               /\ origin + Len(words) = placed[next]
               /\ placed[next + 1] = placed[next] + n
               /\ placed[next] <= LAST_ADDRESS + 1
               /\ Len(made) = n /\ n \in Nat
    <2>1. diagnostics = {}
      BY <1>4, <1>7
    <2>2. /\ origin \in Nat /\ IsSeq(words) /\ Len(words) \in Nat
          /\ Len(placed) = Len(statements) + 1
          /\ next \in 2 .. Len(statements) + 1
          /\ origin + Len(words) = placed[next]
      BY <1>1, <2>1, SeqShape, WordIsNat DEF EncoderInv, SecondPass
    <2>3. Len(statements) \in Nat
      BY SeqShape DEF EncoderInv, Statements
    <2>4. next \in 2 .. Len(statements) /\ next \in 1 .. Len(placed)
          /\ next \in 1 .. Len(placed) - 1
      BY <1>1, <2>2, <2>3
    <2>5. placed[next] <= LAST_ADDRESS + 1
      BY <2>4 DEF EncoderInv, AddressesBounded
    <2>6. Counted(Len(placed))
      BY <1>1, <2>1 DEF EncoderInv, PlacesCounted
    <2>7. placed[next + 1] = placed[next] + n
      BY <2>4, <2>6 DEF Counted, Now
    <2>8. Len(made) = n /\ n \in Nat
      BY <1>2, <1>7, SeqShape
    <2> QED BY <2>2, <2>3, <2>4, <2>5, <2>7, <2>8
  <1> HIDE DEF n
  <1>8. ASSUME diagnostics' = {}
        PROVE  IsSeq(words') /\ Len(words') = Len(words) + n
    <2>1. IsSeq(words) /\ IsSeq(made) /\ Len(made) = n
      BY <1>2, <1>7, <1>8
    <2>2. IsSeq(words \o made) /\ Len(words \o made) = Len(words) + Len(made)
      BY <2>1, ConcatShape
    <2> QED BY <1>3, <2>1, <2>2
  <1>9. SecondPass'
    <2> SUFFICES ASSUME diagnostics' = {}
                 PROVE  /\ origin' \in Word
                        /\ IsSeq(words')
                        /\ Len(placed') = Len(statements') + 1
                        /\ next' \in 2 .. Len(statements') + 1
                        /\ origin' + Len(words') = placed'[next']
                        /\ phase' # "done"
      BY DEF SecondPass
    <2>1. origin \in Word
      BY <1>1, <1>4 DEF EncoderInv, SecondPass
    <2>2. next + 1 \in 2 .. Len(statements) + 1
      BY <1>7
    <2>3. origin + Len(words') = placed[next + 1]
      BY <1>7, <1>8
    <2> QED BY <1>1, <1>3, <1>7, <1>8, <2>1, <2>2, <2>3
  <1>10. RowsCover'
    <2> SUFFICES ASSUME diagnostics' = {}
                 PROVE  /\ IsSeq(rows')
                        /\ Len(rows') = next' - 1
                        /\ RowStart(1)' = origin'
                        /\ \A k \in 1 .. Len(rows') - 1 : RowStart(k + 1)' = RowEnd(k)'
                        /\ RowEnd(Len(rows))' = origin' + Len(words')
      BY DEF RowsCover
    <2> DEFINE r == [line |-> Now.line, address |-> current_addr, word_count |-> Len(made)]
    <2>1. /\ IsSeq(rows) /\ Len(rows) = next - 1
          /\ RowStart(1) = origin
          /\ \A k \in 1 .. Len(rows) - 1 : RowStart(k + 1) = RowEnd(k)
          /\ RowEnd(Len(rows)) = origin + Len(words)
      BY <1>1, <1>4 DEF EncoderInv, RowsCover
    <2>2. rows' = Append(rows, r) /\ r.address = current_addr /\ r.word_count = Len(made)
      BY <1>3
    <2> HIDE DEF r
    <2> PICK m : m = next
      OBVIOUS
    <2>3. /\ IsSeq(rows') /\ Len(rows') = m
          /\ \A k \in 1 .. m - 1 : rows'[k] = rows[k]
          /\ rows'[m] = r
      <3>1. IsSeq(rows) /\ Len(rows) = m - 1 /\ Len(rows) \in Nat /\ m \in Nat
        BY <1>7, <2>1, SeqShape
      <3>2. /\ IsSeq(rows') /\ Len(rows') = Len(rows) + 1
            /\ \A k \in 1 .. Len(rows) : rows'[k] = rows[k]
            /\ rows'[Len(rows) + 1] = r
        BY <2>2, <3>1, AppendShape
      <3>3. Len(rows) + 1 = m
        BY <3>1
      <3> QED BY <3>1, <3>2, <3>3
    <2>4. \A k \in 1 .. m - 1 : RowStart(k)' = RowStart(k) /\ RowEnd(k)' = RowEnd(k)
      BY <2>3 DEF RowStart, RowEnd
    <2>5. RowStart(m)' = origin + Len(words)
      <3>1. RowStart(m)' = IF current_addr = NoAddress THEN LAST_ADDRESS + 1
                              ELSE current_addr
        BY <2>2, <2>3 DEF RowStart
      <3>2. origin + Len(words) <= LAST_ADDRESS + 1 /\ origin + Len(words) \in Nat
            /\ origin # NoAddress /\ origin + Len(words) # NoAddress
        BY <1>7 DEF NoAddress
      <3> QED BY <3>1, <3>2, LastAddress DEF current_addr
    <2>6. RowEnd(m)' = origin + Len(words')
      <3>1. RowEnd(m)' = RowStart(m)' + n
        BY <1>7, <2>2, <2>3 DEF RowEnd
      <3> QED BY <1>7, <1>8, <2>5, <3>1
    <2>7. \A k \in 1 .. Len(rows') - 1 : RowStart(k + 1)' = RowEnd(k)'
      <3> SUFFICES ASSUME NEW k \in 1 .. m - 1 PROVE RowStart(k + 1)' = RowEnd(k)'
        BY <2>3
      <3>1. CASE k = m - 1
        <4>1. RowEnd(k)' = origin + Len(words)
          BY <2>1, <2>4, <3>1
        <4>2. k + 1 = m
          BY <1>7, <3>1
        <4> QED BY <2>5, <4>1, <4>2
      <3>2. CASE k # m - 1
        <4>1. k + 1 \in 1 .. m - 1 /\ k \in 1 .. Len(rows) - 1
          BY <1>7, <2>1, <3>2
        <4> QED BY <2>1, <2>4, <4>1
      <3> QED BY <3>1, <3>2
    <2>8. RowStart(1)' = origin
      BY <1>7, <2>1, <2>4
    <2>9. RowEnd(Len(rows))' = origin + Len(words')
      BY <2>3, <2>6
    <2> QED BY <1>3, <2>3, <2>7, <2>8, <2>9
  <1>11. NothingRead' /\ FirstPass' /\ PanicsOnlyAtTop'
    BY <1>1, <1>3 DEF NothingRead, FirstPass, PanicsOnlyAtTop
  <1> QED BY <1>5, <1>6, <1>9, <1>10, <1>11 DEF EncoderInv

\* The label of a .FILL that panics is as far out as a label can be.
LEMMA FillPanicsKeeps ==
  ASSUME EncoderInv, EncodeStatement, FillPanics
  PROVE  EncoderInv'
  <1>1. /\ phase' = "panic"
        /\ UNCHANGED <<statements, origin, words, diagnostics, symbols, placed, next>>
        /\ Upper[Now.operands[1].name] \in DOMAIN symbols
        /\ FillAddress > LAST_ADDRESS
    BY DEF FillPanics
  <1>2. Statements(statements)' /\ (next \in Nat \ {0})' /\ AddressesBounded'
    BY <1>1 DEF EncoderInv, Statements, AddressesBounded
  <1>3. FillAddress \in Nat /\ FillAddress <= LAST_ADDRESS + 1
    BY <1>1 DEF EncoderInv, AddressesBounded, FillAddress
  <1>4. FillAddress' = FillAddress
    BY <1>1 DEF FillAddress, Now
  <1>5. FillAddress = LAST_ADDRESS + 1
    BY <1>1, <1>3, LastAddress
  <1>6. PanicsOnlyAtTop'
    BY <1>4, <1>5 DEF PanicsOnlyAtTop, LAST_ADDRESS
  <1> QED BY <1>1, <1>2, <1>6 DEF EncoderInv, NothingRead, FirstPass, PlacesCounted,
                                 SecondPass, RowsCover

\* At the end of the program the second pass is where the first one ended.
LEMMA FinishKeeps ==
  ASSUME EncoderInv, Finish
  PROVE  EncoderInv'
  <1>1. /\ phase = "encode" /\ next > Len(statements) /\ phase' = "done"
        /\ UNCHANGED <<statements, origin, words, diagnostics, symbols, rows, placed, next>>
    BY DEF Finish
  <1>2. Statements(statements)' /\ (next \in Nat \ {0})' /\ AddressesBounded'
    BY <1>1 DEF EncoderInv, Statements, AddressesBounded
  <1>3. PlacesCounted'
    BY <1>1 DEF EncoderInv, PlacesCounted, Counted
  <1>4. SecondPass'
    <2>1. Len(statements) \in Nat
      BY SeqShape DEF EncoderInv, Statements
    <2> QED BY <1>1, <2>1 DEF EncoderInv, SecondPass
  <1>5. RowsCover'
    BY <1>1 DEF EncoderInv, RowsCover, RowStart, RowEnd
  <1> QED BY <1>1, <1>2, <1>3, <1>4, <1>5 DEF EncoderInv, NothingRead, FirstPass,
                                             PanicsOnlyAtTop

\* Every turn of a loop of the assembler.
LEMMA EncoderStepKeeps ==
  ASSUME EncoderInv, EncoderNext
  PROVE  EncoderInv'
  BY ReadNoOriginKeeps, ReadOriginKeeps, CountStatementKeeps, EncodeStatementKeeps,
     FillPanicsKeeps, FinishKeeps DEF EncoderNext

\* An encoder that is put aside or begins anew.
LEMMA ResetKeeps ==
  ASSUME NEW program, Statements(program), NEW at \in {"idle", "origin"},
         ResetEncoder(program, at)
  PROVE  EncoderInv'
  <1>1. /\ statements' = program /\ words' = <<>> /\ diagnostics' = {}
        /\ symbols' = NoSymbols /\ placed' = <<>> /\ phase' = at /\ next' = 1
    BY DEF ResetEncoder
  <1>2. AddressesBounded'
    BY <1>1, EmptyIsSeq DEF AddressesBounded, NoSymbols
  <1> QED BY <1>1, <1>2 DEF EncoderInv, Statements, NothingRead, FirstPass,
                           PlacesCounted, SecondPass, RowsCover, PanicsOnlyAtTop
-----------------------------------------------------------------------------
\* The operands of a parsed statement are tokens of its line.
LEMMA ParsedStatements ==
  ASSUME NEW source \in Seq(SourceLine)
  PROVE  Statements(ParseSource(source))
  <1> DEFINE program == ParseSource(source)
  <1>1. DOMAIN source = 1 .. Len(source) /\ Len(source) \in Nat
    OBVIOUS
  <1>2. IsSeq(program) /\ Len(program) = Len(source)
    <2> DEFINE S == {ParseStatement(source[k]) : k \in DOMAIN source}
    <2>1. program = [k \in 1 .. Len(source) |-> ParseStatement(source[k])]
      BY <1>1 DEF ParseSource
    <2>2. \A k \in 1 .. Len(source) : ParseStatement(source[k]) \in S
      BY <1>1
    <2> HIDE DEF S, program
    <2>3. program \in Seq(S) /\ Len(program) = Len(source)
      BY <1>1, <2>1, <2>2
    <2> QED BY <2>3, AnySeq
  <1>3. ASSUME NEW k \in 1 .. Len(source) PROVE program[k].operands \in Seq(Token)
    <2> DEFINE text == source[k]
               tokens == text.tokens
    <2>1. text \in SourceLine
      BY <1>1
    <2>2. tokens \in Seq(Token)
      <3> HIDE DEF text
      <3> QED BY <2>1 DEF SourceLine
    <2>3. program[k] = ParseStatement(text)
      BY <1>1 DEF ParseSource
    <2>4. \/ ParseStatement(text).operands = SubSeq(tokens, 2, Len(tokens))
          \/ ParseStatement(text).operands = SubSeq(tokens, 3, Len(tokens))
      <3> HIDE DEF text
      <3> QED BY DEF ParseStatement
    <2> HIDE DEF tokens
    <2>5. ASSUME NEW first \in {2, 3} PROVE SubSeq(tokens, first, Len(tokens)) \in Seq(Token)
      <3>1. /\ first \in Int /\ Len(tokens) \in Int
            /\ \A i \in first .. Len(tokens) : tokens[i] \in Token
        BY <2>2
      <3> QED BY <3>1, SubSeqProperties
    <2> QED BY <2>3, <2>4, <2>5
  <1>4. \A k \in 1 .. Len(program) : program[k].operands \in Seq(Token)
    <2> HIDE DEF program
    <2> QED BY <1>2, <1>3
  <1>5. Statements(program)
    <2> HIDE DEF program
    <2> QED BY <1>2, <1>4 DEF Statements
  <1> QED BY <1>5

-----------------------------------------------------------------------------
\* What lies under a path is one of the sources that the session has for it.
DiskInv == /\ shelf \in {session.shelf : session \in Sessions}
           /\ DOMAIN disk = DOMAIN shelf
           /\ \A p \in DOMAIN shelf : disk[p] \in shelf[p]

DesktopInv == EncoderInv /\ DiskInv

\* The invariant holds when the application starts.
LEMMA DesktopInit_Inv == DesktopInit => DesktopInv
  <1> SUFFICES ASSUME DesktopInit PROVE DesktopInv
    OBVIOUS
  <1>1. EncoderInv
    <2>1. /\ statements = <<>> /\ words = <<>> /\ diagnostics = {}
          /\ symbols = NoSymbols /\ placed = <<>> /\ phase = "idle" /\ next = 1
      BY DEF DesktopInit, EncoderInit
    <2>2. AddressesBounded /\ Statements(statements)
      BY <2>1, EmptyIsSeq DEF AddressesBounded, NoSymbols, Statements
    <2> QED BY <2>1, <2>2 DEF EncoderInv, NothingRead, FirstPass,
                             PlacesCounted, SecondPass, RowsCover, PanicsOnlyAtTop
  <1>2. DiskInv
    BY DEF DesktopInit, DiskInv
  <1> QED BY <1>1, <1>2 DEF DesktopInv

\* Every step of the desktop application keeps the invariant.
LEMMA DesktopStep_Inv == DesktopInv /\ [DesktopNext]_vars => DesktopInv'
  <1> SUFFICES ASSUME DesktopInv, [DesktopNext]_vars PROVE DesktopInv'
    OBVIOUS
  <1>1. ASSUME UNCHANGED encoderVars PROVE EncoderInv'
    BY <1>1 DEF encoderVars, DesktopInv, EncoderInv, Statements, AddressesBounded,
       NothingRead, FirstPass, StartsWithOrigin, PlacesCounted, Counted, SecondPass,
       RowsCover, RowStart, RowEnd, PanicsOnlyAtTop, FillAddress, Now
  <1>2. ASSUME UNCHANGED <<shelf, disk>> PROVE DiskInv'
    BY <1>2 DEF DesktopInv, DiskInv
  <1>3. ASSUME ResetEncoder(<<>>, "idle") PROVE EncoderInv'
    <2>1. Statements(<<>>)
      BY EmptyIsSeq DEF Statements
    <2> QED BY <1>3, <2>1, ResetKeeps
  <1>4. CASE EditFile
    <2>1. UNCHANGED encoderVars /\ shelf' = shelf
      BY <1>4 DEF EditFile
    <2>2. PICK p \in DOMAIN shelf : \E source \in shelf[p] : disk' = [disk EXCEPT ![p] = source]
      BY <1>4 DEF EditFile
    <2>3. DiskInv'
      BY <2>1, <2>2 DEF DesktopInv, DiskInv
    <2> QED BY <1>1, <2>1, <2>3 DEF DesktopInv
  <1>5. CASE PickFiles
    BY <1>1, <1>2, <1>5 DEF PickFiles, DesktopInv
  <1>6. CASE FileMissing
    BY <1>1, <1>2, <1>6 DEF FileMissing, DesktopInv
  <1>7. CASE ParseFails
    BY <1>1, <1>2, <1>7 DEF ParseFails, DesktopInv
  <1>8. CASE ParseFile
    <2> DEFINE source == disk[Head(queue)]
    <2>1. /\ Head(queue) \in DOMAIN disk
          /\ ResetEncoder(ParseSource(source), "origin")
          /\ UNCHANGED desktopVars
      BY <1>8 DEF ParseFile
    <2>2. source \in Seq(SourceLine)
      BY <2>1, SourcesAssumption DEF DesktopInv, DiskInv
    <2> HIDE DEF source
    <2>3. EncoderInv'
      BY <2>1, <2>2, ParsedStatements, ResetKeeps
    <2> QED BY <1>2, <2>1, <2>3 DEF DesktopInv, desktopVars
  <1>9. CASE Encode
    BY <1>2, <1>9, EncoderStepKeeps DEF Encode, DesktopInv, desktopVars
  <1>10. CASE OpenWithoutImage
    BY <1>2, <1>3, <1>10 DEF OpenWithoutImage, DesktopInv
  <1>11. CASE LoadImage
    BY <1>2, <1>3, <1>11 DEF LoadImage, DesktopInv
  <1>12. CASE UNCHANGED vars
    BY <1>1, <1>2, <1>12 DEF vars, desktopVars, DesktopInv
  <1>13. CASE SelectTab
    BY <1>1, <1>2, <1>13 DEF SelectTab, DesktopInv
  <1> QED BY <1>4, <1>5, <1>6, <1>7, <1>8, <1>9, <1>10, <1>11, <1>12, <1>13 DEF DesktopNext

\* For every session of a user, whatever the sources: the invariant above holds
\* in every state of the desktop application.
THEOREM AssemblerInvariant == DesktopSpec => []DesktopInv
  BY DesktopInit_Inv, DesktopStep_Inv, PTL DEF DesktopSpec

\* While nothing is complained of, the second pass is among the statements that
\* the first one counted.
LEMMA AmongCounted ==
  ASSUME DesktopInv, phase = "encode", diagnostics = {}, next <= Len(statements)
  PROVE  /\ next \in 1 .. Len(placed) - 1
         /\ Counted(Len(placed))
         /\ origin + Len(words) = placed[next]
  <1>1. /\ Len(placed) = Len(statements) + 1
        /\ next \in 2 .. Len(statements) + 1
        /\ origin + Len(words) = placed[next]
    BY DEF DesktopInv, EncoderInv, SecondPass
  <1>2. Len(statements) \in Nat
    BY SeqShape DEF DesktopInv, EncoderInv, Statements
  <1>3. Counted(Len(placed))
    BY DEF DesktopInv, EncoderInv, PlacesCounted
  <1> QED BY <1>1, <1>2, <1>3

\* The second pass of encoder.rs places every label of every program where the
\* symbol table has it.
THEOREM LabelsLandWherePlaced == DesktopSpec => []PassesAgree
  <1>1. DesktopInv => PassesAgree
    BY AmongCounted DEF PassesAgree, Counted, Now
  <1> QED BY <1>1, AssemblerInvariant, PTL

\* Whatever the first pass goes on with after an overflow, the address of no
\* label lies farther out than one past xFFFF: nothing else panics in encode_fill.
THEOREM OnlyTopLabelPanics == DesktopSpec => []PanicsOnlyAtTop
  <1>1. DesktopInv => PanicsOnlyAtTop
    BY DEF DesktopInv, EncoderInv
  <1> QED BY <1>1, AssemblerInvariant, PTL

\* The listing of every image that is assembled has a row for each statement,
\* and the rows cover the image without a gap or an overlap, within memory.
THEOREM ListingCovers == DesktopSpec => []ListingCoversImage
  <1>1. DesktopInv => ListingCoversImage
    <2> SUFFICES ASSUME DesktopInv, phase = "done", diagnostics = {}
                 PROVE  /\ Len(rows) = Len(statements)
                        /\ RowStart(1) = origin
                        /\ \A k \in 1 .. Len(rows) - 1 : RowStart(k + 1) = RowEnd(k)
                        /\ RowEnd(Len(rows)) = origin + Len(words)
                        /\ origin + Len(words) <= LAST_ADDRESS + 1
      BY DEF ListingCoversImage, HasImage
    <2>1. /\ Len(placed) = Len(statements) + 1
          /\ next = Len(statements) + 1
          /\ origin + Len(words) = placed[next]
      BY DEF DesktopInv, EncoderInv, SecondPass
    <2>2. Len(statements) \in Nat
      BY SeqShape DEF DesktopInv, EncoderInv, Statements
    <2>3. placed[next] <= LAST_ADDRESS + 1
      BY <2>1, <2>2 DEF DesktopInv, EncoderInv, AddressesBounded
    <2>4. /\ Len(rows) = next - 1
          /\ RowStart(1) = origin
          /\ \A k \in 1 .. Len(rows) - 1 : RowStart(k + 1) = RowEnd(k)
          /\ RowEnd(Len(rows)) = origin + Len(words)
      BY DEF DesktopInv, EncoderInv, RowsCover
    <2> QED BY <2>1, <2>2, <2>3, <2>4
  <1> QED BY <1>1, AssemblerInvariant, PTL
-----------------------------------------------------------------------------
\* A word with two registers and six more bits.
Packed(op, a, b, r) == 4096 * op + 512 * a + 64 * b + r

\* What the processor decodes from it.
HasFields(w, op, a, b, r) ==
    /\ Opcode(w) = op
    /\ DR(w) = a
    /\ SR1(w) = b
    /\ SR2(w) = r % 8
    /\ Imm5(w) = SignExtend(r % 32, 16)
    /\ Offset6(w) = SignExtend(r, 32)
    /\ IsImm(w) <=> r \div 32 = 1
    /\ IsRtt(w) <=> r % 2 = 1
    /\ IsJsr(w) <=> a \div 4 = 1

\* The fields come back.
LEMMA PackedFields ==
  ASSUME NEW op \in 0 .. 15, NEW a \in 0 .. 7, NEW b \in 0 .. 7, NEW r \in 0 .. 63
  PROVE  HasFields(Packed(op, a, b, r), op, a, b, r)
  <1> PICK w : w = Packed(op, a, b, r)
    OBVIOUS
  <1>0. w = 4096 * op + 512 * a + 64 * b + r
    BY DEF Packed
  <1>1. Opcode(w) = op
    BY <1>0 DEF Opcode
  <1>2. DR(w) = a
    BY <1>0 DEF DR
  <1>3. SR1(w) = b
    BY <1>0 DEF SR1
  <1>4. w % 64 = r /\ w % 32 = r % 32 /\ w % 8 = r % 8 /\ w % 2 = r % 2
    BY <1>0
  <1>5. (w \div 32) % 2 = r \div 32
    BY <1>0
  <1>6. (w \div 2048) % 2 = a \div 4
    BY <1>0
  <1>7. SR2(w) = r % 8 /\ Imm5(w) = SignExtend(r % 32, 16) /\ Offset6(w) = SignExtend(r, 32)
    BY <1>4, Zenon DEF SR2, Imm5, Offset6
  <1>8. (IsImm(w) <=> r \div 32 = 1) /\ (IsRtt(w) <=> r % 2 = 1) /\ (IsJsr(w) <=> a \div 4 = 1)
    BY <1>4, <1>5, <1>6 DEF IsImm, IsRtt, IsJsr
  <1> QED BY <1>1, <1>2, <1>3, <1>7, <1>8, Zenon DEF HasFields

\* The fields of a trap.
LEMMA TrapFields ==
  ASSUME NEW v \in 0 .. 255, NEW w, w = 4096 * OP_TRAP + v
  PROVE  Opcode(w) = OP_TRAP /\ TrapVector(w) = v
  BY DEF Opcode, TrapVector, OP_TRAP

\* A number as the processor has it.
AsWord(i) == i % 65536

\* A number that fits a field comes back from it, as a word.
LEMMA Extends ==
  ASSUME NEW half \in {16, 32, 256, 1024}, NEW i, Fits(i, half)
  PROVE  /\ i \in Int
         /\ i % (2 * half) \in 0 .. 2 * half - 1
         /\ SignExtend(i % (2 * half), half) = AsWord(i)
  BY DEF Fits, SignExtend, AsWord

\* The incremented PC and the offset to an address make that address.
LEMMA ReachesTarget ==
  ASSUME NEW a \in Nat, a <= LAST_ADDRESS, NEW target \in Nat,
         NEW offset, offset = (target - a - 1) % 65536
  PROVE  Plus(Plus(a, 1), offset) = target % 65536
  BY DEF Plus, LAST_ADDRESS

\* The two fields for offsets from the PC.
Fits9(i)  == Fits(i, 256)
Fits11(i) == Fits(i, 1024)
Low9(i)   == i % 512
Low11(i)  == i % 2048

\* A word with one register, or the condition codes, and an offset.
Packed9(op, a, i) == 4096 * op + 512 * a + Low9(i)

\* Its fields.
LEMMA Packed9Fields ==
  ASSUME NEW op \in 0 .. 15, NEW a \in 0 .. 7, NEW i, Fits9(i)
  PROVE  /\ Opcode(Packed9(op, a, i)) = op
         /\ DR(Packed9(op, a, i)) = a
         /\ Low9(Packed9(op, a, i)) = Low9(i)
  <1>1. Low9(i) \in 0 .. 511
    BY Extends DEF Fits9, Low9
  <1> PICK r : r = Low9(i)
    OBVIOUS
  <1>2. r \in 0 .. 511 /\ Packed9(op, a, i) = 4096 * op + 512 * a + r
    BY <1>1 DEF Packed9
  <1> QED BY <1>2 DEF Opcode, DR, Low9

\* The word of a JSR.
Packed11(i) == 4096 * OP_JSR + 2048 + Low11(i)

\* Its fields.
LEMMA Packed11Fields ==
  ASSUME NEW i, Fits11(i)
  PROVE  /\ Opcode(Packed11(i)) = OP_JSR
         /\ IsJsr(Packed11(i))
         /\ Low11(Packed11(i)) = Low11(i)
  <1>1. Low11(i) \in 0 .. 2047
    BY Extends DEF Fits11, Low11
  <1> PICK r : r = Low11(i)
    OBVIOUS
  <1> PICK w : w = Packed11(i)
    OBVIOUS
  <1>2. r \in 0 .. 2047 /\ w = 2048 * 9 + r
    BY <1>1 DEF Packed11, OP_JSR
  <1>3. w \div 2048 = 9 /\ w % 2048 = r
    BY <1>2
  <1>4. w \div 4096 = 4
    BY <1>2
  <1>5. (w \div 2048) % 2 = 1
    BY <1>3
  <1> QED BY <1>3, <1>4, <1>5 DEF Opcode, IsJsr, OP_JSR, Low11
-----------------------------------------------------------------------------
\* What the processor decodes from a word is what the statement says.
Decodes(s, a, word) == /\ HasOpcode(s, word)
                       /\ HasOperands(s, word)
                       /\ Reaches(s, a, word)

\* The PC-relative statements.
Relative == Branches \cup {"JSR", "LD", "LDI", "LEA", "ST", "STI"}

\* Without a complaint a word is made, and nothing else.
LEMMA MakeIfMakes ==
  ASSUME NEW ok, NEW w, MakeIf(ok, w), diagnostics' = {}
  PROVE  ok /\ Emit(<<w>>)
  <1> HIDE DEF Emit
  <1> QED BY DEF MakeIf, Make, Report

\* A PC-relative statement that is not complained of names a label that its
\* offset reaches.
LEMMA MakeRelativeMakes ==
  ASSUME NEW ok, NEW half, NEW base, MakeRelative(ok, half, base),
         diagnostics' = {}, current_addr # NoAddress,
         NEW name, name = Upper[Now.operands[Len(Now.operands)].name],
         NEW offset, offset = symbols[name] - current_addr - 1
  PROVE  /\ ok
         /\ name \in DOMAIN symbols
         /\ Fits(offset, half)
         /\ Emit(<<base + (offset % (2 * half))>>)
  <1>1. ok /\ name \in DOMAIN symbols
    <2> SUFFICES ASSUME ~(ok /\ name \in DOMAIN symbols) PROVE FALSE
      OBVIOUS
    <2>1. Report
      BY DEF MakeRelative
    <2> QED BY <2>1 DEF Report
  <1>2. MakeIf(Fits(offset, half), base + (offset % (2 * half)))
    BY <1>1 DEF MakeRelative
  <1> QED BY <1>1, <1>2, MakeIfMakes

\* The operands of the statement in turn: registers have numbers up to seven.
LEMMA OperandNumbers ==
  ASSUME Statements(statements), next \in 1 .. Len(statements), NEW kinds, Matches(Now, kinds)
  PROVE  \A i \in DOMAIN kinds :
            /\ Now.operands[i].token = kinds[i]
            /\ kinds[i] = "register" /\ i \in 1 .. Len(kinds) => Field(i) \in 0 .. 7
  <1>1. Now.operands \in Seq(Token)
    BY DEF Statements, Now
  <1> SUFFICES ASSUME NEW i \in DOMAIN kinds, kinds[i] = "register", i \in 1 .. Len(kinds)
               PROVE  Field(i) \in 0 .. 7
    BY DEF Matches
  <1>2. Now.operands[i] \in Token /\ Now.operands[i].token = "register"
    BY <1>1 DEF Matches
  <1> QED BY <1>2 DEF Token, Field

\* Operations that are not PC-relative reach nothing.
LEMMA NothingReached ==
  ASSUME NEW s, NEW a, NEW w, s.operation \notin Relative
  PROVE  Reaches(s, a, w)
  BY DEF Reaches, Relative

\* The offset that is put into the word takes the processor to the label.
LEMMA LabelReached ==
  ASSUME AddressesBounded, current_addr \in Nat, current_addr <= LAST_ADDRESS,
         NEW name, name = Upper[Now.operands[Len(Now.operands)].name],
         name \in DOMAIN symbols,
         NEW half, half = IF Now.operation = "JSR" THEN 1024 ELSE 256,
         NEW offset, offset = symbols[name] - current_addr - 1, Fits(offset, half),
         NEW w, w % (2 * half) = offset % (2 * half)
  PROVE  Reaches(Now, current_addr, w)
  <1>1. symbols[name] \in Nat
    BY DEF AddressesBounded
  <1>2. SignExtend(w % (2 * half), half) = offset % 65536
    BY Extends DEF AsWord
  <1>3. Plus(Plus(current_addr, 1), SignExtend(w % (2 * half), half))
        = symbols[name] % 65536
    BY <1>1, <1>2, ReachesTarget
  <1>4. SignExtend(w % (2 * half), half)
        = IF Now.operation = "JSR" THEN PcOffset11(w) ELSE PcOffset9(w)
    BY DEF PcOffset11, PcOffset9
  <1> HIDE DEF Plus
  <1> QED BY <1>3, <1>4 DEF Reaches

\* ADD and AND with three registers.
LEMMA OperateRegisters ==
  ASSUME Statements(statements), next \in 1 .. Len(statements),
         NEW op, op = IF Now.operation = "ADD" THEN OP_ADD ELSE OP_AND,
         Now.operation \in {"ADD", "AND"}, Matches(Now, THREE_REGISTERS)
  PROVE  Decodes(Now, current_addr, Packed(op, Field(1), Field(2), Field(3)))
  <1> DEFINE word == Packed(op, Field(1), Field(2), Field(3))
  <1>1. /\ Field(1) \in 0 .. 7 /\ Field(2) \in 0 .. 7 /\ Field(3) \in 0 .. 7
        /\ Now.operands[3].token = "register"
    BY OperandNumbers DEF THREE_REGISTERS
  <1>2. op \in 0 .. 15
    BY DEF OP_ADD, OP_AND
  <1>3. /\ Opcode(word) = op /\ DR(word) = Field(1) /\ SR1(word) = Field(2)
        /\ SR2(word) = Field(3) % 8
        /\ IsImm(word) <=> Field(3) \div 32 = 1
    <2>1. Field(3) \in 0 .. 63
      BY <1>1
    <2>2. HasFields(word, op, Field(1), Field(2), Field(3))
      BY <1>1, <1>2, <2>1, PackedFields, Zenon
    <2> QED BY <2>2, Zenon DEF HasFields
  <1>4. ~IsImm(word) /\ SR2(word) = Field(3)
    <2>1. Field(3) % 8 = Field(3) /\ Field(3) \div 32 # 1
      BY <1>1
    <2> QED BY <1>3, <2>1, Zenon
  <1> HIDE DEF word
  <1>5. HasOpcode(Now, word)
    BY <1>3 DEF HasOpcode
  <1>6. HasOperands(Now, word)
    BY <1>1, <1>3, <1>4 DEF HasOperands, Field, Branches
  <1>7. Reaches(Now, current_addr, word)
    BY NothingReached DEF Relative, Branches
  <1> QED BY <1>5, <1>6, <1>7 DEF Decodes, word

\* ADD and AND with an immediate operand.
LEMMA OperateNumber ==
  ASSUME Statements(statements), next \in 1 .. Len(statements),
         NEW op, op = IF Now.operation = "ADD" THEN OP_ADD ELSE OP_AND,
         Now.operation \in {"ADD", "AND"}, RegistersAndNumber(16)
  PROVE  Decodes(Now, current_addr, Packed(op, Field(1), Field(2), 32 + (Field(3) % 32)))
  <1> DEFINE word == Packed(op, Field(1), Field(2), 32 + (Field(3) % 32))
  <1>1. /\ Field(1) \in 0 .. 7 /\ Field(2) \in 0 .. 7
        /\ Now.operands[3].token = "number"
    BY OperandNumbers DEF RegistersAndNumber
  <1>2. op \in 0 .. 15
    BY DEF OP_ADD, OP_AND
  <1>3. /\ Field(3) % 32 \in 0 .. 31
        /\ SignExtend(Field(3) % 32, 16) = AsWord(Field(3))
    <2>1. Fits(Field(3), 16)
      BY DEF RegistersAndNumber
    <2> QED BY <2>1, Extends
  <1>4. ASSUME NEW m \in 0 .. 31
        PROVE  32 + m \in 0 .. 63 /\ (32 + m) \div 32 = 1 /\ (32 + m) % 32 = m
    OBVIOUS
  <1>5. /\ Opcode(word) = op /\ DR(word) = Field(1) /\ SR1(word) = Field(2)
        /\ Imm5(word) = SignExtend((32 + (Field(3) % 32)) % 32, 16)
        /\ IsImm(word) <=> (32 + (Field(3) % 32)) \div 32 = 1
    <2>1. 32 + (Field(3) % 32) \in 0 .. 63
      BY <1>3, <1>4, Zenon
    <2>2. HasFields(word, op, Field(1), Field(2), 32 + (Field(3) % 32))
      BY <1>1, <1>2, <2>1, PackedFields, Zenon
    <2> QED BY <2>2, Zenon DEF HasFields
  <1>6. IsImm(word) /\ Imm5(word) = AsWord(Field(3))
    <2>1. /\ (32 + (Field(3) % 32)) \div 32 = 1
          /\ (32 + (Field(3) % 32)) % 32 = Field(3) % 32
      BY <1>3, <1>4, Zenon
    <2> QED BY <1>3, <1>5, <2>1, Zenon
  <1> HIDE DEF word
  <1>7. HasOpcode(Now, word)
    BY <1>5 DEF HasOpcode
  <1>8. HasOperands(Now, word)
    BY <1>1, <1>5, <1>6 DEF HasOperands, Field, Branches, AsWord
  <1>9. Reaches(Now, current_addr, word)
    BY NothingReached DEF Relative, Branches
  <1> QED BY <1>7, <1>8, <1>9 DEF Decodes, word

\* LDR and STR.
LEMMA BaseAndOffset ==
  ASSUME Statements(statements), next \in 1 .. Len(statements),
         NEW op, op = IF Now.operation = "LDR" THEN OP_LDR ELSE OP_STR,
         Now.operation \in {"LDR", "STR"}, RegistersAndNumber(32)
  PROVE  Decodes(Now, current_addr, Packed(op, Field(1), Field(2), Field(3) % 64))
  <1> DEFINE word == Packed(op, Field(1), Field(2), Field(3) % 64)
  <1>1. Field(1) \in 0 .. 7 /\ Field(2) \in 0 .. 7
    BY OperandNumbers DEF RegistersAndNumber
  <1>2. op \in 0 .. 15
    BY DEF OP_LDR, OP_STR
  <1>3. /\ Field(3) % 64 \in 0 .. 63
        /\ SignExtend(Field(3) % 64, 32) = AsWord(Field(3))
    <2>1. Fits(Field(3), 32)
      BY DEF RegistersAndNumber
    <2> QED BY <2>1, Extends
  <1>4. /\ Opcode(word) = op /\ DR(word) = Field(1) /\ SR1(word) = Field(2)
        /\ Offset6(word) = SignExtend(Field(3) % 64, 32)
    <2>1. HasFields(word, op, Field(1), Field(2), Field(3) % 64)
      BY <1>1, <1>2, <1>3, PackedFields, Zenon
    <2> QED BY <2>1, Zenon DEF HasFields
  <1>5. Offset6(word) = AsWord(Field(3))
    BY <1>3, <1>4, Zenon
  <1> HIDE DEF word
  <1>6. HasOpcode(Now, word)
    BY <1>4 DEF HasOpcode
  <1>7. HasOperands(Now, word)
    BY <1>4, <1>5 DEF HasOperands, Field, Branches, AsWord
  <1>8. Reaches(Now, current_addr, word)
    BY NothingReached DEF Relative, Branches
  <1> QED BY <1>6, <1>7, <1>8 DEF Decodes, word

\* NOT.
LEMMA NotRegisters ==
  ASSUME Statements(statements), next \in 1 .. Len(statements),
         Now.operation = "NOT", Matches(Now, TWO_REGISTERS)
  PROVE  Decodes(Now, current_addr, Packed(OP_NOT, Field(1), Field(2), 63))
  <1> DEFINE word == Packed(OP_NOT, Field(1), Field(2), 63)
  <1>1. Field(1) \in 0 .. 7 /\ Field(2) \in 0 .. 7
    BY OperandNumbers DEF TWO_REGISTERS
  <1>2. OP_NOT \in 0 .. 15
    BY DEF OP_NOT
  <1>3. Opcode(word) = OP_NOT /\ DR(word) = Field(1) /\ SR1(word) = Field(2)
    <2>1. 63 \in 0 .. 63
      OBVIOUS
    <2>2. HasFields(word, OP_NOT, Field(1), Field(2), 63)
      BY <1>1, <1>2, <2>1, PackedFields, Zenon
    <2> QED BY <2>2, Zenon DEF HasFields
  <1> HIDE DEF word
  <1>4. HasOpcode(Now, word)
    BY <1>3 DEF HasOpcode
  <1>5. HasOperands(Now, word)
    BY <1>3 DEF HasOperands, Field, Branches
  <1>6. Reaches(Now, current_addr, word)
    BY NothingReached DEF Relative, Branches
  <1> QED BY <1>4, <1>5, <1>6 DEF Decodes, word

\* JMP and JMPT.
LEMMA JumpRegister ==
  ASSUME Statements(statements), next \in 1 .. Len(statements),
         Now.operation \in {"JMP", "JMPT"}, Matches(Now, ONE_REGISTER),
         NEW t, t = IF Now.operation = "JMPT" THEN 1 ELSE 0
  PROVE  Decodes(Now, current_addr, Packed(OP_JMP, 0, Field(1), t))
  <1> DEFINE word == Packed(OP_JMP, 0, Field(1), t)
  <1>1. Field(1) \in 0 .. 7
    BY OperandNumbers DEF ONE_REGISTER
  <1>2. OP_JMP \in 0 .. 15 /\ t \in 0 .. 63 /\ t % 2 = t
    BY DEF OP_JMP
  <1>3. Opcode(word) = OP_JMP /\ SR1(word) = Field(1) /\ (IsRtt(word) <=> t % 2 = 1)
    <2>1. 0 \in 0 .. 7
      OBVIOUS
    <2>2. HasFields(word, OP_JMP, 0, Field(1), t)
      BY <1>1, <1>2, <2>1, PackedFields, Zenon
    <2> QED BY <2>2, Zenon DEF HasFields
  <1> HIDE DEF word
  <1>4. HasOpcode(Now, word)
    BY <1>3 DEF HasOpcode
  <1>5. HasOperands(Now, word)
    BY <1>2, <1>3 DEF HasOperands, Field, Branches
  <1>6. Reaches(Now, current_addr, word)
    BY NothingReached DEF Relative, Branches
  <1> QED BY <1>4, <1>5, <1>6 DEF Decodes, word

\* RET and RTT are jumps through R7.
LEMMA JumpBack ==
  ASSUME Now.operation \in {"RET", "RTT"},
         NEW t, t = IF Now.operation = "RTT" THEN 1 ELSE 0
  PROVE  Decodes(Now, current_addr, Packed(OP_JMP, 0, 7, t))
  <1> DEFINE word == Packed(OP_JMP, 0, 7, t)
  <1>1. OP_JMP \in 0 .. 15 /\ t \in 0 .. 63 /\ t % 2 = t
    BY DEF OP_JMP
  <1>2. Opcode(word) = OP_JMP /\ SR1(word) = 7 /\ (IsRtt(word) <=> t % 2 = 1)
    <2>1. 0 \in 0 .. 7 /\ 7 \in 0 .. 7
      OBVIOUS
    <2>2. HasFields(word, OP_JMP, 0, 7, t)
      BY <1>1, <2>1, PackedFields, Zenon
    <2> QED BY <2>2, Zenon DEF HasFields
  <1> HIDE DEF word
  <1>3. HasOpcode(Now, word)
    BY <1>2 DEF HasOpcode
  <1>4. HasOperands(Now, word)
    BY <1>1, <1>2 DEF HasOperands, Branches
  <1>5. Reaches(Now, current_addr, word)
    BY NothingReached DEF Relative, Branches
  <1> QED BY <1>3, <1>4, <1>5 DEF Decodes, word

\* JSRR.
LEMMA CallRegister ==
  ASSUME Statements(statements), next \in 1 .. Len(statements),
         Now.operation = "JSRR", Matches(Now, ONE_REGISTER)
  PROVE  Decodes(Now, current_addr, Packed(OP_JSR, 0, Field(1), 0))
  <1> DEFINE word == Packed(OP_JSR, 0, Field(1), 0)
  <1>1. Field(1) \in 0 .. 7
    BY OperandNumbers DEF ONE_REGISTER
  <1>2. Opcode(word) = OP_JSR /\ SR1(word) = Field(1) /\ ~IsJsr(word)
    <2>1. OP_JSR \in 0 .. 15 /\ 0 \in 0 .. 7 /\ 0 \in 0 .. 63 /\ 0 \div 4 # 1
      BY DEF OP_JSR
    <2>2. HasFields(word, OP_JSR, 0, Field(1), 0)
      BY <1>1, <2>1, PackedFields, Zenon
    <2> QED BY <2>1, <2>2, Zenon DEF HasFields
  <1> HIDE DEF word
  <1>3. HasOpcode(Now, word)
    BY <1>2 DEF HasOpcode
  <1>4. HasOperands(Now, word)
    BY <1>2 DEF HasOperands, Field, Branches
  <1>5. Reaches(Now, current_addr, word)
    BY NothingReached DEF Relative, Branches
  <1> QED BY <1>3, <1>4, <1>5 DEF Decodes, word

\* RTI.
LEMMA ReturnFromInterrupt ==
  ASSUME Now.operation = "RTI", NEW w, w = 4096 * OP_RTI
  PROVE  Decodes(Now, current_addr, w)
  <1>1. Opcode(w) = OP_RTI
    BY DEF OP_RTI, Opcode
  <1>2. HasOpcode(Now, w)
    BY <1>1 DEF HasOpcode
  <1>3. HasOperands(Now, w)
    BY DEF HasOperands, Branches
  <1>4. Reaches(Now, current_addr, w)
    BY NothingReached DEF Relative, Branches
  <1> QED BY <1>2, <1>3, <1>4 DEF Decodes

\* TRAP with a vector.
LEMMA TrapNumber ==
  ASSUME Now.operation = "TRAP", Field(1) \in Byte,
         NEW w, w = 4096 * OP_TRAP + Field(1)
  PROVE  Decodes(Now, current_addr, w)
  <1>1. Opcode(w) = OP_TRAP /\ TrapVector(w) = Field(1)
    BY TrapFields DEF Byte
  <1>2. HasOpcode(Now, w)
    BY <1>1 DEF HasOpcode
  <1>3. HasOperands(Now, w)
    BY <1>1 DEF HasOperands, Field, Branches
  <1>4. Reaches(Now, current_addr, w)
    BY NothingReached DEF Relative, Branches
  <1> QED BY <1>2, <1>3, <1>4 DEF Decodes

\* A trap by its name.
LEMMA TrapName ==
  ASSUME Now.operation \in Traps,
         NEW w, w = 4096 * OP_TRAP + TrapCode(Now.operation)
  PROVE  Decodes(Now, current_addr, w)
  <1>1. TrapCode(Now.operation) \in 0 .. 255
    BY DEF TrapCode
  <1>2. Opcode(w) = OP_TRAP
    BY <1>1, TrapFields
  <1>3. HasOpcode(Now, w)
    BY <1>2 DEF HasOpcode
  <1>4. HasOperands(Now, w)
    BY DEF HasOperands, Branches, Traps
  <1>5. Reaches(Now, current_addr, w)
    BY NothingReached DEF Relative, Branches, Traps
  <1> QED BY <1>3, <1>4, <1>5 DEF Decodes

\* The opcode, the register or the condition codes, and the label of the
\* statements with an offset of nine bits.
LEMMA RelativeNine ==
  ASSUME AddressesBounded, current_addr \in Nat, current_addr <= LAST_ADDRESS,
         Now.operation # "JSR",
         NEW name, name = Upper[Now.operands[Len(Now.operands)].name],
         name \in DOMAIN symbols,
         NEW offset, offset = symbols[name] - current_addr - 1, Fits9(offset),
         NEW op \in 0 .. 15, NEW a \in 0 .. 7
  PROVE  /\ Opcode(Packed9(op, a, offset)) = op
         /\ DR(Packed9(op, a, offset)) = a
         /\ Reaches(Now, current_addr, Packed9(op, a, offset))
  <1> PICK word : word = Packed9(op, a, offset)
    OBVIOUS
  <1>1. Opcode(word) = op /\ DR(word) = a /\ Low9(word) = Low9(offset)
    BY Packed9Fields, Zenon
  <1>2. Reaches(Now, current_addr, word)
    <2>1. word % (2 * 256) = offset % (2 * 256) /\ Fits(offset, 256)
      BY <1>1 DEF Low9, Fits9
    <2> QED BY <2>1, LabelReached
  <1> QED BY <1>1, <1>2, Zenon

\* BR with its condition codes.
LEMMA RelativeBranch ==
  ASSUME AddressesBounded, current_addr \in Nat, current_addr <= LAST_ADDRESS,
         Now.operation \in Branches,
         NEW name, name = Upper[Now.operands[Len(Now.operands)].name],
         name \in DOMAIN symbols,
         NEW offset, offset = symbols[name] - current_addr - 1, Fits9(offset)
  PROVE  Decodes(Now, current_addr, Packed9(OP_BR, BranchFlags(Now.operation), offset))
  <1> DEFINE word == Packed9(OP_BR, BranchFlags(Now.operation), offset)
  <1>1. OP_BR \in 0 .. 15 /\ BranchFlags(Now.operation) \in 0 .. 7
        /\ Now.operation # "JSR"
    BY DEF OP_BR, BranchFlags, Branches
  <1>2. /\ Opcode(word) = OP_BR /\ DR(word) = BranchFlags(Now.operation)
        /\ Reaches(Now, current_addr, word)
    BY <1>1, RelativeNine, Zenon
  <1> HIDE DEF word
  <1>3. HasOpcode(Now, word)
    BY <1>2 DEF HasOpcode
  <1>4. HasOperands(Now, word)
    BY <1>2 DEF HasOperands, Branches
  <1> QED BY <1>2, <1>3, <1>4 DEF Decodes, word

\* The loads, the stores and LEA with their register.
LEMMA RelativeRegister ==
  ASSUME AddressesBounded, current_addr \in Nat, current_addr <= LAST_ADDRESS,
         Now.operation \in {"LD", "LDI", "LEA", "ST", "STI"}, Field(1) \in 0 .. 7,
         NEW name, name = Upper[Now.operands[Len(Now.operands)].name],
         name \in DOMAIN symbols,
         NEW offset, offset = symbols[name] - current_addr - 1, Fits9(offset)
  PROVE  Decodes(Now, current_addr,
                 Packed9(Offset9Code(Now.operation), Field(1), offset))
  <1> DEFINE word == Packed9(Offset9Code(Now.operation), Field(1), offset)
  <1>1. Offset9Code(Now.operation) \in 0 .. 15 /\ Now.operation # "JSR"
    BY DEF Offset9Code, OP_LD, OP_LDI, OP_LEA, OP_ST, OP_STI
  <1>2. /\ Opcode(word) = Offset9Code(Now.operation) /\ DR(word) = Field(1)
        /\ Reaches(Now, current_addr, word)
    BY <1>1, RelativeNine, Zenon
  <1> HIDE DEF word
  <1>3. HasOpcode(Now, word)
    BY <1>2 DEF HasOpcode, Offset9Code
  <1>4. HasOperands(Now, word)
    BY <1>2 DEF HasOperands, Field, Branches
  <1> QED BY <1>2, <1>3, <1>4 DEF Decodes, word

\* JSR.
LEMMA RelativeEleven ==
  ASSUME Statements(statements), next \in 1 .. Len(statements), AddressesBounded,
         current_addr \in Nat, current_addr <= LAST_ADDRESS,
         NEW name, name = Upper[Now.operands[Len(Now.operands)].name],
         name \in DOMAIN symbols,
         NEW offset, offset = symbols[name] - current_addr - 1, Fits11(offset),
         Now.operation = "JSR",
         NEW word, word = Packed11(offset)
  PROVE  Decodes(Now, current_addr, word)
  <1>2. Opcode(word) = OP_JSR /\ IsJsr(word) /\ Low11(word) = Low11(offset)
    BY Packed11Fields, Zenon
  <1>3. Reaches(Now, current_addr, word)
    <2>1. word % (2 * 1024) = offset % (2 * 1024) /\ Fits(offset, 1024)
      BY <1>2 DEF Low11, Fits11
    <2> QED BY <2>1, LabelReached
  <1>4. HasOpcode(Now, word)
    BY <1>2 DEF HasOpcode
  <1>5. HasOperands(Now, word)
    BY <1>2 DEF HasOperands, Branches
  <1> QED BY <1>3, <1>4, <1>5 DEF Decodes

\* The statement that is encoded makes a word that decodes as it says, unless
\* it is complained of.
LEMMA StatementDecodes ==
  ASSUME EncoderInv, EncodeStatement, diagnostics = {}, diagnostics' = {},
         Now.operation \in WordWise \ {".FILL"}
  PROVE  \E word : Emit(<<word>>) /\ Decodes(Now, current_addr, word)
  <1>1. /\ phase = "encode" /\ next \in 1 .. Len(statements)
        /\ Statements(statements) /\ AddressesBounded
    <2>1. Len(statements) \in Nat
      BY SeqShape DEF EncoderInv, Statements
    <2> QED BY <2>1 DEF EncodeStatement, EncoderInv
  <1>2. /\ current_addr \in Nat /\ current_addr <= LAST_ADDRESS
        /\ current_addr # NoAddress
    BY <1>1, CountOfWordWise, RoomForWord DEF EncoderInv
  <1>3. ASSUME NEW ok, NEW w, MakeIf(ok, w) PROVE ok /\ Emit(<<w>>)
    BY <1>3, MakeIfMakes
  <1>4. Now.operation \notin {"", ".END", ".ORIG", ".FILL", ".BLKW", ".STRINGZ"}
    BY DEF WordWise, Branches, Traps
  <1>5. ~Report
    BY DEF Report
  <1> HIDE DEF Emit, Report
  <1> USE DEF Encoding
  <1>6. CASE EncodeOperate
    <2> DEFINE op == IF Now.operation = "ADD" THEN OP_ADD ELSE OP_AND
    <2>1. Now.operation \in {"ADD", "AND"}
      BY <1>6 DEF EncodeOperate
    <2>2. CASE Matches(Now, THREE_REGISTERS)
      <3>1. Emit(<<Packed(op, Field(1), Field(2), Field(3))>>)
        BY <1>6, <2>2 DEF EncodeOperate, Make, Packed
      <3>2. Decodes(Now, current_addr, Packed(op, Field(1), Field(2), Field(3)))
        BY <1>1, <2>1, <2>2, OperateRegisters
      <3> QED BY <3>1, <3>2, Zenon
    <2>3. CASE ~Matches(Now, THREE_REGISTERS)
      <3> DEFINE base == 4096 * op + 512 * Field(1) + 64 * Field(2)
      <3>1. MakeIf(RegistersAndNumber(16), base + 32 + (Field(3) % 32))
        BY <1>6, <2>3 DEF EncodeOperate
      <3>2. RegistersAndNumber(16) /\ Emit(<<base + 32 + (Field(3) % 32)>>)
        BY <1>3, <3>1
      <3>3. Decodes(Now, current_addr, Packed(op, Field(1), Field(2), 32 + (Field(3) % 32)))
        BY <1>1, <2>1, <3>2, OperateNumber
      <3>4. Packed(op, Field(1), Field(2), 32 + (Field(3) % 32))
            = base + 32 + (Field(3) % 32)
        <4>1. Field(1) \in 0 .. 7 /\ Field(2) \in 0 .. 7
          BY <1>1, <3>2, OperandNumbers DEF RegistersAndNumber
        <4>2. Field(3) % 32 \in 0 .. 31
          BY <3>2, Extends DEF RegistersAndNumber
        <4>3. op \in 0 .. 15
          BY DEF OP_ADD, OP_AND
        <4> HIDE DEF op
        <4> QED BY <4>1, <4>2, <4>3 DEF Packed
      <3> HIDE DEF base
      <3> QED BY <3>2, <3>3, <3>4, Zenon
    <2> QED BY <2>2, <2>3
  <1>7. CASE EncodeOffset6
    <2> DEFINE op == IF Now.operation = "LDR" THEN OP_LDR ELSE OP_STR
    <2>1. /\ Now.operation \in {"LDR", "STR"}
          /\ MakeIf(RegistersAndNumber(32), Packed(op, Field(1), Field(2), Field(3) % 64))
      BY <1>7 DEF EncodeOffset6, Packed
    <2>2. RegistersAndNumber(32) /\ Emit(<<Packed(op, Field(1), Field(2), Field(3) % 64)>>)
      BY <1>3, <2>1
    <2>3. Decodes(Now, current_addr, Packed(op, Field(1), Field(2), Field(3) % 64))
      BY <1>1, <2>1, <2>2, BaseAndOffset
    <2> QED BY <2>2, <2>3, Zenon
  <1>8. CASE EncodeNot
    <2>1. /\ Now.operation = "NOT"
          /\ MakeIf(Matches(Now, TWO_REGISTERS), Packed(OP_NOT, Field(1), Field(2), 63))
      BY <1>8 DEF EncodeNot, Packed
    <2>2. /\ Matches(Now, TWO_REGISTERS)
          /\ Emit(<<Packed(OP_NOT, Field(1), Field(2), 63)>>)
      BY <1>3, <2>1
    <2>3. Decodes(Now, current_addr, Packed(OP_NOT, Field(1), Field(2), 63))
      BY <1>1, <2>1, <2>2, NotRegisters
    <2> QED BY <2>2, <2>3, Zenon
  <1>9. CASE EncodeJmp
    <2> DEFINE t == IF Now.operation = "JMPT" THEN 1 ELSE 0
    <2>1. /\ Now.operation \in {"JMP", "JMPT"}
          /\ MakeIf(Matches(Now, ONE_REGISTER), 4096 * OP_JMP + 64 * Field(1) + t)
      BY <1>9 DEF EncodeJmp
    <2>2. Matches(Now, ONE_REGISTER) /\ Emit(<<4096 * OP_JMP + 64 * Field(1) + t>>)
      BY <1>3, <2>1
    <2>3. Decodes(Now, current_addr, Packed(OP_JMP, 0, Field(1), t))
      BY <1>1, <2>1, <2>2, JumpRegister
    <2>4. Packed(OP_JMP, 0, Field(1), t) = 4096 * OP_JMP + 64 * Field(1) + t
      BY <1>1, <2>2, OperandNumbers DEF Packed, ONE_REGISTER, OP_JMP
    <2> QED BY <2>2, <2>3, <2>4
  <1>10. CASE EncodeRet
    <2> DEFINE t == IF Now.operation = "RTT" THEN 1 ELSE 0
    <2>1. /\ Now.operation \in {"RET", "RTT"}
          /\ MakeIf(Matches(Now, <<>>), 4096 * OP_JMP + 64 * 7 + t)
      BY <1>10 DEF EncodeRet
    <2>2. Emit(<<4096 * OP_JMP + 64 * 7 + t>>)
      BY <1>3, <2>1
    <2>3. Decodes(Now, current_addr, Packed(OP_JMP, 0, 7, t))
      BY <2>1, JumpBack
    <2>4. Packed(OP_JMP, 0, 7, t) = 4096 * OP_JMP + 64 * 7 + t
      BY DEF Packed, OP_JMP
    <2> QED BY <2>2, <2>3, <2>4
  <1>11. CASE EncodeJsrr
    <2>1. /\ Now.operation = "JSRR"
          /\ MakeIf(Matches(Now, ONE_REGISTER), 4096 * OP_JSR + 64 * Field(1))
      BY <1>11 DEF EncodeJsrr
    <2>2. Matches(Now, ONE_REGISTER) /\ Emit(<<4096 * OP_JSR + 64 * Field(1)>>)
      BY <1>3, <2>1
    <2>3. Decodes(Now, current_addr, Packed(OP_JSR, 0, Field(1), 0))
      BY <1>1, <2>1, <2>2, CallRegister
    <2>4. Packed(OP_JSR, 0, Field(1), 0) = 4096 * OP_JSR + 64 * Field(1)
      BY <1>1, <2>2, OperandNumbers DEF Packed, ONE_REGISTER, OP_JSR
    <2> QED BY <2>2, <2>3, <2>4
  <1>12. CASE EncodeRti
    <2>1. Now.operation = "RTI" /\ MakeIf(Matches(Now, <<>>), 4096 * OP_RTI)
      BY <1>12 DEF EncodeRti
    <2>2. Emit(<<4096 * OP_RTI>>)
      BY <1>3, <2>1
    <2>3. Decodes(Now, current_addr, 4096 * OP_RTI)
      BY <2>1, ReturnFromInterrupt
    <2> QED BY <2>2, <2>3
  <1>13. CASE EncodeTrap
    <2> DEFINE w  == 4096 * OP_TRAP + Field(1)
               ok == Matches(Now, NUMBER) /\ Field(1) \in Byte
    <2>1. Now.operation = "TRAP" /\ MakeIf(ok, w)
      BY <1>13 DEF EncodeTrap
    <2>2. ok /\ Emit(<<w>>)
      <3> HIDE DEF ok, w
      <3> QED BY <1>3, <2>1, Zenon
    <2>3. Decodes(Now, current_addr, w)
      BY <2>1, <2>2, TrapNumber
    <2> QED BY <2>2, <2>3
  <1>14. CASE EncodeReserved
    <2>1. /\ Now.operation \in Traps
          /\ MakeIf(Matches(Now, <<>>), 4096 * OP_TRAP + TrapCode(Now.operation))
      BY <1>14 DEF EncodeReserved
    <2>2. Emit(<<4096 * OP_TRAP + TrapCode(Now.operation)>>)
      BY <1>3, <2>1
    <2>3. Decodes(Now, current_addr, 4096 * OP_TRAP + TrapCode(Now.operation))
      BY <2>1, TrapName
    <2> QED BY <2>2, <2>3
  <1>15. CASE EncodeBr
    <2> DEFINE name == Upper[Now.operands[Len(Now.operands)].name]
               offset == symbols[name] - current_addr - 1
               flags == BranchFlags(Now.operation)
    <2>1. /\ Now.operation \in Branches
          /\ MakeRelative(Matches(Now, LABEL), 256, 512 * flags)
      BY <1>15 DEF EncodeBr
    <2>2. /\ name \in DOMAIN symbols /\ Fits(offset, 256)
          /\ Emit(<<512 * flags + (offset % (2 * 256))>>)
      BY <1>2, <2>1, MakeRelativeMakes
    <2>3. OP_BR \in 0 .. 15 /\ flags \in 0 .. 7
      BY DEF OP_BR, BranchFlags
    <2>4. Decodes(Now, current_addr, Packed9(OP_BR, flags, offset))
      BY <1>1, <1>2, <2>1, <2>2, <2>3, RelativeBranch DEF Fits9
    <2>5. Packed9(OP_BR, flags, offset) = 512 * flags + (offset % (2 * 256))
      <3>1. offset % (2 * 256) \in Int
        BY <2>2, Extends
      <3> HIDE DEF flags, offset
      <3> QED BY <2>3, <3>1 DEF Packed9, OP_BR, Low9
    <2> QED BY <2>2, <2>4, <2>5
  <1>16. CASE EncodeOffset9
    <2> DEFINE name == Upper[Now.operands[Len(Now.operands)].name]
               offset == symbols[name] - current_addr - 1
               op == Offset9Code(Now.operation)
    <2>1. /\ Now.operation \in {"LD", "LDI", "LEA", "ST", "STI"}
          /\ MakeRelative(Matches(Now, <<"register", "ident">>), 256,
                          4096 * op + 512 * Field(1))
      BY <1>16 DEF EncodeOffset9
    <2>2. /\ Matches(Now, <<"register", "ident">>)
          /\ name \in DOMAIN symbols /\ Fits(offset, 256)
          /\ Emit(<<4096 * op + 512 * Field(1) + (offset % (2 * 256))>>)
      BY <1>2, <2>1, MakeRelativeMakes
    <2>3. op \in 0 .. 15 /\ Field(1) \in 0 .. 7
      BY <1>1, <2>2, OperandNumbers DEF Offset9Code, OP_LD, OP_LDI, OP_LEA, OP_ST, OP_STI
    <2>4. Decodes(Now, current_addr, Packed9(op, Field(1), offset))
      <3>1. Fits9(offset)
        BY <2>2 DEF Fits9
      <3> QED BY <1>1, <1>2, <2>1, <2>2, <2>3, <3>1, RelativeRegister
    <2>5. Packed9(op, Field(1), offset) = 4096 * op + 512 * Field(1) + (offset % (2 * 256))
      BY DEF Packed9, Low9
    <2> QED BY <2>2, <2>4, <2>5
  <1>17. CASE EncodeJsr
    <2> DEFINE name == Upper[Now.operands[Len(Now.operands)].name]
               offset == symbols[name] - current_addr - 1
    <2>1. /\ Now.operation = "JSR"
          /\ MakeRelative(Matches(Now, LABEL), 1024, 4096 * OP_JSR + 2048)
      BY <1>17 DEF EncodeJsr
    <2>2. /\ name \in DOMAIN symbols /\ Fits(offset, 1024)
          /\ Emit(<<4096 * OP_JSR + 2048 + (offset % (2 * 1024))>>)
      BY <1>2, <2>1, MakeRelativeMakes
    <2>3. Decodes(Now, current_addr, Packed11(offset))
      BY <1>1, <1>2, <2>1, <2>2, RelativeEleven DEF Fits11
    <2>4. Packed11(offset) = 4096 * OP_JSR + 2048 + (offset % (2 * 1024))
      BY DEF Packed11, Low11
    <2> QED BY <2>2, <2>3, <2>4
  <1>18. ~EncodeLabel /\ ~ReadEnd /\ ~NestedOrigin /\ ~FillPanics
    BY <1>4 DEF EncodeLabel, ReadEnd, NestedOrigin, FillPanics
  <1>19. ~AfterEnd
    BY <1>5 DEF AfterEnd
  <1>20. ~EncodeFill /\ ~EncodeFillLabel
    <2>1. ~Encoding({".FILL"})
      BY <1>4
    <2> QED BY <2>1 DEF EncodeFill, EncodeFillLabel
  <1>21. ~EncodeBlkw /\ ~EncodeStringz
    BY <1>4 DEF EncodeBlkw, EncodeStringz
  <1> QED BY <1>6, <1>7, <1>8, <1>9, <1>10, <1>11, <1>12, <1>13, <1>14, <1>15, <1>16,
             <1>17, <1>18, <1>19, <1>20, <1>21 DEF EncodeStatement

-----------------------------------------------------------------------------
\* The same with the symbols as an argument.
ReachesIn(table, s, a, word) ==
    LET name   == s.operands[Len(s.operands)].name
        offset == IF s.operation = "JSR" THEN PcOffset11(word) ELSE PcOffset9(word)
    IN s.operation \in Relative => Plus(Plus(a, 1), offset) = AsWord(table[Upper[name]])

DecodesIn(table, s, a, word) == /\ HasOpcode(s, word)
                                /\ HasOperands(s, word)
                                /\ ReachesIn(table, s, a, word)

\* Every word that was made so far decodes as its statement says.
Slot(k) == rows[k].address - origin + 1

DecodedAt(k) == /\ Slot(k) \in 1 .. Len(words)
                /\ DecodesIn(symbols, statements[k], rows[k].address, words[Slot(k)])

Decoded == phase \in {"encode", "done"} /\ diagnostics = {} =>
    \A k \in 1 .. next - 1 :
       statements[k].operation \in WordWise \ {".FILL"} => DecodedAt(k)

\* Nothing else is different.
LEMMA DecodesIsIn ==
  ASSUME NEW s, NEW a, NEW w
  PROVE  Decodes(s, a, w) <=> DecodesIn(symbols, s, a, w)
  BY DEF Decodes, DecodesIn, Reaches, ReachesIn, Relative, AsWord

\* The statement that is encoded joins those whose words are made.
LEMMA EncodeStatementDecodes ==
  ASSUME EncoderInv, Decoded, EncodeStatement, ~FillPanics
  PROVE  Decoded'
  <1> SUFFICES ASSUME diagnostics' = {}, NEW k \in 1 .. next' - 1,
                      statements'[k].operation \in WordWise \ {".FILL"}
               PROVE  DecodedAt(k)'
    BY DEF Decoded
  <1>1. /\ phase = "encode" /\ next \in 2 .. Len(statements)
        /\ Len(statements) \in Nat
        /\ IsSeq(words) /\ Len(words) \in Nat /\ origin \in Nat
        /\ IsSeq(rows) /\ Len(rows) = next - 1
        /\ diagnostics = {}
    <2>1. phase = "encode" /\ next <= Len(statements) /\ diagnostics = {}
      BY StatementEmits DEF EncodeStatement, Emits
    <2>2. Len(statements) \in Nat
      BY SeqShape DEF EncoderInv, Statements
    <2>3. /\ next \in 2 .. Len(statements) + 1 /\ IsSeq(words) /\ origin \in Word
          /\ IsSeq(rows) /\ Len(rows) = next - 1
      BY <2>1 DEF EncoderInv, SecondPass, RowsCover
    <2> QED BY <2>1, <2>2, <2>3, SeqShape, WordIsNat
  <1>2. PICK made : IsSeq(made) /\ Emit(made)
    BY StatementEmits DEF Emits
  <1>3. /\ words' = words \o made
        /\ rows' = Append(rows, [line |-> Now.line, address |-> current_addr,
                                 word_count |-> Len(made)])
        /\ next' = next + 1
        /\ statements' = statements /\ origin' = origin /\ symbols' = symbols
    BY <1>2 DEF Emit
  <1>4. /\ \A i \in 1 .. Len(rows) : rows'[i] = rows[i]
        /\ rows'[Len(rows) + 1].address = current_addr
    BY <1>1, <1>3, AppendShape
  <1>5. /\ Len(words') = Len(words) + Len(made) /\ Len(made) \in Nat
        /\ \A i \in 1 .. Len(words) : words'[i] = words[i]
    BY <1>1, <1>2, <1>3, ConcatShape, SeqShape
  <1>6. CASE k < next
    <2>1. k \in 1 .. next - 1 /\ k \in 1 .. Len(rows)
      BY <1>1, <1>3, <1>6
    <2>2. DecodedAt(k)
      BY <1>1, <1>3, <2>1 DEF Decoded
    <2>3. Slot(k)' = Slot(k) /\ rows'[k] = rows[k]
      BY <1>3, <1>4, <2>1 DEF Slot
    <2>4. Slot(k) \in 1 .. Len(words') /\ words'[Slot(k)] = words[Slot(k)]
      BY <1>1, <1>5, <2>2 DEF DecodedAt
    <2> QED BY <1>3, <2>2, <2>3, <2>4 DEF DecodedAt
  <1>7. CASE ~(k < next)
    <2>1. k = next /\ k = Len(rows) + 1
      BY <1>1, <1>3, <1>7
    <2>2. Now.operation \in WordWise \ {".FILL"}
      BY <1>3, <2>1 DEF Now
    <2>3. current_addr = origin + Len(words)
      BY <1>1, <2>2, CountOfWordWise, RoomForWord DEF EncoderInv
    <2>4. PICK word : Emit(<<word>>) /\ Decodes(Now, current_addr, word)
      BY <1>1, <2>2, StatementDecodes
    <2>5. words' = words \o <<word>>
      BY <2>4 DEF Emit
    <2>6. words'[Len(words) + 1] = word
      BY <1>1, <2>5, LastWord
    <2>7. Len(words') = Len(words) + 1
      <3>1. <<word>> \in Seq({word}) /\ Len(<<word>>) = 1
        OBVIOUS
      <3> QED BY <1>1, <2>5, <3>1, AnySeq, ConcatShape
    <2>8. rows'[k].address = current_addr
      BY <1>4, <2>1
    <2>9. Slot(k)' = Len(words) + 1
      BY <1>1, <1>3, <2>3, <2>8 DEF Slot
    <2>10. DecodesIn(symbols, Now, current_addr, word)
      BY <2>4, DecodesIsIn
    <2>11. Slot(k)' \in 1 .. Len(words')
      BY <1>1, <2>7, <2>9
    <2>12. statements'[k] = Now /\ words'[Slot(k)'] = word
      BY <1>3, <2>1, <2>6, <2>9 DEF Now
    <2> QED BY <1>3, <2>8, <2>10, <2>11, <2>12 DEF DecodedAt
  <1> QED BY <1>6, <1>7

\* Every turn of a loop of the assembler keeps the words decoding.
LEMMA EncoderStepDecodes ==
  ASSUME EncoderInv, Decoded, EncoderNext
  PROVE  Decoded'
  <1>1. CASE ReadNoOrigin
    BY <1>1 DEF ReadNoOrigin, Decoded
  <1>2. CASE ReadOrigin
    BY <1>2 DEF ReadOrigin, Decoded
  <1>3. CASE CountStatement
    <2>1. /\ next' = 2 /\ statements' = statements
          /\ statements[1].operation = ".ORIG"
      BY <1>3 DEF CountStatement, EncoderInv, FirstPass, StartsWithOrigin
    <2>2. ".ORIG" \notin WordWise
      BY DEF WordWise, Branches, Traps
    <2> QED BY <2>1, <2>2 DEF Decoded
  <1>4. CASE EncodeStatement /\ ~FillPanics
    BY <1>4, EncodeStatementDecodes
  <1>5. CASE EncodeStatement /\ FillPanics
    BY <1>5 DEF FillPanics, Decoded
  <1>6. CASE Finish
    <2>1. /\ phase = "encode"
          /\ UNCHANGED <<statements, origin, words, diagnostics, symbols, rows, next>>
      BY <1>6 DEF Finish
    <2> QED BY <2>1 DEF Decoded, DecodedAt, Slot
  <1> QED BY <1>1, <1>2, <1>3, <1>4, <1>5, <1>6 DEF EncoderNext

\* Every word that the assembler makes for a statement is decoded by the
\* processor as the statement says: its opcode, its operands, and the label
\* that it reaches.
THEOREM WordsDecode == DesktopSpec => []DecodesAsWritten
  <1>1. DesktopInit => Decoded
    BY DEF DesktopInit, EncoderInit, Decoded
  <1>2. DesktopInv /\ Decoded /\ [DesktopNext]_vars => Decoded'
    <2> SUFFICES ASSUME DesktopInv, Decoded, [DesktopNext]_vars PROVE Decoded'
      OBVIOUS
    <2>1. ASSUME UNCHANGED encoderVars PROVE Decoded'
      <3>1. UNCHANGED <<statements, origin, words, diagnostics, symbols, rows, phase, next>>
        BY <2>1 DEF encoderVars
      <3> QED BY <3>1 DEF Decoded, DecodedAt, Slot
    <2>2. ASSUME NEW program, NEW at \in {"idle", "origin"}, ResetEncoder(program, at)
          PROVE  Decoded'
      BY <2>2 DEF ResetEncoder, Decoded
    <2>3. CASE EditFile \/ PickFiles \/ SelectTab \/ FileMissing \/ ParseFails
      BY <2>1, <2>3 DEF EditFile, PickFiles, SelectTab, FileMissing, ParseFails
    <2>4. CASE ParseFile
      BY <2>2, <2>4 DEF ParseFile
    <2>5. CASE Encode
      BY <2>5, EncoderStepDecodes DEF Encode, DesktopInv
    <2>6. CASE OpenWithoutImage \/ LoadImage
      BY <2>2, <2>6 DEF OpenWithoutImage, LoadImage
    <2>7. CASE UNCHANGED vars
      BY <2>1, <2>7 DEF vars
    <2> QED BY <2>3, <2>4, <2>5, <2>6, <2>7 DEF DesktopNext
  <1>3. DesktopInv /\ Decoded => DecodesAsWritten
    <2> SUFFICES ASSUME DesktopInv, Decoded, HasImage PROVE DecodesAsWritten
      BY DEF DecodesAsWritten
    <2>1. /\ phase = "done" /\ diagnostics = {} /\ IsSeq(rows) /\ Len(rows) = next - 1
      BY DEF HasImage, DesktopInv, EncoderInv, RowsCover
    <2>2. DOMAIN rows = 1 .. next - 1
      BY <2>1, SeqShape
    <2>3. ASSUME NEW k \in DOMAIN rows,
                 statements[k].operation \in WordWise \ {".FILL"}
          PROVE  LET word == words[rows[k].address - origin + 1]
                 IN /\ HasOpcode(statements[k], word)
                    /\ HasOperands(statements[k], word)
                    /\ Reaches(statements[k], rows[k].address, word)
      <3>1. DecodesIn(symbols, statements[k], rows[k].address,
                      words[rows[k].address - origin + 1])
        BY <2>1, <2>2, <2>3 DEF Decoded, DecodedAt, Slot
      <3>2. Decodes(statements[k], rows[k].address, words[rows[k].address - origin + 1])
        BY <3>1, DecodesIsIn
      <3> QED BY <3>2 DEF Decodes
    <2> QED BY <2>3 DEF DecodesAsWritten
  <1> QED BY <1>1, <1>2, <1>3, AssemblerInvariant, PTL DEF DesktopSpec

-----------------------------------------------------------------------------
\* The row of a listing that has the p-th word of an image of that origin.
RowShows(start, row, p) == /\ row.address # NoAddress
                           /\ row.address <= start + p - 1
                           /\ start + p - 1 < row.address + row.word_count

\* A row is within an image, which has so many words.
RowWithin(start, count, row) ==
    /\ row.word_count \in Nat
    /\ row.address \in Int
    /\ row.word_count > 0 => /\ row.address \in Nat
                             /\ start <= row.address
                             /\ row.address + row.word_count <= start + count

\* One row has it, and no other.
ShownOnce(start, listing, p) ==
    \E k \in 1 .. Len(listing) :
       /\ RowShows(start, listing[k], p)
       /\ \A j \in 1 .. Len(listing) : RowShows(start, listing[j], p) => j = k

SharedOut(start, count, listing) ==
    /\ IsSeq(listing)
    /\ \A k \in 1 .. Len(listing) : RowWithin(start, count, listing[k])
    /\ \A p \in 1 .. count : ShownOnce(start, listing, p)

\* The rows made so far share out the words made so far.
RowsShare == phase \in {"encode", "done"} /\ diagnostics = {}
             => SharedOut(origin, Len(words), rows)

\* A row that is put behind the others, for the words behind the others.
LEMMA SharedOutGrows ==
  ASSUME NEW start \in Nat, NEW count \in Nat, NEW listing, SharedOut(start, count, listing),
         NEW row, NEW n \in Nat, row.word_count = n, row.address \in Int,
         n > 0 => row.address = start + count
  PROVE  SharedOut(start, count + n, Append(listing, row))
  <1> DEFINE after == Append(listing, row)
  <1> PICK m \in Nat : m = Len(listing)
    BY SeqShape DEF SharedOut
  <1>1. /\ IsSeq(after) /\ Len(after) = m + 1
        /\ \A k \in 1 .. m : after[k] = listing[k]
        /\ after[m + 1] = row
    BY AppendShape DEF SharedOut
  <1> HIDE DEF after
  <1>2. ASSUME NEW k \in 1 .. Len(after) PROVE RowWithin(start, count + n, after[k])
    <2>1. CASE k \in 1 .. m
      <3>1. RowWithin(start, count, after[k])
        BY <1>1, <2>1 DEF SharedOut
      <3> QED BY <3>1 DEF RowWithin
    <2>2. CASE k = m + 1
      BY <1>1, <2>2 DEF RowWithin
    <2> QED BY <1>1, <2>1, <2>2
  <1>3. ASSUME NEW p \in 1 .. count PROVE ~RowShows(start, row, p)
    <2>1. CASE n > 0
      BY <2>1 DEF RowShows
    <2>2. CASE n = 0
      <3>1. row.word_count = 0
        BY <2>2
      <3> SUFFICES ASSUME row.address <= start + p - 1,
                          start + p - 1 < row.address + row.word_count
                   PROVE  FALSE
        BY DEF RowShows
      <3> QED BY <3>1
    <2> QED BY <2>1, <2>2
  <1>4. ASSUME NEW p \in 1 .. count PROVE ShownOnce(start, after, p)
    <2>1. PICK k \in 1 .. m :
             /\ RowShows(start, listing[k], p)
             /\ \A j \in 1 .. m : RowShows(start, listing[j], p) => j = k
      BY DEF SharedOut, ShownOnce
    <2>2. ASSUME NEW j \in 1 .. m + 1, RowShows(start, after[j], p) PROVE j = k
      <3>1. CASE j \in 1 .. m
        BY <1>1, <2>1, <2>2, <3>1
      <3>2. CASE j = m + 1
        BY <1>1, <1>3, <2>2, <3>2
      <3> QED BY <3>1, <3>2
    <2>3. k \in 1 .. Len(after) /\ RowShows(start, after[k], p)
      BY <1>1, <2>1
    <2> QED BY <1>1, <2>2, <2>3 DEF ShownOnce
  <1>5. ASSUME NEW p \in count + 1 .. count + n PROVE ShownOnce(start, after, p)
    <2>1. n > 0 /\ row.address = start + count /\ row.address # NoAddress
      BY <1>5 DEF NoAddress
    <2>2. RowShows(start, row, p)
      BY <2>1 DEF RowShows
    <2>3. ASSUME NEW j \in 1 .. m PROVE ~RowShows(start, listing[j], p)
      <3>1. RowWithin(start, count, listing[j])
        BY DEF SharedOut
      <3>2. CASE listing[j].word_count > 0
        BY <3>1, <3>2 DEF RowWithin, RowShows
      <3>3. CASE listing[j].word_count = 0
        BY <3>1, <3>3 DEF RowWithin, RowShows
      <3> QED BY <3>1, <3>2, <3>3 DEF RowWithin
    <2>4. ASSUME NEW j \in 1 .. m + 1, RowShows(start, after[j], p) PROVE j = m + 1
      BY <1>1, <2>3, <2>4
    <2> QED BY <1>1, <2>2, <2>4 DEF ShownOnce
  <1>6. ASSUME NEW p \in 1 .. count + n PROVE ShownOnce(start, after, p)
    <2>1. p \in 1 .. count \/ p \in count + 1 .. count + n
      OBVIOUS
    <2> QED BY <1>4, <1>5, <2>1
  <1>7. SharedOut(start, count + n, after)
    BY <1>1, <1>2, <1>6 DEF SharedOut
  <1> QED BY <1>7 DEF after

\* The row of .ORIG has no words.
LEMMA CountStatementShares ==
  ASSUME EncoderInv, CountStatement
  PROVE  RowsShare'
  <1> DEFINE r == [line |-> statements[1].line, address |-> origin, word_count |-> 0]
  <1>1. /\ rows' = <<r>> /\ words' = <<>> /\ origin' = origin /\ origin \in Nat
        /\ r.address = origin /\ r.word_count = 0
    BY WordIsNat DEF CountStatement, EncoderInv, FirstPass
  <1> HIDE DEF r
  <1>2. IsSeq(<<r>>) /\ Len(<<r>>) = 1 /\ <<r>>[1] = r
    <2>1. <<r>> \in Seq({r}) /\ Len(<<r>>) = 1 /\ <<r>>[1] = r
      OBVIOUS
    <2> QED BY <2>1, AnySeq
  <1>3. RowWithin(origin, 0, r)
    BY <1>1 DEF RowWithin
  <1>4. SharedOut(origin, 0, <<r>>)
    BY <1>2, <1>3 DEF SharedOut
  <1>5. Len(words') = 0
    BY <1>1, EmptyIsSeq
  <1> QED BY <1>1, <1>4, <1>5 DEF RowsShare

\* The row of a statement has the words of the statement.
LEMMA EncodeStatementShares ==
  ASSUME EncoderInv, RowsShare, EncodeStatement, ~FillPanics
  PROVE  RowsShare'
  <1> SUFFICES ASSUME diagnostics' = {} PROVE SharedOut(origin', Len(words'), rows')
    BY DEF RowsShare
  <1>1. PICK made : /\ IsSeq(made)
                    /\ Emit(made)
                    /\ diagnostics \subseteq diagnostics'
                    /\ diagnostics' = {} => Len(made) = WordCount(Now)
    BY StatementEmits DEF Emits
  <1> DEFINE row == [line |-> Now.line, address |-> current_addr, word_count |-> Len(made)]
  <1>2. /\ words' = words \o made
        /\ rows' = Append(rows, row)
        /\ row.address = current_addr /\ row.word_count = Len(made)
        /\ origin' = origin
    BY <1>1 DEF Emit
  <1> HIDE DEF row
  <1>3. phase = "encode" /\ next <= Len(statements) /\ diagnostics = {}
    BY <1>1 DEF EncodeStatement
  <1>4. /\ IsSeq(words) /\ Len(words) \in Nat /\ origin \in Nat
        /\ Len(made) \in Nat /\ Len(made) = WordCount(Now)
        /\ Len(words') = Len(words) + Len(made)
    BY <1>1, <1>2, <1>3, SeqShape, ConcatShape, WordIsNat DEF EncoderInv, SecondPass
  <1>5. origin + Len(words) + Len(made) <= LAST_ADDRESS + 1
    <2>1. /\ Len(placed) = Len(statements) + 1
          /\ next \in 2 .. Len(statements) + 1
          /\ origin + Len(words) = placed[next]
      BY <1>3 DEF EncoderInv, SecondPass
    <2>2. Len(statements) \in Nat
      BY SeqShape DEF EncoderInv, Statements
    <2>3. next \in 1 .. Len(placed) - 1 /\ next + 1 \in 1 .. Len(placed)
      BY <1>3, <2>1, <2>2
    <2>4. placed[next + 1] = placed[next] + WordCount(Now)
      BY <1>3, <2>3 DEF EncoderInv, PlacesCounted, Counted, Now
    <2>5. placed[next + 1] <= LAST_ADDRESS + 1
      BY <2>3 DEF EncoderInv, AddressesBounded
    <2> QED BY <1>4, <2>1, <2>4, <2>5
  <1>6. /\ current_addr \in Int
        /\ Len(made) > 0 => current_addr = origin + Len(words)
    <2>1. origin # NoAddress
      BY <1>4 DEF NoAddress
    <2>2. NoAddress \in Int
      BY DEF NoAddress
    <2> QED BY <1>4, <1>5, <2>1, <2>2, LastAddress DEF current_addr
  <1>7. SharedOut(origin, Len(words), rows)
    BY <1>3 DEF RowsShare
  <1>8. SharedOut(origin, Len(words) + Len(made), Append(rows, row))
    BY <1>2, <1>4, <1>6, <1>7, SharedOutGrows
  <1> QED BY <1>2, <1>4, <1>8

\* Every turn of a loop of the assembler.
LEMMA EncoderStepShares ==
  ASSUME EncoderInv, RowsShare, EncoderNext
  PROVE  RowsShare'
  <1>1. CASE ReadNoOrigin
    BY <1>1 DEF ReadNoOrigin, RowsShare
  <1>2. CASE ReadOrigin
    BY <1>2 DEF ReadOrigin, RowsShare
  <1>3. CASE EncodeStatement /\ FillPanics
    BY <1>3 DEF FillPanics, RowsShare
  <1>4. CASE Finish
    BY <1>4 DEF Finish, RowsShare
  <1> QED BY <1>1, <1>2, <1>3, <1>4, CountStatementShares, EncodeStatementShares
          DEF EncoderNext

-----------------------------------------------------------------------------
\* What was opened has no image, or one whose words its listing shares out.
Opened(assembly) ==
    \/ /\ assembly.image.origin = NoAddress
       /\ assembly.image.words = <<>>
    \/ /\ assembly.image.origin \in Nat
       /\ IsSeq(assembly.image.words)
       /\ SharedOut(assembly.image.origin, Len(assembly.image.words), assembly.listing)

\* Its image is in memory.
IsLoaded(dense, image) ==
    \A a \in Span(image) : a \in DOMAIN dense /\ dense[a] = WordAt(image, a)

MemoryInv == /\ RowsShare
             /\ IsSeq(assemblies)
             /\ \A k \in 1 .. Len(assemblies) :
                   /\ Opened(assemblies[k])
                   /\ IsLoaded(dense_image, assemblies[k].image)
             /\ DOMAIN dense_image \subseteq
                   UNION ({Span(assemblies[k].image) : k \in DOMAIN assemblies}
                          \cup {Span(image) : image \in refused})

\* An image without words takes no place.
LEMMA NoSpan ==
  ASSUME NEW image, image.words = <<>>
  PROVE  Span(image) = {}
  <1>1. DOMAIN image.words = 1 .. 0
    BY EmptyIsSeq, SeqShape
  <1>2. \A i \in 1 .. 0 : FALSE
    OBVIOUS
  <1> QED BY <1>1, <1>2 DEF Span

\* The addresses of an image are numbers.
LEMMA SpanOfImage ==
  ASSUME NEW image, image.origin \in Nat, IsSeq(image.words)
  PROVE  /\ Span(image) \subseteq Int
         /\ Span(image) = {image.origin + i - 1 : i \in 1 .. Len(image.words)}
  <1>1. Len(image.words) \in Nat /\ DOMAIN image.words = 1 .. Len(image.words)
    BY SeqShape
  <1>2. Span(image) = {image.origin + i - 1 : i \in 1 .. Len(image.words)}
    BY <1>1 DEF Span
  <1> QED BY <1>1, <1>2

\* Loading another image changes no word that is in memory already.
LEMMA LoadingKeeps ==
  ASSUME NEW dense, NEW image, image.origin \in Nat, IsSeq(image.words)
  PROVE  /\ DOMAIN dense \subseteq DOMAIN Loaded(dense, image)
         /\ \A a \in DOMAIN dense : Loaded(dense, image)[a] = dense[a]
         /\ DOMAIN Loaded(dense, image) \subseteq DOMAIN dense \cup Span(image)
  <1>1. Written(dense, image) \subseteq Span(image)
    BY DEF Written
  <1>2. ASSUME NEW a \in DOMAIN dense PROVE a \notin Written(dense, image)
    <2> SUFFICES ASSUME a \in Written(dense, image) PROVE FALSE
      OBVIOUS
    <2>1. a \in Span(image) /\ \A c \in Clashes(dense, image) : a < c
      BY DEF Written
    <2>2. a \in Clashes(dense, image)
      BY <2>1 DEF Clashes
    <2>3. a \in Int /\ a < a
      BY <2>1, <2>2, SpanOfImage
    <2> QED BY <2>3
  <1> QED BY <1>1, <1>2 DEF Loaded

\* An image that goes in is in memory then.
LEMMA LoadingLoads ==
  ASSUME NEW dense, NEW image, Loads(dense, image)
  PROVE  IsLoaded(Loaded(dense, image), image)
  <1>1. Written(dense, image) = Span(image)
    BY DEF Loads, Written
  <1> QED BY <1>1 DEF IsLoaded, Loaded

\* What is loaded stays.
LEMMA StaysLoaded ==
  ASSUME NEW dense, NEW image, image.origin \in Nat, IsSeq(image.words),
         NEW other, IsLoaded(dense, other)
  PROVE  IsLoaded(Loaded(dense, image), other)
  BY LoadingKeeps DEF IsLoaded

\* Opening an assembly that is in memory.
LEMMA OpeningKeeps ==
  ASSUME NEW assembly, IsSeq(assemblies), Opens(assembly),
         Opened(assembly), IsLoaded(dense_image', assembly.image),
         \A k \in 1 .. Len(assemblies) :
            /\ Opened(assemblies[k])
            /\ IsLoaded(dense_image', assemblies[k].image)
  PROVE  /\ IsSeq(assemblies')
         /\ \A k \in 1 .. Len(assemblies') :
               /\ Opened(assemblies'[k])
               /\ IsLoaded(dense_image', assemblies'[k].image)
         /\ {Span(assemblies'[k].image) : k \in DOMAIN assemblies'}
            = {Span(assemblies[k].image) : k \in DOMAIN assemblies} \cup {Span(assembly.image)}
  <1> PICK n \in Nat : n = Len(assemblies)
    BY SeqShape
  <1>1. /\ IsSeq(assemblies') /\ Len(assemblies') = n + 1
        /\ \A k \in 1 .. n : assemblies'[k] = assemblies[k]
        /\ assemblies'[n + 1] = assembly
    BY AppendShape DEF Opens
  <1>2. DOMAIN assemblies = 1 .. n /\ DOMAIN assemblies' = 1 .. n + 1
    BY <1>1, SeqShape
  <1>3. 1 .. n + 1 = (1 .. n) \cup {n + 1}
    OBVIOUS
  <1>4. {Span(assemblies'[k].image) : k \in 1 .. n + 1}
        = {Span(assemblies[k].image) : k \in 1 .. n} \cup {Span(assembly.image)}
    BY <1>1, <1>3
  <1> QED BY <1>1, <1>2, <1>3, <1>4

\* Every step of the desktop application keeps the memory accounted for.
LEMMA MemoryStep ==
  ASSUME DesktopInv, MemoryInv, [DesktopNext]_vars
  PROVE  MemoryInv'
  <1>1. ASSUME UNCHANGED encoderVars PROVE RowsShare'
    BY <1>1 DEF encoderVars, MemoryInv, RowsShare
  <1>2. ASSUME NEW program, NEW at \in {"idle", "origin"}, ResetEncoder(program, at)
        PROVE  RowsShare'
    BY <1>2 DEF ResetEncoder, RowsShare
  <1>3. ASSUME RowsShare', UNCHANGED <<dense_image, assemblies, refused>> PROVE MemoryInv'
    BY <1>3 DEF MemoryInv
  <1>4. ASSUME NEW assembly, RowsShare', Opens(assembly), UNCHANGED <<dense_image, refused>>,
               assembly.image = [origin |-> NoAddress, words |-> <<>>]
        PROVE  MemoryInv'
    <2>1. Opened(assembly)
      BY <1>4 DEF Opened
    <2>2. Span(assembly.image) = {}
      BY <1>4, NoSpan
    <2>3. IsLoaded(dense_image', assembly.image)
      BY <2>2 DEF IsLoaded
    <2>4. /\ IsSeq(assemblies)
          /\ \A k \in 1 .. Len(assemblies) :
                /\ Opened(assemblies[k])
                /\ IsLoaded(dense_image', assemblies[k].image)
          /\ DOMAIN dense_image \subseteq
                UNION ({Span(assemblies[k].image) : k \in DOMAIN assemblies}
                       \cup {Span(image) : image \in refused})
      BY <1>4 DEF MemoryInv
    <2>5. /\ IsSeq(assemblies')
          /\ \A k \in 1 .. Len(assemblies') :
                /\ Opened(assemblies'[k])
                /\ IsLoaded(dense_image', assemblies'[k].image)
          /\ {Span(assemblies'[k].image) : k \in DOMAIN assemblies'}
             = {Span(assemblies[k].image) : k \in DOMAIN assemblies}
               \cup {Span(assembly.image)}
      BY <1>4, <2>1, <2>3, <2>4, OpeningKeeps
    <2>6. DOMAIN dense_image' \subseteq
             UNION ({Span(assemblies'[k].image) : k \in DOMAIN assemblies'}
                    \cup {Span(image) : image \in refused'})
      BY <1>4, <2>4, <2>5
    <2> QED BY <1>4, <2>5, <2>6 DEF MemoryInv
  <1>5. CASE EditFile \/ PickFiles \/ SelectTab
    BY <1>1, <1>3, <1>5 DEF EditFile, PickFiles, SelectTab
  <1>6. CASE FileMissing
    BY <1>1, <1>3, <1>6 DEF FileMissing, OpenFails
  <1>7. CASE ParseFails
    BY <1>1, <1>4, <1>7 DEF ParseFails, NotParsed
  <1>8. CASE ParseFile
    BY <1>2, <1>3, <1>8 DEF ParseFile, desktopVars
  <1>9. CASE Encode
    BY <1>3, <1>9, EncoderStepShares DEF Encode, DesktopInv, MemoryInv, desktopVars
  <1>10. CASE OpenWithoutImage
    <2>1. /\ Opens(Assembly) /\ UNCHANGED <<dense_image, refused>>
          /\ ResetEncoder(<<>>, "idle")
          /\ Assembly.image = [origin |-> NoAddress, words |-> <<>>]
      BY <1>10 DEF OpenWithoutImage, Assembly, NotParsed
    <2> HIDE DEF Assembly
    <2> QED BY <1>2, <1>4, <2>1
  <1>11. CASE LoadImage
    <2>1. /\ HasImage
          /\ dense_image' = Loaded(dense_image, Image)
          /\ IF Loads(dense_image, Image)
             THEN Opens(Assembly) /\ UNCHANGED refused
             ELSE OpenFails(Head(queue)) /\ refused' = refused \cup {Image}
          /\ ResetEncoder(<<>>, "idle")
      BY <1>11 DEF LoadImage
    <2>2. /\ Image.origin = origin /\ Image.words = words
          /\ Assembly.image = Image /\ Assembly.listing = rows
      BY <2>1 DEF Image, Assembly
    <2>3. /\ origin \in Nat /\ IsSeq(words)
          /\ SharedOut(origin, Len(words), rows)
      BY <2>1, WordIsNat DEF HasImage, DesktopInv, EncoderInv, SecondPass, MemoryInv,
         RowsShare
    <2>4. Opened(Assembly)
      BY <2>2, <2>3 DEF Opened
    <2>5. RowsShare'
      BY <1>2, <2>1
    <2> HIDE DEF Image, Assembly
    <2>6. DOMAIN dense_image' \subseteq DOMAIN dense_image \cup Span(Image)
      BY <2>1, <2>2, <2>3, LoadingKeeps
    <2>7. /\ IsSeq(assemblies)
          /\ \A k \in 1 .. Len(assemblies) :
                /\ Opened(assemblies[k])
                /\ IsLoaded(dense_image', assemblies[k].image)
      <3>1. ASSUME NEW k \in 1 .. Len(assemblies)
            PROVE  Opened(assemblies[k]) /\ IsLoaded(dense_image', assemblies[k].image)
        <4>1. Opened(assemblies[k]) /\ IsLoaded(dense_image, assemblies[k].image)
          BY DEF MemoryInv
        <4> QED BY <2>1, <2>2, <2>3, <4>1, StaysLoaded
      <3> QED BY <3>1 DEF MemoryInv
    <2>8. DOMAIN dense_image \subseteq
             UNION ({Span(assemblies[k].image) : k \in DOMAIN assemblies}
                    \cup {Span(image) : image \in refused})
      BY DEF MemoryInv
    <2>9. CASE Loads(dense_image, Image)
      <3>1. Opens(Assembly) /\ refused' = refused
        BY <2>1, <2>9
      <3>2. IsLoaded(dense_image', Assembly.image)
        BY <2>1, <2>2, <2>9, LoadingLoads
      <3>3. /\ IsSeq(assemblies')
            /\ \A k \in 1 .. Len(assemblies') :
                  /\ Opened(assemblies'[k])
                  /\ IsLoaded(dense_image', assemblies'[k].image)
            /\ {Span(assemblies'[k].image) : k \in DOMAIN assemblies'}
               = {Span(assemblies[k].image) : k \in DOMAIN assemblies}
                 \cup {Span(Assembly.image)}
        BY <2>4, <2>7, <3>1, <3>2, OpeningKeeps
      <3>4. DOMAIN dense_image' \subseteq
               UNION ({Span(assemblies'[k].image) : k \in DOMAIN assemblies'}
                      \cup {Span(image) : image \in refused'})
        BY <2>2, <2>6, <2>8, <3>1, <3>3
      <3> QED BY <2>5, <3>3, <3>4 DEF MemoryInv
    <2>10. CASE ~Loads(dense_image, Image)
      <3>1. assemblies' = assemblies /\ refused' = refused \cup {Image}
        BY <2>1, <2>10 DEF OpenFails
      <3>2. DOMAIN dense_image' \subseteq
               UNION ({Span(assemblies'[k].image) : k \in DOMAIN assemblies'}
                      \cup {Span(image) : image \in refused'})
        BY <2>6, <2>8, <3>1
      <3> QED BY <2>5, <2>7, <3>1, <3>2 DEF MemoryInv
    <2> QED BY <2>9, <2>10
  <1>12. CASE UNCHANGED vars
    BY <1>1, <1>3, <1>12 DEF vars, desktopVars
  <1> QED BY <1>5, <1>6, <1>7, <1>8, <1>9, <1>10, <1>11, <1>12 DEF DesktopNext

\* So many words of an image of that origin from an address on.
WordsFrom(words_of, start, at, count) ==
    SubSeq(words_of, at - start + 1, at - start + count)

\* Where they are in the image.
LEMMA WordsFromShape ==
  ASSUME NEW s, IsSeq(s), NEW o \in Nat, NEW at \in Nat, NEW count \in Nat,
         count > 0, o <= at, at + count <= o + Len(s)
  PROVE  /\ DOMAIN WordsFrom(s, o, at, count) = 1 .. count
         /\ \A i \in 1 .. count :
               /\ WordsFrom(s, o, at, count)[i] = s[(at + i - 1) - o + 1]
               /\ at + i - 1 \in {o + p - 1 : p \in 1 .. Len(s)}
  <1> PICK m \in Nat : m = Len(s)
    BY SeqShape
  <1> DEFINE S == {s[i] : i \in 1 .. m}
  <1> PICK first \in Nat : first = at - o + 1
    OBVIOUS
  <1> PICK last \in Nat : last = at - o + count
    OBVIOUS
  <1>1. \A i \in first .. last : s[i] \in S
    OBVIOUS
  <1> HIDE DEF S
  <1> PICK w : w = SubSeq(s, first, last)
    OBVIOUS
  <1>2. /\ w \in Seq(S)
        /\ Len(w) = IF first <= last THEN last - first + 1 ELSE 0
        /\ \A i \in 1 .. last - first + 1 : w[i] = s[first + i - 1]
    BY <1>1, SubSeqProperties
  <1>3. first <= last /\ last - first + 1 = count
    OBVIOUS
  <1>4. DOMAIN w = 1 .. count
    BY <1>2, <1>3, AnySeq, SeqShape
  <1>5. ASSUME NEW i \in 1 .. count PROVE w[i] = s[(at + i - 1) - o + 1]
    <2>1. first + i - 1 = (at + i - 1) - o + 1
      OBVIOUS
    <2> QED BY <1>2, <1>3, <2>1
  <1>6. ASSUME NEW i \in 1 .. count PROVE at + i - 1 \in {o + p - 1 : p \in 1 .. m}
    <2>1. at - o + i \in 1 .. m /\ at + i - 1 = o + (at - o + i) - 1
      OBVIOUS
    <2> QED BY <2>1
  <1>7. WordsFrom(s, o, at, count) = w
    BY DEF WordsFrom
  <1> QED BY <1>4, <1>5, <1>6, <1>7

\* What the source view makes of a row of so many words from an address on.
FoundWords(words_of, start, at, count) ==
    IF /\ at # NoAddress
       /\ at - start >= 0
       /\ at - start + count <= Len(words_of)
       /\ start # NoAddress
    THEN WordsFrom(words_of, start, at, count) ELSE <<>>

\* They are those of the image from there on.
AreTheWords(found, words_of, start, at, count) ==
    /\ DOMAIN found = 1 .. count
    /\ \A i \in 1 .. count :
          /\ found[i] = words_of[(at + i - 1) - start + 1]
          /\ at + i - 1 \in {start + p - 1 : p \in 1 .. Len(words_of)}

\* The source view finds them where the row is within the image, and none where
\* it has none.
LEMMA FoundAreTheWords ==
  ASSUME NEW s, IsSeq(s), NEW o \in Nat, NEW at \in Int, NEW count \in Nat,
         count > 0 => at \in Nat /\ o <= at /\ at + count <= o + Len(s)
  PROVE  AreTheWords(FoundWords(s, o, at, count), s, o, at, count)
  <1>1. CASE count = 0
    <2>1. WordsFrom(s, o, at, count) = <<>>
      BY <1>1, SubSeqEmpty DEF WordsFrom
    <2>2. FoundWords(s, o, at, count) = <<>>
      BY <2>1 DEF FoundWords
    <2>3. DOMAIN <<>> = 1 .. 0
      BY EmptyIsSeq, SeqShape
    <2> QED BY <1>1, <2>2, <2>3 DEF AreTheWords
  <1>2. CASE count > 0
    <2> PICK m \in Nat : m = Len(s)
      BY SeqShape
    <2>1. at \in Nat /\ o <= at /\ at + count <= o + m
      BY <1>2
    <2>2. at - o >= 0 /\ at - o + count <= m
      BY <2>1
    <2>3. at # NoAddress /\ o # NoAddress
      BY <2>1 DEF NoAddress
    <2>4. FoundWords(s, o, at, count) = WordsFrom(s, o, at, count)
      BY <2>2, <2>3 DEF FoundWords
    <2> QED BY <1>2, <2>1, <2>4, WordsFromShape DEF AreTheWords
  <1> QED BY <1>1, <1>2

\* The words that the source view finds for a row are those of the image from
\* the row's address on, as many as the row has.
LEMMA WordsOfRow ==
  ASSUME NEW image, image.origin \in Nat, IsSeq(image.words),
         NEW row, RowWithin(image.origin, Len(image.words), row)
  PROVE  /\ DOMAIN WordsFor(image, row) = 1 .. row.word_count
         /\ \A i \in 1 .. row.word_count :
               /\ WordsFor(image, row)[i] = WordAt(image, row.address + i - 1)
               /\ row.address + i - 1 \in Span(image)
  <1>1. WordsFor(image, row)
        = FoundWords(image.words, image.origin, row.address, row.word_count)
    BY DEF WordsFor, FoundWords, WordsFrom
  <1>2. /\ row.address \in Int
        /\ row.word_count \in Nat
        /\ row.word_count > 0
           => /\ row.address \in Nat
              /\ image.origin <= row.address
              /\ row.address + row.word_count <= image.origin + Len(image.words)
    BY DEF RowWithin
  <1>3. AreTheWords(WordsFor(image, row), image.words, image.origin,
                    row.address, row.word_count)
    BY <1>1, <1>2, FoundAreTheWords
  <1>4. Span(image) = {image.origin + p - 1 : p \in 1 .. Len(image.words)}
    BY SpanOfImage
  <1> QED BY <1>3, <1>4 DEF AreTheWords, WordAt

\* The addresses of so many words from one on.
LEMMA InARow ==
  ASSUME NEW at \in Int, NEW count \in Nat, NEW x \in Int
  PROVE  x \in {at + i - 1 : i \in 1 .. count} <=> at <= x /\ x < at + count
  <1>1. ASSUME at <= x, x < at + count PROVE x \in {at + i - 1 : i \in 1 .. count}
    <2>1. x - at + 1 \in 1 .. count /\ x = at + (x - at + 1) - 1
      BY <1>1
    <2> QED BY <2>1
  <1> QED BY <1>1

\* What is shown of an assembly that is in memory.
LEMMA OpenedIsShown ==
  ASSUME NEW assembly, Opened(assembly), IsLoaded(dense_image, assembly.image),
         NEW shown, shown = SourceRows(assembly)
  PROVE  /\ \A a \in Span(assembly.image) :
               \E j \in DOMAIN shown :
                  /\ a \in ShownAt(shown[j])
                  /\ \A i \in DOMAIN shown \ {j} : a \notin ShownAt(shown[i])
         /\ \A j \in DOMAIN shown :
               /\ ShownAt(shown[j]) \subseteq Span(assembly.image)
               /\ \A i \in DOMAIN shown[j].words :
                     InMemory(shown[j].address + i - 1, shown[j].words[i])
  <1> DEFINE image   == assembly.image
             listing == assembly.listing
  <1>1. /\ DOMAIN shown = DOMAIN listing
        /\ \A j \in DOMAIN listing : /\ shown[j].address = listing[j].address
                                     /\ shown[j].words = WordsFor(image, listing[j])
    BY DEF SourceRows
  <1>2. CASE image.origin = NoAddress /\ image.words = <<>>
    <2>1. Span(image) = {}
      BY <1>2, NoSpan
    <2>2. ASSUME NEW j \in DOMAIN shown PROVE shown[j].words = <<>>
      BY <1>1, <1>2 DEF WordsFor
    <2>3. \A i \in DOMAIN <<>> : FALSE
      <3>1. DOMAIN <<>> = 1 .. 0
        BY EmptyIsSeq, SeqShape
      <3>2. \A i \in 1 .. 0 : FALSE
        OBVIOUS
      <3> QED BY <3>1, <3>2
    <2> QED BY <2>1, <2>2, <2>3 DEF ShownAt
  <1>3. CASE /\ image.origin \in Nat
             /\ IsSeq(image.words)
             /\ SharedOut(image.origin, Len(image.words), listing)
    <2> PICK m \in Nat : m = Len(image.words)
      BY <1>3, SeqShape
    <2> PICK o \in Nat : o = image.origin
      BY <1>3
    <2>1. DOMAIN listing = 1 .. Len(listing)
      BY <1>3, SeqShape DEF SharedOut
    <2>2. ASSUME NEW j \in DOMAIN listing
          PROVE  /\ listing[j].word_count \in Nat
                 /\ listing[j].address \in Int
                 /\ DOMAIN shown[j].words = 1 .. listing[j].word_count
                 /\ \A i \in 1 .. listing[j].word_count :
                       /\ shown[j].words[i] = WordAt(image, shown[j].address + i - 1)
                       /\ shown[j].address + i - 1 \in Span(image)
      <3>1. RowWithin(image.origin, Len(image.words), listing[j])
        BY <1>3, <2>1 DEF SharedOut
      <3>2. /\ DOMAIN WordsFor(image, listing[j]) = 1 .. listing[j].word_count
            /\ \A i \in 1 .. listing[j].word_count :
                  /\ WordsFor(image, listing[j])[i]
                     = WordAt(image, listing[j].address + i - 1)
                  /\ listing[j].address + i - 1 \in Span(image)
        BY <1>3, <3>1, WordsOfRow
      <3>3. listing[j].word_count \in Nat /\ listing[j].address \in Int
        BY <3>1 DEF RowWithin
      <3>4. /\ shown[j].address = listing[j].address
            /\ shown[j].words = WordsFor(image, listing[j])
        BY <1>1
      <3> QED BY <3>2, <3>3, <3>4
    <2>3. ASSUME NEW j \in DOMAIN listing, NEW p \in 1 .. m
          PROVE  o + p - 1 \in ShownAt(shown[j])
                 <=> RowShows(o, listing[j], p)
      <3> PICK at \in Int : at = listing[j].address
        BY <2>2
      <3> PICK count \in Nat : count = listing[j].word_count
        BY <2>2
      <3>1. ShownAt(shown[j]) = {at + i - 1 : i \in 1 .. count}
        BY <1>1, <2>2 DEF ShownAt
      <3>2. o + p - 1 \in {at + i - 1 : i \in 1 .. count}
            <=> at <= o + p - 1 /\ o + p - 1 < at + count
        <4>1. o + p - 1 \in Int
          OBVIOUS
        <4> QED BY <4>1, InARow
      <3>3. CASE at = NoAddress
        <4>1. count = 0
          <5>1. RowWithin(image.origin, Len(image.words), listing[j])
            BY <1>3, <2>1 DEF SharedOut
          <5> QED BY <3>3, <5>1 DEF RowWithin, NoAddress
        <4> QED BY <3>1, <3>2, <3>3, <4>1 DEF RowShows
      <3>4. CASE at # NoAddress
        BY <3>1, <3>2, <3>4 DEF RowShows
      <3> QED BY <3>3, <3>4
    <2>4. ASSUME NEW a \in Span(image)
          PROVE  \E j \in DOMAIN shown :
                    /\ a \in ShownAt(shown[j])
                    /\ \A i \in DOMAIN shown \ {j} : a \notin ShownAt(shown[i])
      <3>1. PICK p \in 1 .. m : a = o + p - 1
        BY <1>3, SpanOfImage
      <3>2. PICK j \in 1 .. Len(listing) :
               /\ RowShows(o, listing[j], p)
               /\ \A i \in 1 .. Len(listing) : RowShows(o, listing[i], p) => i = j
        BY <1>3 DEF SharedOut, ShownOnce
      <3>3. ASSUME NEW i \in DOMAIN shown
            PROVE  a \in ShownAt(shown[i]) <=> RowShows(o, listing[i], p)
        BY <1>1, <2>3, <3>1
      <3> QED BY <1>1, <2>1, <3>2, <3>3
    <2>5. ASSUME NEW j \in DOMAIN shown
          PROVE  /\ ShownAt(shown[j]) \subseteq Span(image)
                 /\ \A i \in DOMAIN shown[j].words :
                       InMemory(shown[j].address + i - 1, shown[j].words[i])
      BY <1>1, <2>2 DEF ShownAt, InMemory, IsLoaded
    <2> QED BY <2>4, <2>5
  <1> QED BY <1>2, <1>3 DEF Opened

\* Whatever is opened, edited and opened again: the memory holds the images of
\* the assemblies that are shown, each shown once, and nothing else but what a
\* refused image left.
THEOREM MemoryIsAccounted == DesktopSpec => []MemoryAccounted
  <1>1. DesktopInit => MemoryInv
    <2> SUFFICES ASSUME DesktopInit PROVE MemoryInv
      OBVIOUS
    <2>1. /\ phase = "idle" /\ assemblies = <<>> /\ dense_image = EmptyImage
      BY DEF DesktopInit, EncoderInit
    <2>2. DOMAIN dense_image = {}
      BY <2>1 DEF EmptyImage
    <2> QED BY <2>1, <2>2, EmptyIsSeq DEF MemoryInv, RowsShare
  <1>2. DesktopInv /\ MemoryInv /\ [DesktopNext]_vars => MemoryInv'
    BY MemoryStep
  <1>3. MemoryInv => MemoryAccounted
    <2> SUFFICES ASSUME MemoryInv PROVE MemoryAccounted
      OBVIOUS
    <2>1. ASSUME NEW k \in DOMAIN assemblies
          PROVE  Opened(assemblies[k]) /\ IsLoaded(dense_image, assemblies[k].image)
      BY SeqShape DEF MemoryInv
    <2>2. ASSUME NEW k \in DOMAIN assemblies, NEW a \in Span(assemblies[k].image)
          PROVE  InMemory(a, WordAt(assemblies[k].image, a))
      BY <2>1 DEF IsLoaded, InMemory
    <2> HIDE DEF InMemory
    <2> QED BY <2>1, <2>2, OpenedIsShown DEF MemoryInv, MemoryAccounted
  <1> QED BY <1>1, <1>2, <1>3, AssemblerInvariant, PTL DEF DesktopSpec
=============================================================================
