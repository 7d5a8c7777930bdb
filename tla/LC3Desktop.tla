----------------------------- MODULE LC3Desktop -----------------------------
(***************************************************************************)
(* sw/apps/desktop: opening assembly files into one program.  The user     *)
(* picks several files at a time; each is read, assembled by LC3Encoder    *)
(* and laid over what is loaded already.  A file may be edited before it   *)
(* is picked again.                                                        *)
(***************************************************************************)
EXTENDS LC3Encoder, LC3Images

\* Sessions of a user: the sources each path may have, and the sequences of
\* paths that will be picked in the dialog, one after the other.
CONSTANT Sessions

ASSUME SourcesAssumption ==
    \A session \in Sessions : \A p \in DOMAIN session.shelf :
       session.shelf[p] \subseteq Seq(SourceLine)

VARIABLES
    shelf, picks,  \* the session, and what is still to be picked in it
    disk,          \* the present source of each path
    queue,         \* the picked files that are not opened yet
    dense_image,
    assemblies,    \* what was opened, as records of path, image and listing
    selected,      \* the number of the assembly that is shown, or 0
    load_errors,   \* the paths that could not be opened
    refused        \* history: images that met an occupied word

desktopVars == <<shelf, picks, disk, queue, dense_image, assemblies,
                 selected, load_errors, refused>>
vars == <<encoderVars, desktopVars>>

DesktopInit ==
    /\ EncoderInit
    /\ \E session \in Sessions : shelf = session.shelf /\ picks = session.picks
    /\ disk \in {d \in [DOMAIN shelf -> UNION {shelf[p] : p \in DOMAIN shelf}] :
                    \A p \in DOMAIN shelf : d[p] \in shelf[p]}
    /\ queue = <<>>
    /\ dense_image = EmptyImage
    /\ assemblies = <<>>
    /\ selected = 0
    /\ load_errors = {}
    /\ refused = {}

\* Between two files, which is as good as at any other time.
EditFile ==
    /\ phase = "idle"
    /\ \E p \in DOMAIN shelf : \E source \in shelf[p] \ {disk[p]} :
          disk' = [disk EXCEPT ![p] = source]
    /\ UNCHANGED <<encoderVars, shelf, picks, queue, dense_image, assemblies,
                   selected, load_errors, refused>>

\* open_paths is called with what was picked.
PickFiles ==
    /\ phase = "idle"
    /\ queue = <<>>
    /\ picks # <<>>
    /\ queue' = Head(picks)
    /\ picks' = Tail(picks)
    /\ load_errors' = {}
    /\ UNCHANGED <<encoderVars, shelf, disk, dense_image, assemblies, selected,
                   refused>>

\* A click on a tab of show_source.
SelectTab ==
    /\ phase = "idle"
    /\ queue = <<>>
    /\ selected' \in DOMAIN assemblies
    /\ UNCHANGED <<encoderVars, shelf, picks, disk, queue, dense_image, assemblies,
                   load_errors, refused>>

NextFile == /\ phase = "idle"
            /\ queue # <<>>

\* open_paths goes on with the next file after an error.
OpenFails(path) ==
    /\ load_errors' = load_errors \cup {path}
    /\ queue' = Tail(queue)
    /\ UNCHANGED <<assemblies, selected>>

Opens(assembly) ==
    /\ assemblies' = Append(assemblies, assembly)
    /\ selected' = Len(assemblies) + 1
    /\ queue' = Tail(queue)
    /\ UNCHANGED load_errors

FileMissing ==
    /\ NextFile
    /\ Head(queue) \notin DOMAIN disk
    /\ OpenFails(Head(queue))
    /\ UNCHANGED <<encoderVars, shelf, picks, disk, dense_image, refused>>

\* A source that cannot be parsed is opened with one diagnostic and no listing.
NotParsed(path) == [path |-> path, image |-> [origin |-> NoAddress, words |-> <<>>],
                    listing |-> <<>>]

ParseFails ==
    /\ NextFile
    /\ Head(queue) \in DOMAIN disk
    /\ ~Parses(disk[Head(queue)])
    /\ Opens(NotParsed(Head(queue)))
    /\ UNCHANGED <<encoderVars, shelf, picks, disk, dense_image, refused>>

ParseFile ==
    /\ NextFile
    /\ Head(queue) \in DOMAIN disk
    /\ Parses(disk[Head(queue)])
    /\ ResetEncoder(ParseSource(disk[Head(queue)]), "origin")
    /\ UNCHANGED desktopVars

Image == [origin |-> origin, words |-> words]
Assembly == [path |-> Head(queue),
             image |-> IF HasImage THEN Image ELSE NotParsed(Head(queue)).image,
             listing |-> rows]

\* load_image_from_asm without an image: the assembly is shown for its
\* diagnostics.
OpenWithoutImage ==
    /\ phase = "done"
    /\ ~HasImage
    /\ Opens(Assembly)
    /\ ResetEncoder(<<>>, "idle")
    /\ UNCHANGED <<shelf, picks, disk, dense_image, refused>>

LoadImage ==
    /\ HasImage
    /\ dense_image' = Loaded(dense_image, Image)
    /\ IF Loads(dense_image, Image)
       THEN Opens(Assembly) /\ UNCHANGED refused
       ELSE OpenFails(Head(queue)) /\ refused' = refused \cup {Image}
    /\ ResetEncoder(<<>>, "idle")
    /\ UNCHANGED <<shelf, picks, disk>>

Encode == EncoderNext /\ UNCHANGED desktopVars

DesktopNext == \/ EditFile \/ PickFiles \/ SelectTab \/ FileMissing \/ ParseFails \/ ParseFile
               \/ Encode \/ OpenWithoutImage \/ LoadImage

(***************************************************************************)
(* What show_source shows of an assembly: a row for each row of its        *)
(* listing, with the words that are found for it in the image.             *)
(***************************************************************************)
WordsFor(image, row) ==
    LET start == row.address - image.origin
        found == /\ image.origin # NoAddress
                 /\ row.address # NoAddress
                 /\ start >= 0
                 /\ start + row.word_count <= Len(image.words)
    IN IF found THEN SubSeq(image.words, start + 1, start + row.word_count) ELSE <<>>

SourceRows(assembly) ==
    [k \in DOMAIN assembly.listing |->
       [line    |-> assembly.listing[k].line,
        address |-> assembly.listing[k].address,
        words   |-> WordsFor(assembly.image, assembly.listing[k])]]

DesktopSpec == DesktopInit /\ [][DesktopNext]_vars

(***************************************************************************)
(* Properties.                                                             *)
(***************************************************************************)
\* The second pass of encoder.rs places every label where the first pass said
\* it would: as long as nothing was complained of, the words made so far end
\* at the address that the symbol table has for the label of the statement.
PassesAgree ==
    /\ phase = "encode" /\ diagnostics = {} /\ next <= Len(statements)
    /\ Now.label # ""
    => symbols[Upper[Now.label]] = origin + Len(words)

\* Only a label one past xFFFF makes .FILL panic (the expect() of encode_fill):
\* no label lies farther out, however the first pass goes on after an overflow.
PanicsOnlyAtTop == phase = "panic" => FillAddress = LAST_ADDRESS + 1

\* The listing that the desktop shows splits the words of an image among its
\* statements: each row begins where the one before ended, and the last one
\* ends with the image, within memory.
RowStart(k) == IF rows[k].address = NoAddress THEN LAST_ADDRESS + 1 ELSE rows[k].address
RowEnd(k)   == RowStart(k) + rows[k].word_count

ListingCoversImage ==
    HasImage =>
       /\ Len(rows) = Len(statements)
       /\ RowStart(1) = origin
       /\ \A k \in 1 .. Len(rows) - 1 : RowStart(k + 1) = RowEnd(k)
       /\ RowEnd(Len(rows)) = origin + Len(words)
       /\ origin + Len(words) <= LAST_ADDRESS + 1

\* The processor decodes from each word what its statement says: rtl/lc3_core.sv
\* takes the fields that encoder.rs filled, and its PC-relative addresses are
\* the addresses of the labels.
HasOpcode(s, word) ==
    \/ s.operation \in Branches           /\ Opcode(word) = OP_BR
    \/ s.operation \in {"TRAP"} \cup Traps /\ Opcode(word) = OP_TRAP
    \/ s.operation \in {"JMP", "JMPT", "RET", "RTT"} /\ Opcode(word) = OP_JMP
    \/ s.operation \in {"JSR", "JSRR"}    /\ Opcode(word) = OP_JSR
    \/ <<s.operation, Opcode(word)>> \in
          {<<"ADD", OP_ADD>>, <<"AND", OP_AND>>, <<"NOT", OP_NOT>>,
           <<"LD", OP_LD>>, <<"LDI", OP_LDI>>, <<"LDR", OP_LDR>>,
           <<"LEA", OP_LEA>>, <<"ST", OP_ST>>, <<"STI", OP_STI>>,
           <<"STR", OP_STR>>, <<"RTI", OP_RTI>>}

\* Register operands, and a number as the processor extends it.
HasOperands(s, word) ==
    LET value(i) == s.operands[i].number
    IN CASE s.operation \in {"ADD", "AND"} ->
              /\ DR(word) = value(1)
              /\ SR1(word) = value(2)
              /\ IsImm(word) <=> s.operands[3].token = "number"
              /\ IF IsImm(word) THEN Imm5(word) = value(3) % 65536
                                ELSE SR2(word) = value(3)
         [] s.operation \in {"LDR", "STR"} ->
              /\ DR(word) = value(1)
              /\ SR1(word) = value(2)
              /\ Offset6(word) = value(3) % 65536
         [] s.operation = "NOT" -> DR(word) = value(1) /\ SR1(word) = value(2)
         [] s.operation \in {"LD", "LDI", "LEA", "ST", "STI"} -> DR(word) = value(1)
         [] s.operation \in Branches -> DR(word) = BranchFlags(s.operation)
         [] s.operation \in {"JMP", "JMPT"} ->
              SR1(word) = value(1) /\ (IsRtt(word) <=> s.operation = "JMPT")
         [] s.operation \in {"RET", "RTT"} ->
              SR1(word) = 7 /\ (IsRtt(word) <=> s.operation = "RTT")
         [] s.operation = "JSRR" -> SR1(word) = value(1) /\ ~IsJsr(word)
         [] s.operation = "JSR"  -> IsJsr(word)
         [] s.operation = "TRAP" -> TrapVector(word) = value(1)
         [] OTHER -> TRUE

\* What the processor adds to the incremented PC.
Reaches(s, a, word) ==
    LET name   == s.operands[Len(s.operands)].name
        offset == IF s.operation = "JSR" THEN PcOffset11(word) ELSE PcOffset9(word)
    IN s.operation \in Branches \cup {"JSR", "LD", "LDI", "LEA", "ST", "STI"}
       => Plus(Plus(a, 1), offset) = symbols[Upper[name]] % 65536

DecodesAsWritten ==
    HasImage =>
       \A k \in DOMAIN rows :
          statements[k].operation \in WordWise \ {".FILL"} =>
             LET word == words[rows[k].address - origin + 1]
             IN /\ HasOpcode(statements[k], word)
                /\ HasOperands(statements[k], word)
                /\ Reaches(statements[k], rows[k].address, word)

\* Every opened assembly stays in memory word for word, every other word that
\* is occupied was left by an image that LoadImage refused half way, and the
\* source view shows each word of an image in one row, and as it is in memory.
InMemory(a, word) == a \in DOMAIN dense_image /\ dense_image[a] = word

ShownAt(row) == {row.address + i - 1 : i \in DOMAIN row.words}

MemoryAccounted ==
    /\ \A k \in DOMAIN assemblies :
          LET image == assemblies[k].image
              shown == SourceRows(assemblies[k])
          IN /\ \A a \in Span(image) :
                   /\ InMemory(a, WordAt(image, a))
                   /\ \E j \in DOMAIN shown :
                         /\ a \in ShownAt(shown[j])
                         /\ \A i \in DOMAIN shown \ {j} : a \notin ShownAt(shown[i])
             /\ \A j \in DOMAIN shown :
                   /\ ShownAt(shown[j]) \subseteq Span(image)
                   /\ \A i \in DOMAIN shown[j].words :
                         InMemory(shown[j].address + i - 1, shown[j].words[i])
    /\ DOMAIN dense_image \subseteq
          UNION ({Span(assemblies[k].image) : k \in DOMAIN assemblies}
                 \cup {Span(image) : image \in refused})
=============================================================================
