--------------------------- MODULE LC3CommandLine ---------------------------
(***************************************************************************)
(* sw/crates/lc3-cli: `lc3 asm', which assembles a file into an object     *)
(* file and a symbol file, and `lc3 sim run', which lays object files over *)
(* one memory and hands it to the simulator.  Commands are given one after *)
(* another.  A command may fail at any access to a file, or be killed at   *)
(* any moment, and leaves the files as they are then.                      *)
(*                                                                         *)
(* Sources are edited between commands, so that asm may find any text; of  *)
(* a text `assemble' makes no image or one (LC3Encoder).  An output file   *)
(* is {} while it does not exist, and else holds its content.              *)
(*                                                                         *)
(* History: `begun' is for each object path the image for which the file   *)
(* was last created, and `good' holds the successful runs of asm whose     *)
(* files no later run has begun to write.                                  *)
(***************************************************************************)
EXTENDS LC3Images, FiniteSets

CONSTANTS
    Paths,        \* of files, without their extension
    Texts,        \* contents of an assembly file
    assemble,     \* from the texts to {} or the image of each
    MaxCommands   \* bound on commands

ASSUME CommandLineParameters ==
    /\ DOMAIN assemble = Texts
    /\ \A t \in Texts : /\ Cardinality(assemble[t]) <= 1
                        /\ \A i \in assemble[t] : /\ i.origin \in Word
                                                  /\ i.words \in Seq(Word)
                                                  /\ ~TooLong(i)
    /\ MaxCommands \in Nat

VARIABLES
    objects, symbols,   \* the files of each object and symbol path
    phase,              \* what the command that runs is about to do, or "idle"
    obj, sym,           \* arguments of asm
    image,              \* the image it writes
    todo,               \* the bytes write_all has not written yet
    files,              \* arguments of sim
    images,             \* what it has read of them so far
    fitted,             \* how many of them are in the memory
    memory,             \* the dense image it gives to the simulator
    exit,               \* how the last command ended
    commands,           \* number of commands
    begun, good

asmVars == <<obj, sym, image, todo>>
simVars == <<files, images, fitted, memory>>
disk    == <<objects, symbols, begun, good>>
cliVars == <<disk, phase, asmVars, simVars, exit, commands>>

NoImage == [origin |-> 0, words |-> <<>>, symbols |-> EmptyImage]

ObjectBytes(i) == BeBytes(<<i.origin>>) \o BeBytes(i.words)

CommandLineInit ==
    /\ objects = [p \in Paths |-> {}]
    /\ symbols = [p \in Paths |-> {}]
    /\ phase = "idle"
    /\ obj = {}
    /\ sym = {}
    /\ image = NoImage
    /\ todo = <<>>
    /\ files = <<>>
    /\ images = <<>>
    /\ fitted = 0
    /\ memory = EmptyImage
    /\ exit = "none"
    /\ commands = 0
    /\ begun = [p \in Paths |-> NoImage]
    /\ good = {}

NewCommand == /\ phase = "idle"
              /\ commands < MaxCommands
              /\ commands' = commands + 1

\* The process ends, and nothing of it is left but the files.
Ends(status) ==
    /\ phase' = "idle"
    /\ exit' = status
    /\ obj' = {}
    /\ sym' = {}
    /\ image' = NoImage
    /\ todo' = <<>>
    /\ files' = <<>>
    /\ images' = <<>>
    /\ fitted' = 0
    /\ memory' = EmptyImage
    /\ UNCHANGED commands

Fails == Ends("error") /\ UNCHANGED disk

Kill == phase # "idle" /\ Ends("killed") /\ UNCHANGED disk

\* It goes on, with what it has in the variables not named here.
AsmGoesOn(next) == /\ phase' = next
                   /\ UNCHANGED <<obj, sym, simVars, exit, commands>>
SimGoesOn(next) == /\ phase' = next
                   /\ UNCHANGED <<disk, asmVars, files, exit, commands>>

(***************************************************************************)
(* run_asm.                                                                *)
(***************************************************************************)
\* --obj and --sym may name other files than those beside the input.
Asm(o, s) ==
    /\ NewCommand
    /\ phase' = "assemble"
    /\ obj' = {o}
    /\ sym' = {s}
    /\ UNCHANGED <<disk, image, todo, simVars, exit>>

\* The input cannot be opened or read, or has errors.
InputFails == phase = "assemble" /\ Fails

InputAssembled ==
    /\ phase = "assemble"
    /\ \E t \in Texts : \E i \in assemble[t] : image' = i
    /\ AsmGoesOn("create")
    /\ UNCHANGED <<disk, todo>>

CreateFails == phase = "create" /\ Fails

Disturbs(o, s) == good' = {r \in good : r.obj \notin o /\ r.sym \notin s}

\* Mutant of CreateObject: the file is opened for appending.
CreateObject_Appends ==
    /\ phase = "create"
    /\ objects' = [p \in Paths |->
                     IF p \in obj /\ objects[p] = {} THEN {<<>>} ELSE objects[p]]
    /\ begun' = [p \in Paths |-> IF p \in obj THEN image ELSE begun[p]]
    /\ Disturbs(obj, {})
    /\ todo' = BeBytes(<<image.origin>>)
    /\ AsmGoesOn("origin")
    /\ UNCHANGED <<symbols, image>>

\* File::create empties a file that exists.
CreateObject ==
    /\ phase = "create"
    /\ objects' = [p \in Paths |-> IF p \in obj THEN {<<>>} ELSE objects[p]]
    /\ begun' = [p \in Paths |-> IF p \in obj THEN image ELSE begun[p]]
    /\ Disturbs(obj, {})
    /\ todo' = BeBytes(<<image.origin>>)
    /\ AsmGoesOn("origin")
    /\ UNCHANGED <<symbols, image>>

\* One write(2) of the loop of write_all, which may take any part of the rest.
WriteBytes ==
    /\ phase \in {"origin", "words"}
    /\ \E n \in 1 .. Len(todo) :
          /\ objects' = [p \in Paths |->
                IF p \in obj THEN {b \o SubSeq(todo, 1, n) : b \in objects[p]}
                             ELSE objects[p]]
          /\ todo' = SubSeq(todo, n + 1, Len(todo))
    /\ AsmGoesOn(phase)
    /\ UNCHANGED <<symbols, begun, good, image>>

\* Mutant of WriteFails: the error is dropped.
WriteFails_Ignored == /\ phase \in {"origin", "words"}
                      /\ todo # <<>>
                      /\ todo' = <<>>
                      /\ AsmGoesOn(phase)
                      /\ UNCHANGED <<disk, image>>

WriteFails == phase \in {"origin", "words"} /\ todo # <<>> /\ Fails

OriginWritten ==
    /\ phase = "origin"
    /\ todo = <<>>
    /\ todo' = BeBytes(image.words)
    /\ AsmGoesOn("words")
    /\ UNCHANGED <<disk, image>>

WordsWritten ==
    /\ phase = "words"
    /\ todo = <<>>
    /\ AsmGoesOn("symbols")
    /\ UNCHANGED <<disk, image, todo>>

Lines(content) ==
    symbols' = [p \in Paths |-> IF p \in sym THEN {content} ELSE symbols[p]]

\* std::fs::write of the symbol file: it cannot be opened, or it is emptied and
\* filled as far as that goes.
SymbolsNotOpened == phase = "symbols" /\ Fails

SymbolsFail ==
    /\ phase = "symbols"
    /\ \E n \in 0 .. Len(SymbolString(image)) - 1 :
          Lines(SubSeq(SymbolString(image), 1, n))
    /\ Disturbs({}, sym)
    /\ Ends("error")
    /\ UNCHANGED <<objects, begun>>

WriteSymbols ==
    /\ phase = "symbols"
    /\ Lines(SymbolString(image))
    /\ \E o \in obj, s \in sym :
          good' = {r \in good : r.sym # s}
                  \cup {[obj |-> o, sym |-> s, image |-> image]}
    /\ Ends("ok")
    /\ UNCHANGED <<objects, begun>>

(***************************************************************************)
(* run_sim.                                                                *)
(***************************************************************************)
SimRun(paths) ==
    /\ NewCommand
    /\ phase' = "read"
    /\ files' = paths
    /\ UNCHANGED <<disk, asmVars, images, fitted, memory, exit>>

ToRead == phase = "read" /\ Len(images) < Len(files)
AllRead == phase = "read" /\ Len(images) = Len(files)

\* fs::read fails.
ReadFails == ToRead /\ Fails

\* MemoryImage::try_from takes what was read, or does not.
NotAnObject ==
    /\ ToRead
    /\ \E bytes \in objects[files[Len(images) + 1]] : ~IsObject(bytes)
    /\ Fails

ReadObject ==
    /\ ToRead
    /\ \E bytes \in objects[files[Len(images) + 1]] :
          /\ IsObject(bytes)
          /\ images' = Append(images, TryFrom(bytes))
    /\ SimGoesOn("read")
    /\ UNCHANGED <<fitted, memory>>

\* from_memory_images: a turn of its loop for each image, while they fit.
ToFit == AllRead /\ fitted < Len(images)

ImagesClash == ToFit /\ ~Loads(memory, images[fitted + 1]) /\ Fails

FitImage ==
    /\ ToFit
    /\ Loads(memory, images[fitted + 1])
    /\ memory' = Loaded(memory, images[fitted + 1])
    /\ fitted' = fitted + 1
    /\ SimGoesOn("read")
    /\ UNCHANGED images

Compose ==
    /\ AllRead
    /\ fitted = Len(images)
    /\ SimGoesOn("simulate")
    /\ UNCHANGED <<images, fitted, memory>>

\* load_dense_image and run; without the Verilator back end both fail.
SimulatorFails == phase = "simulate" /\ Fails
Simulated == phase = "simulate" /\ Ends("ok") /\ UNCHANGED disk

AsmNext == \/ \E o, s \in Paths : Asm(o, s)
           \/ InputFails \/ InputAssembled
           \/ CreateFails \/ CreateObject
           \/ WriteBytes \/ WriteFails \/ OriginWritten \/ WordsWritten
           \/ SymbolsNotOpened \/ SymbolsFail \/ WriteSymbols

SimNext == \/ \E p \in Paths : SimRun(<<p>>)
           \/ \E p, q \in Paths : SimRun(<<p, q>>)
           \/ ReadFails \/ NotAnObject \/ ReadObject
           \/ ImagesClash \/ FitImage \/ Compose
           \/ SimulatorFails \/ Simulated

CommandLineNext == Kill \/ AsmNext \/ SimNext

CommandLineSpec == CommandLineInit /\ [][CommandLineNext]_cliVars
-----------------------------------------------------------------------------
\* After a run of asm that ended well its object file and its symbol file are
\* those of the image it assembled, to the last byte, and stay so through runs
\* that end with diagnostics, cannot read their input or cannot create a file,
\* until a later run begins to write one of them.
FilesOfLastSuccess ==
    phase = "idle" =>
        \A r \in good : /\ objects[r.obj] = {ObjectBytes(r.image)}
                        /\ symbols[r.sym] = {SymbolString(r.image)}

Whole(p)         == \E r \in good : r.obj = p
HasWord(i, a, w) == a \in Span(i) /\ WordAt(i, a) = w

\* The simulator runs what was assembled: each word of the memory it is given
\* is at the place of that word in an image that was written to one of the
\* object files, and no word of a file that was written to its end is missing
\* or lies under another.  A file that was left half written counts as far as
\* it goes, for nothing in it says where it was to end.
RunsWhatWasAssembled ==
    phase = "simulate" =>
        /\ \A a \in DOMAIN memory :
              \E k \in DOMAIN files : HasWord(begun[files[k]], a, memory[a])
        /\ \A k \in DOMAIN files : Whole(files[k]) =>
              Span(begun[files[k]]) \subseteq DOMAIN memory
        /\ \A j, k \in DOMAIN files :
              j # k /\ Whole(files[j]) /\ Whole(files[k]) =>
                  Span(begun[files[j]]) \cap Span(begun[files[k]]) = {}
=============================================================================
