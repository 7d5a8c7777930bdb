------------------------ MODULE LC3CommandLineProofs ------------------------
(***************************************************************************)
(* The files that `lc3 asm' leaves and the memory that `lc3 sim run' makes *)
(* of them, for any paths, any texts and any number of commands.           *)
(*                                                                         *)
(* A run of asm owns the object file it has created: no successful run is  *)
(* remembered of it any more, so that what is done to it half way hurts    *)
(* none, and what is in it and what is still to be written are together    *)
(* the object of the image (Writing).  Hence every object file is at any   *)
(* time the beginning of the object of the image it was created for        *)
(* (FilesBegun), what is read of it is the beginning of that image         *)
(* (ReadBack), and the loop of the loader puts each of those in its place  *)
(* and none over another (InPlace).                                        *)
(***************************************************************************)
EXTENDS LC3CommandLine, TLAPS, SequenceTheorems

AsmPhases == {"assemble", "create", "origin", "words", "symbols"}

GoodFiles ==
    \A r \in good : /\ r.obj \in Paths /\ r.sym \in Paths
                    /\ objects[r.obj] = {ObjectBytes(r.image)}
                    /\ symbols[r.sym] = {SymbolString(r.image)}

Arguments ==
    phase \in AsmPhases => \E o, s \in Paths : obj = {o} /\ sym = {s}

IsImage(i) == i.origin \in Word /\ i.words \in Seq(Word)

\* What is to be in the object file when the present write_all is through.
Target == IF phase = "origin" THEN BeBytes(<<image.origin>>) ELSE ObjectBytes(image)

Writing ==
    /\ phase \in {"create", "origin", "words", "symbols"} => IsImage(image)
    /\ phase \in {"origin", "words", "symbols"} =>
          \A r \in good : r.obj \notin obj
    /\ phase \in {"origin", "words"} =>
          /\ todo \in Seq(Nat)
          /\ \A o \in obj : \E done \in Seq(Nat) :
                objects[o] = {done} /\ done \o todo = Target
    /\ phase = "symbols" => \A o \in obj : objects[o] = {ObjectBytes(image)}

CommandLineInv == GoodFiles /\ Arguments /\ Writing

\* Every byte is of some word.
LEMMA WordOfByte ==
  ASSUME NEW n \in Nat, NEW i \in 1 .. 2 * n
  PROVE  /\ i % 2 = 1 => (i + 1) \div 2 \in 1 .. n
         /\ i % 2 # 1 => i \div 2 \in 1 .. n
  OBVIOUS

\* The two bytes of a word.
LEMMA BytesOfWord ==
  ASSUME NEW w \in Nat
  PROVE  w \div 256 \in Nat /\ w % 256 \in Nat
  OBVIOUS

\* Words are written as bytes, two for each.
LEMMA BytesOfWords ==
  ASSUME NEW w \in Seq(Nat)
  PROVE  BeBytes(w) \in Seq(Nat)
  <1>1. Len(w) \in Nat /\ \A i \in 1 .. Len(w) : w[i] \in Nat
    BY LenProperties, ElementOfSeq
  <1> DEFINE byte(i) == IF i % 2 = 1 THEN w[(i + 1) \div 2] \div 256
                                     ELSE w[i \div 2] % 256
  <1>2. ASSUME NEW i \in 1 .. 2 * Len(w)
        PROVE  byte(i) \in Nat
    <2>1. CASE i % 2 = 1
      <3>1. w[(i + 1) \div 2] \in Nat
        BY <1>1, <2>1, WordOfByte
      <3> QED BY <2>1, <3>1, BytesOfWord
    <2>2. CASE i % 2 # 1
      <3>1. w[i \div 2] \in Nat
        BY <1>1, <2>2, WordOfByte
      <3> QED BY <2>2, <3>1, BytesOfWord
    <2> QED BY <2>1, <2>2
  <1>3. BeBytes(w) = [i \in 1 .. 2 * Len(w) |-> byte(i)]
    BY DEF BeBytes
  <1>4. 2 * Len(w) \in Nat
    BY <1>1
  <1> HIDE DEF byte
  <1>5. [i \in 1 .. 2 * Len(w) |-> byte(i)] \in [1 .. 2 * Len(w) -> Nat]
    BY <1>2
  <1>6. \A n \in Nat : \A f \in [1 .. n -> Nat] : f \in Seq(Nat)
    OBVIOUS
  <1> QED BY <1>3, <1>4, <1>5, <1>6

\* The bytes of the origin, and of the words behind it, are sequences.
LEMMA BytesOfImage ==
  ASSUME NEW i, IsImage(i)
  PROVE  /\ BeBytes(<<i.origin>>) \in Seq(Nat)
         /\ BeBytes(i.words) \in Seq(Nat)
         /\ ObjectBytes(i) = BeBytes(<<i.origin>>) \o BeBytes(i.words)
  <1>1. i.origin \in Nat /\ i.words \in Seq(Nat)
    <2>1. Word \subseteq Nat
      BY DEF Word
    <2>2. \A s \in Seq(Word) : s \in Seq(Nat)
      BY <2>1, SeqMonotonic
    <2> QED BY <2>1, <2>2 DEF IsImage
  <1>2. <<i.origin>> \in Seq(Nat)
    BY <1>1
  <1> QED BY <1>1, <1>2, BytesOfWords DEF ObjectBytes

\* A file to which two parts are written one after the other.  Put has a name
\* so that the equations below stay equations of terms.
Put(done, part) == done \o part

\* Written after what is done, the two parts follow each other.
LEMMA TwoParts ==
  ASSUME NEW S, NEW done \in Seq(S), NEW front \in Seq(S), NEW back \in Seq(S)
  PROVE  /\ Put(done, front) \in Seq(S)
         /\ Put(Put(done, front), back) = Put(done, Put(front, back))
  <1>1. /\ done \o front \in Seq(S)
        /\ (done \o front) \o back = done \o (front \o back)
    OBVIOUS
  <1> QED BY <1>1 DEF Put

\* A write(2) moves bytes from the rest to the file and loses none.
LEMMA PartWritten ==
  ASSUME NEW done \in Seq(Nat), NEW rest \in Seq(Nat), NEW n \in 1 .. Len(rest)
  PROVE  /\ Put(done, SubSeq(rest, 1, n)) \in Seq(Nat)
         /\ SubSeq(rest, n + 1, Len(rest)) \in Seq(Nat)
         /\ Put(Put(done, SubSeq(rest, 1, n)), SubSeq(rest, n + 1, Len(rest)))
               = Put(done, rest)
  <1> DEFINE front == SubSeq(rest, 1, n)
             back  == SubSeq(rest, n + 1, Len(rest))
  <1>1. Len(rest) \in Nat /\ n \in 1 .. Len(rest)
    BY LenProperties
  <1>2. \A i \in 1 .. Len(rest) : rest[i] \in Nat
    BY ElementOfSeq
  <1>3. front \in Seq(Nat) /\ back \in Seq(Nat)
    BY <1>1, <1>2, SubSeqProperties
  <1>4. Put(front, back) = rest
    <2>1. /\ 1 \in 1 .. Len(rest) + 1
          /\ n \in 1 - 1 .. Len(rest)
          /\ Len(rest) \in n .. Len(rest)
      BY <1>1
    <2>2. front \o back = SubSeq(rest, 1, Len(rest))
      BY <2>1, ConcatAdjacentSubSeq
    <2> QED BY <2>2, SubSeqFull DEF Put
  <1> HIDE DEF front, back
  <1>5. /\ Put(done, front) \in Seq(Nat)
        /\ Put(Put(done, front), back) = Put(done, Put(front, back))
    BY <1>3, TwoParts
  <1> QED BY <1>3, <1>4, <1>5 DEF front, back
-----------------------------------------------------------------------------
\* Before the first command nothing has been written by one.
LEMMA CommandLineInvInit == CommandLineInit => CommandLineInv
  BY DEF CommandLineInit, CommandLineInv, GoodFiles, Arguments, Writing, AsmPhases

\* A command that ends leaves only the files, and those of the successful runs
\* are as they were.
LEMMA EndsKeeps ==
  ASSUME GoodFiles', phase' = "idle"
  PROVE  CommandLineInv'
  BY DEF CommandLineInv, Arguments, Writing, AsmPhases

\* The first write is of the origin, to an empty file.
LEMMA CreateObjectKeeps ==
  ASSUME CommandLineInv, CreateObject
  PROVE  CommandLineInv'
  <1>1. /\ phase = "create" /\ phase' = "origin"
        /\ obj' = obj /\ sym' = sym /\ image' = image /\ symbols' = symbols
        /\ objects' = [p \in Paths |-> IF p \in obj THEN {<<>>} ELSE objects[p]]
        /\ good' = {r \in good : r.obj \notin obj}
        /\ todo' = BeBytes(<<image.origin>>)
    BY DEF CreateObject, AsmGoesOn, Disturbs
  <1>2. GoodFiles'
    BY <1>1 DEF CommandLineInv, GoodFiles
  <1>3. obj \subseteq Paths /\ IsImage(image)
    BY <1>1 DEF CommandLineInv, Arguments, AsmPhases, Writing
  <1>4. Writing'
    <2>1. BeBytes(<<image.origin>>) \in Seq(Nat)
      BY <1>3, BytesOfImage
    <2>2. <<>> \in Seq(Nat) /\ <<>> \o BeBytes(<<image.origin>>) = BeBytes(<<image.origin>>)
      BY <2>1, EmptySeq, ConcatEmptySeq
    <2>3. \A o \in obj : objects'[o] = {<<>>}
      BY <1>1, <1>3
    <2>4. Target' = todo'
      BY <1>1 DEF Target
    <2> HIDE DEF BeBytes
    <2>5. \A o \in obj' : \E done \in Seq(Nat) :
             objects'[o] = {done} /\ done \o todo' = Target'
      BY <1>1, <2>2, <2>3, <2>4
    <2> QED BY <1>1, <1>3, <2>1, <2>5 DEF Writing, IsImage
  <1> QED BY <1>1, <1>2, <1>4 DEF CommandLineInv, Arguments, AsmPhases

\* A part of the bytes goes to the file.
LEMMA WriteBytesKeeps ==
  ASSUME CommandLineInv, WriteBytes
  PROVE  CommandLineInv'
  <1>1. PICK n \in 1 .. Len(todo) :
           /\ objects' = [p \in Paths |->
                IF p \in obj THEN {b \o SubSeq(todo, 1, n) : b \in objects[p]}
                             ELSE objects[p]]
           /\ todo' = SubSeq(todo, n + 1, Len(todo))
    BY DEF WriteBytes
  <1>2. /\ phase \in {"origin", "words"} /\ phase' = phase
        /\ UNCHANGED <<obj, sym, image, symbols, good>>
    BY DEF WriteBytes, AsmGoesOn
  <1>3. /\ obj \subseteq Paths /\ IsImage(image) /\ todo \in Seq(Nat)
        /\ \A r \in good : r.obj \notin obj
    BY <1>2 DEF CommandLineInv, Arguments, AsmPhases, Writing
  <1>4. GoodFiles'
    BY <1>1, <1>2, <1>3 DEF CommandLineInv, GoodFiles
  <1>5. Target' = Target
    BY <1>2 DEF Target
  <1>6. ASSUME NEW o \in obj
        PROVE  \E done \in Seq(Nat) : objects'[o] = {done} /\ done \o todo' = Target'
    <2>1. PICK done \in Seq(Nat) : objects[o] = {done} /\ done \o todo = Target
      BY <1>2 DEF CommandLineInv, Writing
    <2>2. objects'[o] = {Put(done, SubSeq(todo, 1, n))}
      BY <1>1, <1>3, <2>1 DEF Put
    <2>3. /\ Put(done, SubSeq(todo, 1, n)) \in Seq(Nat)
          /\ Put(Put(done, SubSeq(todo, 1, n)), todo') = Put(done, todo)
      BY <1>1, <1>3, PartWritten
    <2>4. Put(done, todo) = Target
      BY <2>1 DEF Put
    <2>5. \E more \in Seq(Nat) : objects'[o] = {more} /\ Put(more, todo') = Target'
      BY <1>5, <2>2, <2>3, <2>4
    <2> QED BY <2>5 DEF Put
  <1>7. todo' \in Seq(Nat)
    BY <1>1, <1>3, PartWritten
  <1>8. Writing'
    BY <1>2, <1>3, <1>6, <1>7 DEF Writing, IsImage
  <1> QED BY <1>2, <1>4, <1>8 DEF CommandLineInv, Arguments

\* When all is written the file holds what it was to hold.
LEMMA AllWritten ==
  ASSUME CommandLineInv, phase \in {"origin", "words"}, todo = <<>>, NEW o \in obj
  PROVE  objects[o] = {Target}
  <1>1. PICK done \in Seq(Nat) : objects[o] = {done} /\ done \o todo = Target
    BY DEF CommandLineInv, Writing
  <1>2. done \o <<>> = done
    BY ConcatEmptySeq
  <1> QED BY <1>1, <1>2

\* The words go behind the origin.
LEMMA OriginWrittenKeeps ==
  ASSUME CommandLineInv, OriginWritten
  PROVE  CommandLineInv'
  <1>1. /\ phase = "origin" /\ phase' = "words" /\ todo = <<>>
        /\ todo' = BeBytes(image.words)
        /\ UNCHANGED <<obj, sym, image, objects, symbols, good>>
    BY DEF OriginWritten, AsmGoesOn, disk
  <1>2. IsImage(image) /\ \A r \in good : r.obj \notin obj
    BY <1>1 DEF CommandLineInv, Writing
  <1>3. /\ BeBytes(<<image.origin>>) \in Seq(Nat)
        /\ BeBytes(image.words) \in Seq(Nat)
        /\ ObjectBytes(image) = BeBytes(<<image.origin>>) \o BeBytes(image.words)
    BY <1>2, BytesOfImage
  <1>4. \A o \in obj : objects[o] = {BeBytes(<<image.origin>>)}
    BY <1>1, AllWritten DEF Target
  <1>5. Target' = ObjectBytes(image)
    BY <1>1 DEF Target, ObjectBytes
  <1>6. \A o \in obj' : \E done \in Seq(Nat) :
           objects'[o] = {done} /\ done \o todo' = Target'
    BY <1>1, <1>3, <1>4, <1>5
  <1>7. Writing'
    BY <1>1, <1>2, <1>3, <1>6 DEF Writing, IsImage
  <1>8. GoodFiles'
    BY <1>1 DEF CommandLineInv, GoodFiles
  <1> QED BY <1>1, <1>7, <1>8 DEF CommandLineInv, Arguments, AsmPhases

\* The object is there.
LEMMA WordsWrittenKeeps ==
  ASSUME CommandLineInv, WordsWritten
  PROVE  CommandLineInv'
  <1>1. /\ phase = "words" /\ phase' = "symbols" /\ todo = <<>>
        /\ UNCHANGED <<obj, sym, image, objects, symbols, good>>
    BY DEF WordsWritten, AsmGoesOn, disk
  <1>2. IsImage(image) /\ \A r \in good : r.obj \notin obj
    BY <1>1 DEF CommandLineInv, Writing
  <1>3. \A o \in obj : objects[o] = {ObjectBytes(image)}
    BY <1>1, AllWritten DEF Target
  <1>4. Writing'
    BY <1>1, <1>2, <1>3 DEF Writing, IsImage, ObjectBytes
  <1>5. GoodFiles'
    BY <1>1 DEF CommandLineInv, GoodFiles
  <1> QED BY <1>1, <1>4, <1>5 DEF CommandLineInv, Arguments, AsmPhases

\* The symbol file is emptied only after the object file is complete; what it
\* belonged to before counts no more.
LEMMA SymbolsKeep ==
  ASSUME CommandLineInv, SymbolsFail \/ WriteSymbols
  PROVE  CommandLineInv'
  <1>1. /\ phase = "symbols" /\ phase' = "idle" /\ objects' = objects
        /\ \E content : Lines(content)
    BY DEF SymbolsFail, WriteSymbols, Ends
  <1>2. PICK o, s \in Paths : obj = {o} /\ sym = {s}
    BY <1>1 DEF CommandLineInv, Arguments, AsmPhases
  <1>3. objects[o] = {ObjectBytes(image)}
    BY <1>1, <1>2 DEF CommandLineInv, Writing
  <1>4. ASSUME NEW r \in good, r.sym # s
        PROVE  /\ r.obj \in Paths /\ r.sym \in Paths
               /\ objects'[r.obj] = {ObjectBytes(r.image)}
               /\ symbols'[r.sym] = {SymbolString(r.image)}
    BY <1>1, <1>2, <1>4 DEF CommandLineInv, GoodFiles, Lines
  <1>5. CASE SymbolsFail
    <2>1. good' = {r \in good : r.obj \notin {} /\ r.sym \notin sym}
      BY <1>5 DEF SymbolsFail, Disturbs
    <2>2. GoodFiles'
      BY <1>2, <1>4, <2>1 DEF GoodFiles
    <2> QED BY <1>1, <2>2, EndsKeeps
  <1>6. CASE WriteSymbols
    <2>1. /\ good' = {r \in good : r.sym # s} \cup {[obj |-> o, sym |-> s, image |-> image]}
          /\ symbols' = [p \in Paths |-> IF p \in sym THEN {SymbolString(image)}
                                                     ELSE symbols[p]]
      BY <1>2, <1>6 DEF WriteSymbols, Lines
    <2>2. symbols'[s] = {SymbolString(image)}
      BY <1>2, <2>1
    <2>3. GoodFiles'
      BY <1>1, <1>2, <1>3, <1>4, <2>1, <2>2 DEF GoodFiles
    <2> QED BY <1>1, <2>3, EndsKeeps
  <1> QED BY <1>5, <1>6

\* Every step of a command keeps the invariant.
LEMMA CommandLineInvStep ==
  ASSUME CommandLineInv, [CommandLineNext]_cliVars
  PROVE  CommandLineInv'
  <1>1. ASSUME UNCHANGED disk PROVE GoodFiles'
    BY <1>1 DEF disk, CommandLineInv, GoodFiles
  <1>2. ASSUME NEW status, Ends(status), UNCHANGED disk PROVE CommandLineInv'
    BY <1>1, <1>2, EndsKeeps DEF Ends
  <1>3. ASSUME UNCHANGED disk, phase' \notin AsmPhases PROVE CommandLineInv'
    BY <1>1, <1>3 DEF CommandLineInv, Arguments, Writing, AsmPhases
  <1>4. CASE Kill \/ InputFails \/ CreateFails \/ WriteFails \/ SymbolsNotOpened
             \/ ReadFails \/ NotAnObject \/ ImagesClash \/ SimulatorFails \/ Simulated
    BY <1>2, <1>4 DEF Kill, InputFails, CreateFails, WriteFails, SymbolsNotOpened,
       ReadFails, NotAnObject, ImagesClash, SimulatorFails, Simulated, Fails
  <1>5. CASE \E o, s \in Paths : Asm(o, s)
    <2>1. /\ phase' = "assemble" /\ \E o, s \in Paths : obj' = {o} /\ sym' = {s}
          /\ UNCHANGED disk
      BY <1>5 DEF Asm
    <2> QED BY <1>1, <2>1 DEF CommandLineInv, Arguments, Writing
  <1>6. CASE InputAssembled
    <2>1. /\ phase = "assemble" /\ phase' = "create" /\ obj' = obj /\ sym' = sym
          /\ UNCHANGED disk
          /\ \E t \in Texts : \E i \in assemble[t] : image' = i
      BY <1>6 DEF InputAssembled, AsmGoesOn
    <2>2. IsImage(image')
      BY <2>1, CommandLineParameters DEF IsImage
    <2> QED BY <1>1, <2>1, <2>2
            DEF CommandLineInv, Arguments, Writing, AsmPhases, IsImage
  <1>7. CASE CreateObject
    BY <1>7, CreateObjectKeeps
  <1>8. CASE WriteBytes
    BY <1>8, WriteBytesKeeps
  <1>9. CASE OriginWritten
    BY <1>9, OriginWrittenKeeps
  <1>10. CASE WordsWritten
    BY <1>10, WordsWrittenKeeps
  <1>11. CASE SymbolsFail \/ WriteSymbols
    BY <1>11, SymbolsKeep
  <1>12. CASE (\E p \in Paths : SimRun(<<p>>)) \/ (\E p, q \in Paths : SimRun(<<p, q>>))
    <2>1. phase' = "read" /\ UNCHANGED disk
      BY <1>12 DEF SimRun
    <2> QED BY <1>3, <2>1 DEF AsmPhases
  <1>13. CASE ReadObject \/ FitImage \/ Compose
    <2>1. phase' \in {"read", "simulate"} /\ UNCHANGED disk
      BY <1>13 DEF ReadObject, FitImage, Compose, SimGoesOn
    <2> QED BY <1>3, <2>1 DEF AsmPhases
  <1>14. CASE UNCHANGED cliVars
    BY <1>14 DEF cliVars, disk, asmVars, CommandLineInv, GoodFiles, Arguments,
                 Writing, IsImage, Target, ObjectBytes
  <1> QED BY <1>4, <1>5, <1>6, <1>7, <1>8, <1>9, <1>10, <1>11, <1>12, <1>13, <1>14
          DEF CommandLineNext, AsmNext, SimNext

\* Whatever fails or is killed, the files of a run of asm that ended well are
\* whole until a later run begins to write one of them.
THEOREM FilesAreWhole == CommandLineSpec => []FilesOfLastSuccess
  <1>1. CommandLineInv => FilesOfLastSuccess
    BY DEF CommandLineInv, GoodFiles, FilesOfLastSuccess
  <1> QED BY <1>1, CommandLineInvInit, CommandLineInvStep, PTL DEF CommandLineSpec
-----------------------------------------------------------------------------
\* A file is as far as it goes what another one is.
Begins(bytes, all) == /\ Len(bytes) <= Len(all)
                      /\ \A i \in 1 .. Len(bytes) : bytes[i] = all[i]

\* What was written first is the beginning of it all.
LEMMA BeginsWith ==
  ASSUME NEW done \in Seq(Nat), NEW rest \in Seq(Nat)
  PROVE  Begins(done, done \o rest)
  <1>1. Len(done) \in Nat /\ Len(rest) \in Nat
    BY LenProperties
  <1>2. /\ Len(done \o rest) = Len(done) + Len(rest)
        /\ \A i \in 1 .. Len(done) + Len(rest) :
              (done \o rest)[i] = IF i <= Len(done) THEN done[i] ELSE rest[i - Len(done)]
    BY ConcatProperties
  <1> QED BY <1>1, <1>2 DEF Begins

\* The beginning of a beginning is one.
LEMMA BeginsTwice ==
  ASSUME NEW r \in Seq(Nat), NEW s \in Seq(Nat), NEW t \in Seq(Nat),
         Begins(r, s), Begins(s, t)
  PROVE  Begins(r, t)
  <1>1. Len(r) \in Nat /\ Len(s) \in Nat /\ Len(t) \in Nat
    BY LenProperties
  <1> QED BY <1>1 DEF Begins

\* The two bytes of a word.
HighByte(w) == w \div 256
LowByte(w)  == w % 256

\* A word is read back from its bytes.
LEMMA WordBack ==
  ASSUME NEW w \in Nat
  PROVE  BeWord(HighByte(w), LowByte(w)) = w
  BY DEF BeWord, HighByte, LowByte

\* Where the bytes of a word are.
AreBytes(bytes, w) ==
    /\ bytes \in Seq(Nat)
    /\ Len(bytes) = 2 * Len(w)
    /\ \A k \in 1 .. Len(w) : /\ bytes[2 * k - 1] = HighByte(w[k])
                              /\ bytes[2 * k] = LowByte(w[k])

\* They are there.
LEMMA BytesAt ==
  ASSUME NEW w \in Seq(Nat)
  PROVE  AreBytes(BeBytes(w), w)
  <1> PICK n \in Nat : n = Len(w)
    BY LenProperties
  <1>1. BeBytes(w) = [i \in 1 .. 2 * n |-> IF i % 2 = 1 THEN w[(i + 1) \div 2] \div 256
                                                       ELSE w[i \div 2] % 256]
    BY DEF BeBytes
  <1>2. BeBytes(w) \in Seq(Nat)
    BY BytesOfWords
  <1>3. Len(BeBytes(w)) = 2 * n
    <2>1. DOMAIN BeBytes(w) = 1 .. 2 * n
      BY <1>1
    <2> QED BY <1>2, <2>1, LenProperties
  <1>4. ASSUME NEW k \in 1 .. n
        PROVE  /\ BeBytes(w)[2 * k - 1] = w[k] \div 256
               /\ BeBytes(w)[2 * k] = w[k] % 256
    <2>1. /\ 2 * k - 1 \in 1 .. 2 * n /\ 2 * k \in 1 .. 2 * n
          /\ (2 * k - 1) % 2 = 1 /\ (2 * k - 1 + 1) \div 2 = k
          /\ (2 * k) % 2 # 1 /\ (2 * k) \div 2 = k
      OBVIOUS
    <2> QED BY <1>1, <2>1
  <1> QED BY <1>2, <1>3, <1>4 DEF AreBytes, HighByte, LowByte

\* What stands where in an object file.
LEMMA ObjectAt ==
  ASSUME NEW i, IsImage(i)
  PROVE  /\ ObjectBytes(i) \in Seq(Nat) /\ Len(ObjectBytes(i)) = 2 + 2 * Len(i.words)
         /\ ObjectBytes(i)[1] = HighByte(i.origin)
         /\ ObjectBytes(i)[2] = LowByte(i.origin)
         /\ \A k \in 1 .. Len(i.words) :
               /\ ObjectBytes(i)[2 * k + 1] = HighByte(i.words[k])
               /\ ObjectBytes(i)[2 * k + 2] = LowByte(i.words[k])
  <1>1. i.origin \in Nat /\ i.words \in Seq(Nat)
    <2>1. Word \subseteq Nat
      BY DEF Word
    <2> QED BY <2>1, SeqMonotonic DEF IsImage
  <1>2. <<i.origin>> \in Seq(Nat) /\ Len(<<i.origin>>) = 1 /\ <<i.origin>>[1] = i.origin
    BY <1>1
  <1> PICK first \in Seq(Nat) : /\ first = <<i.origin>> /\ Len(first) = 1
                                /\ first[1] = i.origin
    BY <1>2
  <1> PICK later \in Seq(Nat) : later = i.words
    BY <1>1
  <1> PICK n \in Nat : n = Len(later)
    BY LenProperties
  <1> PICK head \in Seq(Nat) : head = BeBytes(first)
    BY BytesOfWords
  <1> PICK body \in Seq(Nat) : body = BeBytes(later)
    BY BytesOfWords
  <1>3. AreBytes(head, first) /\ AreBytes(body, later)
    BY BytesAt
  <1>4. Len(head) = 2 /\ head[1] = HighByte(i.origin) /\ head[2] = LowByte(i.origin)
    <2>1. 1 \in 1 .. Len(first) /\ 2 * 1 - 1 = 1 /\ 2 * 1 = 2
      OBVIOUS
    <2> QED BY <1>3, <2>1 DEF AreBytes
  <1>5. ObjectBytes(i) = head \o body
    BY DEF ObjectBytes
  <1> PICK both \in Nat : both = 2 + 2 * n
    OBVIOUS
  <1>6. Len(body) = 2 * n
    BY <1>3 DEF AreBytes
  <1>7. Len(head) + Len(body) = both
    BY <1>4, <1>6
  <1>8. /\ head \o body \in Seq(Nat) /\ Len(head \o body) = both
        /\ \A k \in 1 .. both : (head \o body)[k] = IF k <= 2 THEN head[k] ELSE body[k - 2]
    <2>1. /\ head \o body \in Seq(Nat) /\ Len(head \o body) = Len(head) + Len(body)
          /\ \A k \in 1 .. Len(head) + Len(body) : (head \o body)[k] =
                IF k <= Len(head) THEN head[k] ELSE body[k - Len(head)]
      BY ConcatProperties
    <2> QED BY <1>4, <1>7, <2>1, Zenon
  <1>9. ASSUME NEW k \in 1 .. n
        PROVE  /\ (head \o body)[2 * k + 1] = body[2 * k - 1]
               /\ (head \o body)[2 * k + 2] = body[2 * k]
    <2>1. /\ 2 * k + 1 \in 1 .. both /\ 2 * k + 2 \in 1 .. both
          /\ ~(2 * k + 1 <= 2) /\ ~(2 * k + 2 <= 2)
          /\ (2 * k + 1) - 2 = 2 * k - 1 /\ (2 * k + 2) - 2 = 2 * k
      OBVIOUS
    <2> QED BY <1>8, <2>1
  <1>10. ASSUME NEW k \in 1 .. 2 PROVE (head \o body)[k] = head[k]
    <2>1. k \in 1 .. both /\ k <= 2
      OBVIOUS
    <2> QED BY <1>8, <2>1
  <1>11. ASSUME NEW k \in 1 .. n
         PROVE  /\ (head \o body)[2 * k + 1] = HighByte(i.words[k])
                /\ (head \o body)[2 * k + 2] = LowByte(i.words[k])
    BY <1>3, <1>9 DEF AreBytes
  <1>12. (head \o body)[1] = head[1] /\ (head \o body)[2] = head[2]
    <2>1. 1 \in 1 .. 2 /\ 2 \in 1 .. 2
      OBVIOUS
    <2> QED BY <1>10, <2>1
  <1> QED BY <1>4, <1>5, <1>8, <1>11, <1>12

\* What can be read: an origin and words.
Readable == [origin : Nat, words : Seq(Nat)]

\* An image is as far as it goes another one.
IsPart(i, j) ==
    /\ i.origin = j.origin
    /\ Len(i.words) <= Len(j.words)
    /\ \A n \in 1 .. Len(i.words) : i.words[n] = j.words[n]

\* Behind the two bytes of the origin an even number of bytes is whole words.
LEMMA WordsAfterOrigin ==
  ASSUME NEW size \in Nat, size >= 2, size % 2 = 0
  PROVE  \E m \in Nat : m = (size - 2) \div 2 /\ size = 2 + 2 * m
  <1> PICK h \in Int : h = size \div 2
    OBVIOUS
  <1>1. size = 2 * h + (size % 2)
    OBVIOUS
  <1> PICK m \in Nat : m = h - 1
    BY <1>1
  <1>4. size = 2 + 2 * m
    BY <1>1
  <1>2. (2 + 2 * m) - 2 = 2 * m /\ (2 * m) \div 2 = m
    OBVIOUS
  <1>3. m = (size - 2) \div 2
    BY <1>2, <1>4
  <1> QED BY <1>3, <1>4

\* What is read of a file that begins as the object of an image is part of that
\* image, and of a file that holds the whole object all of it.
LEMMA ReadBack ==
  ASSUME NEW i, IsImage(i), NEW bytes \in Seq(Nat),
         Begins(bytes, ObjectBytes(i)), IsObject(bytes)
  PROVE  /\ TryFrom(bytes) \in Readable
         /\ IsPart(TryFrom(bytes), i)
         /\ bytes = ObjectBytes(i) => Len(TryFrom(bytes).words) = Len(i.words)
  <1>1. i.origin \in Nat /\ i.words \in Seq(Nat)
    <2>1. Word \subseteq Nat
      BY DEF Word
    <2> QED BY <2>1, SeqMonotonic DEF IsImage
  <1> PICK later \in Seq(Nat) : later = i.words
    BY <1>1
  <1> PICK n \in Nat : n = Len(later)
    BY LenProperties
  <1> PICK all : all = ObjectBytes(i)
    OBVIOUS
  <1>2. /\ all \in Seq(Nat) /\ Len(all) = 2 + 2 * n
        /\ all[1] = HighByte(i.origin) /\ all[2] = LowByte(i.origin)
        /\ \A k \in 1 .. n : /\ all[2 * k + 1] = HighByte(later[k])
                             /\ all[2 * k + 2] = LowByte(later[k])
    BY ObjectAt
  <1> PICK size \in Nat : size = Len(bytes)
    BY LenProperties
  <1>3. size >= 2 /\ size % 2 = 0
    BY DEF IsObject
  <1> PICK m \in Nat : m = (size - 2) \div 2 /\ size = 2 + 2 * m
    BY <1>3, WordsAfterOrigin
  <1>4. size <= Len(all) /\ \A k \in 1 .. size : bytes[k] = all[k]
    BY DEF Begins
  <1>5. m <= n /\ (bytes = all => m = n)
    <2>1. 2 + 2 * m <= 2 + 2 * n
      BY <1>2, <1>4
    <2>2. bytes = all => 2 + 2 * m = 2 + 2 * n
      BY <1>2
    <2> QED BY <2>1, <2>2
  <1>6. ASSUME NEW k \in 1 .. 2 PROVE bytes[k] = all[k]
    <2>1. k \in 1 .. size
      BY <1>3
    <2> QED BY <1>4, <2>1
  <1>7. bytes[1] = HighByte(i.origin) /\ bytes[2] = LowByte(i.origin)
    <2>1. 1 \in 1 .. 2 /\ 2 \in 1 .. 2
      OBVIOUS
    <2> QED BY <1>2, <1>6, <2>1
  <1>8. ASSUME NEW k \in 1 .. m
        PROVE  /\ bytes[2 * k + 1] = HighByte(later[k])
               /\ bytes[2 * k + 2] = LowByte(later[k])
    <2>1. 2 * k + 1 \in 1 .. size /\ 2 * k + 2 \in 1 .. size /\ k \in 1 .. n
      BY <1>5
    <2> QED BY <1>2, <1>4, <2>1
  <1> DEFINE read == [k \in 1 .. m |-> BeWord(bytes[2 * k + 1], bytes[2 * k + 2])]
  <1>9. TryFrom(bytes) = [origin |-> BeWord(bytes[1], bytes[2]), words |-> read]
    BY DEF TryFrom
  <1>10. ASSUME NEW k \in 1 .. m PROVE read[k] = later[k] /\ later[k] \in Nat
    <2>1. k \in 1 .. n
      BY <1>5
    <2>2. later[k] \in Nat
      BY <2>1, ElementOfSeq
    <2> QED BY <1>8, <2>2, WordBack
  <1>11. read \in Seq(Nat) /\ Len(read) = m
    <2>1. read = [k \in 1 .. m |-> read[k]] /\ \A k \in 1 .. m : read[k] \in Nat
      BY <1>10
    <2> HIDE DEF read
    <2>2. read \in [1 .. m -> Nat]
      BY <2>1
    <2> QED BY <2>2
  <1>12. BeWord(bytes[1], bytes[2]) = i.origin
    BY <1>1, <1>7, WordBack
  <1> HIDE DEF read
  <1>13. TryFrom(bytes).origin = i.origin /\ TryFrom(bytes).words = read
    BY <1>9, <1>12
  <1>14. TryFrom(bytes) \in Readable
    BY <1>1, <1>9, <1>11, <1>12 DEF Readable
  <1>15. IsPart(TryFrom(bytes), i)
    BY <1>5, <1>10, <1>11, <1>13 DEF IsPart
  <1> QED BY <1>5, <1>11, <1>13, <1>14, <1>15
-----------------------------------------------------------------------------
\* Every file is as far as it goes the object of the image for which it was last
\* created; that of a successful run is the image of that run.
FilesBegun ==
    \A p \in Paths : \A bytes \in objects[p] :
       /\ IsImage(begun[p])
       /\ bytes \in Seq(Nat)
       /\ Begins(bytes, ObjectBytes(begun[p]))

BegunFor ==
    /\ phase \in {"origin", "words", "symbols"} => \A o \in obj : begun[o] = image
    /\ \A r \in good : begun[r.obj] = r.image

BegunInv == FilesBegun /\ BegunFor

\* The beginning of what is to be written is the beginning of the object.
LEMMA TargetBegins ==
  ASSUME NEW i, IsImage(i), NEW done \in Seq(Nat), NEW rest \in Seq(Nat),
         NEW all, all = done \o rest,
         all = BeBytes(<<i.origin>>) \/ all = ObjectBytes(i)
  PROVE  Begins(done, ObjectBytes(i))
  <1>1. /\ BeBytes(<<i.origin>>) \in Seq(Nat) /\ BeBytes(i.words) \in Seq(Nat)
        /\ ObjectBytes(i) = BeBytes(<<i.origin>>) \o BeBytes(i.words)
    BY BytesOfImage
  <1>2. ObjectBytes(i) \in Seq(Nat)
    BY ObjectAt
  <1>3. Begins(done, all)
    BY BeginsWith
  <1>4. CASE all = BeBytes(<<i.origin>>)
    <2>1. Begins(all, ObjectBytes(i))
      BY <1>1, <1>4, BeginsWith
    <2> QED BY <1>1, <1>2, <1>3, <1>4, <2>1, BeginsTwice
  <1>5. CASE all = ObjectBytes(i)
    BY <1>3, <1>5
  <1> QED BY <1>4, <1>5

\* Every step keeps it.
LEMMA BegunStep ==
  ASSUME CommandLineInv, CommandLineInv', BegunInv, [CommandLineNext]_cliVars
  PROVE  BegunInv'
  <1>1. ASSUME UNCHANGED disk, phase' \in {"origin", "words", "symbols"} =>
                                  /\ phase \in {"origin", "words", "symbols"}
                                  /\ UNCHANGED <<obj, image>>
        PROVE  BegunInv'
    BY <1>1 DEF disk, BegunInv, FilesBegun, BegunFor
  <1>2. ASSUME NEW status, Ends(status), UNCHANGED disk PROVE BegunInv'
    BY <1>1, <1>2 DEF Ends
  <1>3. CASE Kill \/ InputFails \/ CreateFails \/ WriteFails \/ SymbolsNotOpened
             \/ ReadFails \/ NotAnObject \/ ImagesClash \/ SimulatorFails \/ Simulated
    BY <1>2, <1>3 DEF Kill, InputFails, CreateFails, WriteFails, SymbolsNotOpened,
       ReadFails, NotAnObject, ImagesClash, SimulatorFails, Simulated, Fails
  <1>4. CASE (\E o, s \in Paths : Asm(o, s)) \/ InputAssembled
    <2>1. UNCHANGED disk /\ phase' \in {"assemble", "create"}
      BY <1>4 DEF Asm, InputAssembled, AsmGoesOn
    <2> QED BY <1>1, <2>1
  <1>5. CASE OriginWritten \/ WordsWritten
    <2>1. /\ UNCHANGED <<disk, obj, image>>
          /\ phase \in {"origin", "words", "symbols"}
      BY <1>5 DEF OriginWritten, WordsWritten, AsmGoesOn
    <2> QED BY <1>1, <2>1
  <1>6. CASE \/ \E p \in Paths : SimRun(<<p>>)
             \/ \E p, q \in Paths : SimRun(<<p, q>>)
             \/ ReadObject \/ FitImage \/ Compose
    <2>1. UNCHANGED disk /\ phase' \in {"read", "simulate"}
      BY <1>6 DEF SimRun, ReadObject, FitImage, Compose, SimGoesOn
    <2> QED BY <1>1, <2>1
  <1>7. CASE CreateObject
    <2>1. /\ phase = "create" /\ phase' = "origin"
          /\ obj' = obj /\ image' = image
          /\ objects' = [p \in Paths |-> IF p \in obj THEN {<<>>} ELSE objects[p]]
          /\ begun' = [p \in Paths |-> IF p \in obj THEN image ELSE begun[p]]
          /\ good' = {r \in good : r.obj \notin obj}
      BY <1>7 DEF CreateObject, AsmGoesOn, Disturbs
    <2>2. obj \subseteq Paths /\ IsImage(image) /\ \A r \in good : r.obj \in Paths
      BY <2>1 DEF CommandLineInv, Arguments, AsmPhases, Writing, GoodFiles
    <2>3. <<>> \in Seq(Nat) /\ Begins(<<>>, ObjectBytes(image))
      <3>1. <<>> \in Seq(Nat) /\ Len(<<>>) = 0
        BY EmptySeq
      <3>2. Len(ObjectBytes(image)) \in Nat
        BY <2>2, ObjectAt, LenProperties
      <3>3. Len(<<>>) <= Len(ObjectBytes(image)) /\ \A i \in 1 .. Len(<<>>) : FALSE
        BY <3>1, <3>2
      <3> QED BY <3>1, <3>3 DEF Begins
    <2>4. ASSUME NEW p \in Paths, NEW bytes \in objects'[p]
          PROVE  /\ IsImage(begun'[p]) /\ bytes \in Seq(Nat)
                 /\ Begins(bytes, ObjectBytes(begun'[p]))
      <3>1. CASE p \in obj
        <4>1. bytes = <<>> /\ begun'[p] = image
          BY <2>1, <3>1
        <4> QED BY <2>2, <2>3, <4>1
      <3>2. CASE p \notin obj
        <4>1. bytes \in objects[p] /\ begun'[p] = begun[p]
          BY <2>1, <3>2
        <4> QED BY <4>1 DEF BegunInv, FilesBegun
      <3> QED BY <3>1, <3>2
    <2>5. BegunFor'
      BY <2>1, <2>2 DEF BegunInv, BegunFor
    <2> QED BY <2>4, <2>5 DEF BegunInv, FilesBegun, IsImage, ObjectBytes
  <1>8. CASE WriteBytes
    <2>1. /\ phase \in {"origin", "words"} /\ phase' = phase
          /\ UNCHANGED <<obj, image, begun, good>>
          /\ \A p \in Paths : p \notin obj => objects'[p] = objects[p]
      BY <1>8 DEF WriteBytes, AsmGoesOn
    <2>2. IsImage(image)
      BY <2>1 DEF CommandLineInv, Writing
    <2>3. ASSUME NEW p \in Paths, NEW bytes \in objects'[p]
          PROVE  /\ IsImage(begun[p]) /\ bytes \in Seq(Nat)
                 /\ Begins(bytes, ObjectBytes(begun[p]))
      <3>1. CASE p \in obj
        <4>1. begun[p] = image
          BY <2>1, <3>1 DEF BegunInv, BegunFor
        <4>2. /\ todo' \in Seq(Nat)
              /\ \E done \in Seq(Nat) : objects'[p] = {done} /\ done \o todo' = Target'
          BY <2>1, <3>1 DEF CommandLineInv, Writing
        <4>3. Target' \in {BeBytes(<<image.origin>>), ObjectBytes(image)}
          BY <2>1 DEF Target, ObjectBytes
        <4>4. bytes \in Seq(Nat) /\ bytes \o todo' = Target'
          BY <4>2
        <4>5. Begins(bytes, ObjectBytes(image))
          BY <2>2, <4>2, <4>3, <4>4, TargetBegins
        <4> QED BY <2>2, <4>1, <4>4, <4>5
      <3>2. CASE p \notin obj
        BY <2>1, <3>2 DEF BegunInv, FilesBegun
      <3> QED BY <3>1, <3>2
    <2>4. BegunFor'
      BY <2>1 DEF BegunInv, BegunFor
    <2> QED BY <2>1, <2>3, <2>4 DEF BegunInv, FilesBegun, IsImage, ObjectBytes
  <1>9. CASE SymbolsFail \/ WriteSymbols
    <2>1. phase = "symbols" /\ phase' = "idle" /\ UNCHANGED <<objects, begun>>
      BY <1>9 DEF SymbolsFail, WriteSymbols, Ends
    <2>2. \A r \in good' : r \in good \/ (r.obj \in obj /\ r.image = image)
      BY <1>9 DEF SymbolsFail, WriteSymbols, Disturbs
    <2> QED BY <2>1, <2>2 DEF BegunInv, FilesBegun, BegunFor, IsImage, ObjectBytes
  <1>10. CASE UNCHANGED cliVars
    BY <1>1, <1>10 DEF cliVars, asmVars
  <1> QED BY <1>3, <1>4, <1>5, <1>6, <1>7, <1>8, <1>9, <1>10
          DEF CommandLineNext, AsmNext, SimNext
-----------------------------------------------------------------------------
\* The first n images lie in the memory, each at its place and none over another.
InPlace(dense, is, n) ==
    /\ \A a \in DOMAIN dense : \E k \in 1 .. n : HasWord(is[k], a, dense[a])
    /\ \A k \in 1 .. n : Span(is[k]) \subseteq DOMAIN dense
    /\ \A j, k \in 1 .. n : j # k => Span(is[j]) \cap Span(is[k]) = {}

\* What has been read of a file.
ReadOf(p, i) ==
    /\ i \in Readable
    /\ IsImage(begun[p])
    /\ IsPart(i, begun[p])
    /\ Whole(p) => Len(i.words) = Len(begun[p].words)

Reading ==
    /\ files \in Seq(Paths) /\ images \in Seq(Readable)
    /\ Len(images) <= Len(files)
    /\ \A k \in 1 .. Len(images) : ReadOf(files[k], images[k])
    /\ fitted \in 0 .. Len(images)
    /\ InPlace(memory, images, fitted)

SimInv ==
    /\ phase \in {"read", "simulate"} => Reading
    /\ phase = "simulate" => Len(images) = Len(files) /\ fitted = Len(files)
    /\ phase \notin {"read", "simulate"} =>
          images = <<>> /\ fitted = 0 /\ memory = EmptyImage

\* A turn of the loop puts one more image in its place.
LEMMA FitsNext ==
  ASSUME NEW dense, NEW is, NEW n \in Nat, InPlace(dense, is, n),
         Loads(dense, is[n + 1])
  PROVE  InPlace(Loaded(dense, is[n + 1]), is, n + 1)
  <1> DEFINE next == is[n + 1]
             full == Loaded(dense, next)
  <1>1. Span(next) \cap DOMAIN dense = {} /\ Written(dense, next) = Span(next)
    BY DEF Loads, Written, Clashes
  <1>2. /\ DOMAIN full = DOMAIN dense \cup Span(next)
        /\ \A a \in DOMAIN full :
              full[a] = IF a \in Span(next) THEN WordAt(next, a) ELSE dense[a]
    BY <1>1 DEF Loaded
  <1>3. \A k \in 1 .. n + 1 : k \in 1 .. n \/ k = n + 1
    OBVIOUS
  <1>4. 1 .. n \subseteq 1 .. n + 1 /\ n + 1 \in 1 .. n + 1
    OBVIOUS
  <1> HIDE DEF full
  <1>5. ASSUME NEW a \in DOMAIN full
        PROVE  \E k \in 1 .. n + 1 : HasWord(is[k], a, full[a])
    <2>1. CASE a \in Span(next)
      BY <1>2, <1>4, <2>1 DEF HasWord
    <2>2. CASE a \notin Span(next)
      <3>1. a \in DOMAIN dense /\ full[a] = dense[a]
        BY <1>2, <2>2
      <3>2. PICK k \in 1 .. n : HasWord(is[k], a, dense[a])
        BY <3>1 DEF InPlace
      <3> QED BY <1>4, <3>1, <3>2
    <2> QED BY <2>1, <2>2
  <1>6. ASSUME NEW k \in 1 .. n + 1 PROVE Span(is[k]) \subseteq DOMAIN full
    BY <1>2, <1>3 DEF InPlace
  <1>7. ASSUME NEW j \in 1 .. n PROVE Span(is[j]) \cap Span(next) = {}
    BY <1>1 DEF InPlace
  <1>8. ASSUME NEW j \in 1 .. n + 1, NEW k \in 1 .. n + 1, j # k
        PROVE  Span(is[j]) \cap Span(is[k]) = {}
    <2>1. CASE j \in 1 .. n /\ k \in 1 .. n
      BY <1>8, <2>1 DEF InPlace
    <2>2. CASE j = n + 1 \/ k = n + 1
      BY <1>3, <1>7, <1>8, <2>2
    <2> QED BY <1>3, <2>1, <2>2
  <1> QED BY <1>5, <1>6, <1>8 DEF InPlace, full

\* What lies behind the images that are in place does not matter to them.
LEMMA InPlaceSame ==
  ASSUME NEW dense, NEW is, NEW js, NEW n, InPlace(dense, is, n),
         \A k \in 1 .. n : js[k] = is[k]
  PROVE  InPlace(dense, js, n)
  BY DEF InPlace

\* With no image the memory is empty.
LEMMA NoneInPlace == \A is : InPlace(EmptyImage, is, 0)
  <1>1. DOMAIN EmptyImage = {} /\ 1 .. 0 = {}
    BY DEF EmptyImage
  <1> QED BY <1>1 DEF InPlace

\* A part of an image has its words where the image has them, and an equally
\* long part has all of them.
LEMMA PartHasWords ==
  ASSUME NEW i \in Readable, NEW j, IsImage(j), IsPart(i, j)
  PROVE  /\ \A a, w : HasWord(i, a, w) => HasWord(j, a, w)
         /\ Len(i.words) = Len(j.words) => Span(i) = Span(j)
  <1>1. i.words \in Seq(Nat) /\ j.words \in Seq(Word) /\ j.origin \in Nat
    BY DEF Readable, IsImage, Word
  <1> PICK m \in Nat : m = Len(i.words) /\ DOMAIN i.words = 1 .. m
    BY <1>1, LenProperties
  <1> PICK n \in Nat : n = Len(j.words) /\ DOMAIN j.words = 1 .. n
    BY <1>1, LenProperties
  <1>2. /\ i.origin = j.origin /\ m <= n
        /\ \A k \in 1 .. m : i.words[k] = j.words[k]
    BY DEF IsPart
  <1> PICK o \in Nat : o = j.origin
    BY <1>1
  <1>3. /\ Span(i) = {o + k - 1 : k \in 1 .. m}
        /\ Span(j) = {o + k - 1 : k \in 1 .. n}
    BY <1>2 DEF Span
  <1>4. ASSUME NEW a, NEW w, HasWord(i, a, w) PROVE HasWord(j, a, w)
    <2>1. a \in Span(i) /\ w = i.words[a - o + 1]
      BY <1>2, <1>4 DEF HasWord, WordAt
    <2>2. PICK k \in 1 .. m : a = o + k - 1
      BY <1>3, <2>1
    <2>3. a - o + 1 = k /\ k \in 1 .. n
      <3>1. \A x \in Nat, y \in Int : x + y - 1 - x + 1 = y
        OBVIOUS
      <3>2. m <= n
        BY <1>2
      <3>3. k \in Int /\ k \in 1 .. n
        BY <3>2
      <3> QED BY <2>2, <3>1, <3>3
    <2>4. a \in Span(j) /\ j.words[a - o + 1] = w
      BY <1>2, <1>3, <2>1, <2>2, <2>3
    <2> QED BY <2>4 DEF HasWord, WordAt
  <1> QED BY <1>3, <1>4

\* One more file is read.
LEMMA ReadObjectKeeps ==
  ASSUME CommandLineInv, BegunInv, SimInv, ReadObject
  PROVE  SimInv'
  <1>1. /\ phase = "read" /\ phase' = "read" /\ UNCHANGED <<disk, files, fitted, memory>>
        /\ Len(images) < Len(files)
    BY DEF ReadObject, ToRead, SimGoesOn
  <1>2. Reading
    BY <1>1 DEF SimInv
  <1> PICK n \in Nat : n = Len(images)
    BY <1>2, LenProperties DEF Reading
  <1> PICK size \in Nat : size = Len(files)
    BY <1>2, LenProperties DEF Reading
  <1> PICK p \in Paths : p = files[n + 1]
    BY <1>1, <1>2, ElementOfSeq DEF Reading
  <1>3. PICK bytes \in objects[p] :
           IsObject(bytes) /\ images' = Append(images, TryFrom(bytes))
    BY DEF ReadObject
  <1>4. /\ IsImage(begun[p]) /\ bytes \in Seq(Nat)
        /\ Begins(bytes, ObjectBytes(begun[p]))
    BY DEF BegunInv, FilesBegun
  <1>5. Whole(p) => bytes = ObjectBytes(begun[p])
    BY DEF Whole, BegunInv, BegunFor, CommandLineInv, GoodFiles
  <1> DEFINE i == TryFrom(bytes)
  <1>6. ReadOf(p, i)
    BY <1>3, <1>4, <1>5, ReadBack DEF ReadOf
  <1>7. i \in Readable
    BY <1>6 DEF ReadOf
  <1> HIDE DEF i
  <1>8. /\ images' \in Seq(Readable) /\ Len(images') = n + 1
        /\ images'[n + 1] = i
        /\ \A k \in 1 .. n : images'[k] = images[k]
    BY <1>2, <1>3, <1>7, AppendProperties DEF Reading, i
  <1>9. ASSUME NEW k \in 1 .. n + 1 PROVE ReadOf(files[k], images'[k])
    <2>1. CASE k = n + 1
      BY <1>6, <1>8, <2>1
    <2>2. CASE k \in 1 .. n
      BY <1>2, <1>8, <2>2 DEF Reading
    <2> QED BY <2>1, <2>2
  <1>10. ASSUME NEW k \in 1 .. n + 1 PROVE ReadOf(files[k], images[k])'
    BY <1>1, <1>9 DEF ReadOf, disk, Whole, IsImage, IsPart
  <1>11. fitted \in 0 .. n
    BY <1>2 DEF Reading
  <1>12. InPlace(memory', images', fitted')
    <2>1. \A k \in 1 .. fitted : images'[k] = images[k]
      BY <1>8, <1>11
    <2> QED BY <1>1, <1>2, <2>1, InPlaceSame DEF Reading
  <1>13. n + 1 <= size /\ fitted' \in 0 .. n + 1
    BY <1>1, <1>11
  <1>14. Reading'
    BY <1>1, <1>2, <1>8, <1>10, <1>12, <1>13 DEF Reading, InPlace
  <1> QED BY <1>1, <1>14 DEF SimInv

\* One more image is put in its place.
LEMMA FitImageKeeps ==
  ASSUME SimInv, FitImage
  PROVE  SimInv'
  <1>1. /\ phase = "read" /\ phase' = "read" /\ UNCHANGED <<disk, files, images>>
        /\ fitted < Len(images) /\ fitted' = fitted + 1
        /\ Loads(memory, images[fitted + 1])
        /\ memory' = Loaded(memory, images[fitted + 1])
    BY DEF FitImage, ToFit, AllRead, SimGoesOn
  <1>2. Reading
    BY <1>1 DEF SimInv
  <1> PICK n \in Nat : n = Len(images)
    BY <1>2, LenProperties DEF Reading
  <1>3. fitted \in Nat /\ fitted' \in 0 .. n
    BY <1>1, <1>2 DEF Reading
  <1>4. InPlace(memory', images', fitted')
    BY <1>1, <1>2, <1>3, FitsNext DEF Reading
  <1>5. \A k \in 1 .. n : ReadOf(files[k], images[k])'
    BY <1>1, <1>2 DEF Reading, ReadOf, disk, Whole, IsImage, IsPart
  <1>6. Reading'
    BY <1>1, <1>2, <1>3, <1>4, <1>5 DEF Reading, InPlace
  <1> QED BY <1>1, <1>6 DEF SimInv

\* Every step keeps it.
LEMMA SimInvStep ==
  ASSUME CommandLineInv, BegunInv, SimInv, [CommandLineNext]_cliVars
  PROVE  SimInv'
  <1>1. ASSUME NEW status, Ends(status) PROVE SimInv'
    BY <1>1 DEF Ends, SimInv
  <1>2. CASE Kill \/ InputFails \/ CreateFails \/ WriteFails \/ SymbolsNotOpened
             \/ ReadFails \/ NotAnObject \/ ImagesClash \/ SimulatorFails \/ Simulated
             \/ SymbolsFail \/ WriteSymbols
    BY <1>1, <1>2 DEF Kill, InputFails, CreateFails, WriteFails, SymbolsNotOpened,
       ReadFails, NotAnObject, ImagesClash, SimulatorFails, Simulated, Fails,
       SymbolsFail, WriteSymbols
  <1>3. CASE \/ \E o, s \in Paths : Asm(o, s)
             \/ InputAssembled \/ CreateObject \/ WriteBytes
             \/ OriginWritten \/ WordsWritten
    <2>1. /\ phase \notin {"read", "simulate"} /\ phase' \notin {"read", "simulate"}
          /\ UNCHANGED <<images, fitted, memory>>
      BY <1>3 DEF Asm, NewCommand, InputAssembled, CreateObject, WriteBytes,
         OriginWritten, WordsWritten, AsmGoesOn, simVars
    <2> QED BY <2>1 DEF SimInv
  <1>4. CASE \/ \E p \in Paths : SimRun(<<p>>)
             \/ \E p, q \in Paths : SimRun(<<p, q>>)
    <2>1. /\ phase = "idle" /\ phase' = "read" /\ UNCHANGED <<images, fitted, memory>>
          /\ files' \in Seq(Paths)
      <3>1. \A p, q \in Paths : <<p>> \in Seq(Paths) /\ <<p, q>> \in Seq(Paths)
        OBVIOUS
      <3> QED BY <1>4, <3>1 DEF SimRun, NewCommand
    <2>2. images = <<>> /\ fitted = 0 /\ memory = EmptyImage
      BY <2>1 DEF SimInv
    <2>3. /\ images' \in Seq(Readable) /\ Len(images') = 0 /\ Len(files') \in Nat
      BY <2>1, <2>2, EmptySeq, LenProperties
    <2>4. InPlace(memory', images', fitted')
      BY <2>1, <2>2, NoneInPlace
    <2>5. 1 .. Len(images') = {} /\ fitted' \in 0 .. Len(images')
          /\ Len(images') <= Len(files')
      BY <2>1, <2>2, <2>3
    <2>6. Reading'
      BY <2>1, <2>3, <2>4, <2>5 DEF Reading, InPlace
    <2> QED BY <2>1, <2>6 DEF SimInv
  <1>5. CASE ReadObject
    BY <1>5, ReadObjectKeeps
  <1>6. CASE FitImage
    BY <1>6, FitImageKeeps
  <1>7. CASE Compose
    <2>1. /\ phase = "read" /\ phase' = "simulate"
          /\ UNCHANGED <<disk, files, images, fitted, memory>>
          /\ Len(images) = Len(files) /\ fitted = Len(files)
      BY <1>7 DEF Compose, AllRead, SimGoesOn
    <2>2. Reading'
      BY <2>1 DEF SimInv, Reading, InPlace, ReadOf, disk, Whole, IsImage, IsPart
    <2> QED BY <2>1, <2>2 DEF SimInv
  <1>8. CASE UNCHANGED cliVars
    <2>1. UNCHANGED <<disk, phase, files, images, fitted, memory>>
      BY <1>8 DEF cliVars, simVars
    <2>2. phase \in {"read", "simulate"} => Reading'
      BY <2>1 DEF SimInv, Reading, InPlace, ReadOf, disk, Whole, IsImage, IsPart
    <2> QED BY <2>1, <2>2 DEF SimInv
  <1> QED BY <1>2, <1>3, <1>4, <1>5, <1>6, <1>7, <1>8
          DEF CommandLineNext, AsmNext, SimNext

\* Images in their places, each as far as its file goes that of the file, are
\* what the simulator is to run.
LEMMA SimInvRuns ==
  ASSUME SimInv
  PROVE  RunsWhatWasAssembled
  <1> SUFFICES ASSUME phase = "simulate" PROVE RunsWhatWasAssembled
    BY DEF RunsWhatWasAssembled
  <1>1. Reading /\ Len(images) = Len(files) /\ fitted = Len(files)
    BY DEF SimInv
  <1> PICK n \in Nat : n = Len(files) /\ DOMAIN files = 1 .. n
    BY <1>1, LenProperties DEF Reading
  <1>2. InPlace(memory, images, n)
    BY <1>1 DEF Reading
  <1>3. ASSUME NEW k \in 1 .. n
        PROVE  /\ \A a, w : HasWord(images[k], a, w) => HasWord(begun[files[k]], a, w)
               /\ Whole(files[k]) => Span(images[k]) = Span(begun[files[k]])
    <2>1. ReadOf(files[k], images[k])
      BY <1>1 DEF Reading
    <2> QED BY <2>1, PartHasWords DEF ReadOf
  <1>4. ASSUME NEW a \in DOMAIN memory
        PROVE  \E k \in 1 .. n : HasWord(begun[files[k]], a, memory[a])
    <2>1. PICK k \in 1 .. n : HasWord(images[k], a, memory[a])
      BY <1>2 DEF InPlace
    <2> QED BY <1>3, <2>1
  <1>5. ASSUME NEW k \in 1 .. n, Whole(files[k])
        PROVE  Span(begun[files[k]]) \subseteq DOMAIN memory
    BY <1>2, <1>3, <1>5 DEF InPlace
  <1>6. ASSUME NEW j \in 1 .. n, NEW k \in 1 .. n, j # k,
               Whole(files[j]), Whole(files[k])
        PROVE  Span(begun[files[j]]) \cap Span(begun[files[k]]) = {}
    <2>1. Span(images[j]) \cap Span(images[k]) = {}
      BY <1>2, <1>6 DEF InPlace
    <2> QED BY <1>3, <1>6, <2>1
  <1> QED BY <1>4, <1>5, <1>6 DEF RunsWhatWasAssembled

\* Whatever was interrupted and whatever files are given to it together, the
\* simulator runs words of the images that were assembled, each at its place,
\* and all of those whose files are whole.
THEOREM AssembledIsRun == CommandLineSpec => []RunsWhatWasAssembled
  <1>1. CommandLineInit => BegunInv /\ SimInv
    BY DEF CommandLineInit, BegunInv, FilesBegun, BegunFor, SimInv
  <1>2. SimInv => RunsWhatWasAssembled
    BY SimInvRuns
  <1> QED BY <1>1, <1>2, CommandLineInvInit, CommandLineInvStep, BegunStep,
             SimInvStep, PTL DEF CommandLineSpec
=============================================================================
