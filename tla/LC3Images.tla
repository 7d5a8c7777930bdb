------------------------------ MODULE LC3Images ------------------------------
(***************************************************************************)
(* sw/crates/lc3-image: programs with an origin, laid over one memory of   *)
(* 65536 words.  A dense image is the function from the addresses that are *)
(* `occupied' to their words; the two bytes of a word are one value there. *)
(* Then the two files of a program: the object file, which is its bytes,   *)
(* and the symbol file, which is its lines.                                *)
(***************************************************************************)
EXTENDS LC3Words, Sequences

LOCAL INSTANCE SequencesExt

EmptyImage == [a \in {} |-> 0]

Span(image) == {image.origin + i - 1 : i \in DOMAIN image.words}

WordAt(image, a) == image.words[a - image.origin + 1]

\* Mutant of Clashes: an image of the same origin replaces the old one.
Clashes_NotOrigin(dense, image) == (Span(image) \ {image.origin}) \cap DOMAIN dense

\* load_memory_images of one image: whether it goes in, and what it leaves.
TooLong(image)         == image.origin + Len(image.words) > 65536
Clashes(dense, image)  == Span(image) \cap DOMAIN dense
Loads(dense, image)    == ~TooLong(image) /\ Clashes(dense, image) = {}

\* The loop stops at the first clash and leaves the words before it written.
Written(dense, image) ==
    LET clashes == Clashes(dense, image)
    IN IF TooLong(image) THEN {}
       ELSE {a \in Span(image) : \A c \in clashes : a < c}

Loaded(dense, image) ==
    LET written == Written(dense, image)
    IN [a \in DOMAIN dense \cup written |->
          IF a \in written THEN WordAt(image, a) ELSE dense[a]]

(***************************************************************************)
(* Files.                                                                  *)
(***************************************************************************)
\* to_be_bytes of the words of a sequence.
BeBytes(words) ==
    [i \in 1 .. 2 * Len(words) |->
       IF i % 2 = 1 THEN words[(i + 1) \div 2] \div 256
                    ELSE words[i \div 2] % 256]

BeWord(hi, lo) == 256 * hi + lo

\* MemoryImage::try_from: an origin and whole words, nothing else.
IsObject(bytes) == Len(bytes) >= 2 /\ Len(bytes) % 2 = 0

TryFrom(bytes) ==
    [origin |-> BeWord(bytes[1], bytes[2]),
     words  |-> [i \in 1 .. (Len(bytes) - 2) \div 2 |->
                   BeWord(bytes[2 * i + 1], bytes[2 * i + 2])]]

\* symbol_string: a line for each symbol in the order of their names, and one
\* for the origin.  A name is its place in that order; the headings, which
\* are the same in every file, are left out.
SymbolString(image) ==
    LET names == SetToSortSeq(DOMAIN image.symbols, <)
    IN Append([i \in DOMAIN names |-> <<names[i], image.symbols[names[i]]>>],
              <<image.origin>>)
=============================================================================
