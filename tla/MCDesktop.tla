------------------------------ MODULE MCDesktop ------------------------------
(***************************************************************************)
(* LC3Desktop on every program of up to three lines after its first, and   *)
(* on a few collections of files.                                          *)
(***************************************************************************)
EXTENDS LC3Desktop, TLC

MCNames == Operations \cup {"L", "l", "M", "halt"}
MCUpper == [n \in MCNames |-> CASE n = "l" -> "L" [] n = "halt" -> "HALT" [] OTHER -> n]

\* A source from its lines; the second line of the file is empty.
Source(code) == [k \in DOMAIN code |->
                   [line |-> IF k = 1 THEN 1 ELSE k + 1, tokens |-> code[k]]]

Line(op, operands)        == <<Ident(op)>> \o operands
Labelled(name, op, operands) == <<Ident(name), Ident(op)>> \o operands
R(n)   == Register(n)
Orig(a) == Line(".ORIG", <<Number(a)>>)

\* A first line with and without an address, at the top of memory and below.
FirstLines == {Orig(65533), Line(".ORIG", <<>>), <<Ident("M")>>,
               Labelled("M", ".ORIG", <<Number(12288)>>)}

\* A statement of every kind of operand.
Lines ==
    {Line("ADD", <<R(1), R(2), R(3)>>),
     Line("ADD", <<R(7), R(0), Number(-16)>>),
     Line("AND", <<R(1), R(2), Number(16)>>),
     Line("NOT", <<R(5), R(2)>>),
     Line("TRAP", <<Number(37)>>),
     Line("halt", <<>>),
     Line("BRZP", <<Ident("l")>>),
     Labelled("L", "LDI", <<R(3), Ident("L")>>),
     Line("STI", <<R(2), Ident("M")>>),
     Line("LDR", <<R(1), R(6), Number(-32)>>),
     Line("STR", <<R(1), R(6), Number(32)>>),
     Line("JMP", <<R(2)>>),
     Line("RTT", <<>>),
     Line("JSR", <<Ident("L")>>),
     Line("JSRR", <<R(4)>>),
     Line("RTI", <<R(4)>>),
     Line(".FILL", <<Ident("L")>>),
     Labelled("M", ".FILL", <<Number(-2)>>),
     Line(".BLKW", <<Number(2)>>),
     Line(".BLKW", <<Ident("M")>>),
     Labelled("l", ".STRINGZ", <<Text(1, TRUE)>>),
     Line(".STRINGZ", <<Text(2, FALSE)>>),
     <<Ident("L")>>,
     Line(".END", <<>>)}

Programs == {Source(<<first>> \o rest) :
                first \in FirstLines, rest \in UNION {[1 .. n -> Lines] : n \in 0 .. 3}}

\* Programs in which a label is just within reach of an offset, or just not.
Far(op, n) == {Source(<<Orig(512), op, Line(".BLKW", <<Number(n)>>), <<Ident("L")>>>>),
               Source(<<Orig(512), <<Ident("L")>>, Line(".BLKW", <<Number(n)>>), op>>)}

Distant == UNION ({Far(Line("LEA", <<R(1), Ident("L")>>), n) : n \in 254 .. 257}
                  \cup {Far(Line("JSR", <<Ident("L")>>), n) : n \in 1022 .. 1025})

\* Sources that are refused by the parser.
Malformations ==
    {Source(<<line>>) : line \in {<<Number(1)>>, <<Unexpected>>,
                                  <<Ident("L"), Ident("M")>>, <<Ident("L"), R(1)>>}}

Single == {[shelf |-> [a |-> {source}], picks |-> <<<<"a">>>>] : source \in Programs \cup Distant \cup Malformations \cup {<<>>}}

\* Files that fit together, that overlap, and that an edit makes fit.
Block(a, n) == Source(<<Orig(a), Line(".FILL", <<Number(a)>>), Line(".BLKW", <<Number(n)>>)>>)
Broken      == Source(<<Orig(12288), Line("ADD", <<R(1)>>)>>)
Panicking   == Source(<<Orig(65534), Line(".FILL", <<Ident("L")>>),
                        Line(".BLKW", <<Number(1)>>), <<Ident("L")>>>>)

Collections ==
    {[a |-> {Block(12288, 2)}, b |-> {Block(12286, 2), Block(12286, 1)}],
     [a |-> {Block(12288, 2), Broken}, b |-> {Block(12290, 0), Block(12291, 3)}],
     [a |-> {Block(12288, 0)}, b |-> {Panicking, Block(65532, 2)}]}

Batches == {<<"a">>, <<"b">>, <<"a", "b">>, <<"c">>}

MCSessions == Single \cup [shelf : Collections, picks : [1 .. 3 -> Batches]]
=============================================================================
