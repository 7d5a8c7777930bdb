---------------------------- MODULE MCCommandLine ----------------------------
(***************************************************************************)
(* LC3CommandLine with two files and three texts: one that is wrong, and   *)
(* two programs whose words overlap by one and have symbols at their ends. *)
(***************************************************************************)
EXTENDS LC3CommandLine, TLC

Low  == [origin |-> 12288, words |-> <<4660, 22136>>,
         symbols |-> (1 :> 12288 @@ 2 :> 12290)]
High == [origin |-> 12289, words |-> <<61453>>, symbols |-> (3 :> 12289)]

MCAssemble == [wrong |-> {}, low |-> {Low}, high |-> {High}]
=============================================================================
