----------------------------- MODULE MCSimulator -----------------------------
(***************************************************************************)
(* LC3Simulator with a loader that writes 16 words and three programs: one *)
(* that stores and halts, one that goes on storing, and one of stores in   *)
(* every phase of the core that a second load may find.                    *)
(***************************************************************************)
EXTENDS LC3Simulator, LC3Programs

Dense(code) == [a \in 0 .. kMemoryWordCount - 1 |->
                  IF a < Len(code) THEN code[a + 1] ELSE 0]

MCIrqs == {[pending |-> FALSE, priority |-> 0, vector |-> 0]}

MCImages == {
    Dense(<<LEA(1, 4), ST(1, 5), LD(2, 4), ADDI(2, 2, 1), ReservedOp>>),
    Dense(<<LEA(1, 5), STR(1, 1, 0), LDR(2, 1, 0), BR(NZP, -3)>>),
    [a \in 0 .. kMemoryWordCount - 1 |-> ST(1, -4)] }
=============================================================================
