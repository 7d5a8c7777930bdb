--------------------------- MODULE LC3DisplayPort ---------------------------
(***************************************************************************)
(* The output side of rtl/lc3_top.sv in text console mode: the DDR port of *)
(* the memory controller, the serial transmitter, and the text display     *)
(* behind its bridge, all of which get the same characters.                *)
(*                                                                         *)
(* Of the computer only its stores to DDR are left, in any clock but not   *)
(* right after one that was accepted, as the core has to fetch an          *)
(* instruction in between.                                                 *)
(***************************************************************************)
EXTENDS LC3TextDisplay, LC3UartTx

VARIABLES display_valid, display_data

outputVars == <<displayVars, txVars, display_valid, display_data>>

\* Mutant of display_ready: the transmitter alone decides.
display_ready_TxOnly == tx_ready

\* Mutant of display_ready: one free sink is enough, so that it may still be up
\* after a character.
display_ready_Either == tx_ready \/ sys_ready

display_ready == tx_ready /\ sys_ready

\* A store to DDR, which is dropped unless the display is ready.
Stores(c) ==
    /\ ~display_valid
    /\ display_valid' = display_ready
    /\ display_data' = IF display_ready THEN c ELSE display_data

NoStore == /\ display_valid' = FALSE
           /\ UNCHANGED display_data

SystemEdge ==
    /\ SysEdge(IF display_valid THEN {display_data} ELSE {})
    /\ TxClock(IF display_valid THEN {BitsOf(display_data)} ELSE {})
    /\ NoStore \/ \E c \in Chars : Stores(c)

ResetEdge == /\ SysReset
             /\ TxReset
             /\ display_valid' = FALSE
             /\ display_data' = NUL

OutputSide ==
    /\ IF reset THEN ResetEdge ELSE SystemEdge
    /\ sys_saw' = reset

ClkTick  == OutputSide /\ UNCHANGED <<lcdVars, consoleVars, lcd_saw, reset>>
LcdOnly  == LcdTick /\ UNCHANGED <<txVars, display_valid, display_data>>
PairTick == OutputSide /\ LcdSide /\ UNCHANGED reset
Button   == /\ Press \/ Release
            /\ UNCHANGED <<txVars, display_valid, display_data>>

OutputInit == /\ DisplayInit
              /\ TxInit
              /\ display_valid = FALSE
              /\ display_data = NUL

OutputNext == ClkTick \/ LcdOnly \/ PairTick \/ Button

OutputSpec == OutputInit /\ [][OutputNext]_outputVars

\* Both clocks run, and nobody holds the button for ever.
FairOutputSpec == /\ OutputSpec
                  /\ WF_outputVars(ClkTick \/ PairTick)
                  /\ WF_outputVars(LcdOnly \/ PairTick)
                  /\ WF_outputVars(reset /\ Button)
-----------------------------------------------------------------------------
\* display_ready is seen one clock before the character arrives, and the two
\* sinks become busy and free at different times: whenever a character is
\* offered both take it, so that what the terminal shows and what the serial
\* line carries are the same characters.
BothTakeIt == display_valid /\ ~reset => tx_ready /\ sys_ready

Port == INSTANCE DisplayPort WITH
          display_valid <- display_valid, display_ready <- display_ready

\* The computer's view of its display, which LC3System assumes: after a
\* character display_ready is down in the very next clock, before a program that
\* polls DSR can look again; it never goes down by itself, and no edge of the
\* other clock moves it.  Only the button brings it up at once.
ImplementsPort ==
    /\ Port!Init
    /\ [][ IF OutputSide THEN Port!Edge(reset)
           ELSE UNCHANGED Port!portVars ]_outputVars

\* A program that waits for DSR is answered, whatever the two clocks, the
\* clearing of rows and the frames on the serial line do.
DisplayComesReady == []<>display_ready
=============================================================================
