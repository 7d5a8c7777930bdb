--------------------------- MODULE LC3TextDisplay ---------------------------
(***************************************************************************)
(* The display bridge and the text console as rtl/lc3_top.sv connects them *)
(* in text console mode, from the system clock to the screen.  The two     *)
(* clocks have no assumed ratio: their edges come in any order, and also   *)
(* together, as they do in simulation and every third time on the board.   *)
(*                                                                         *)
(* The memory controller offers a character only when it has seen          *)
(* display_ready.  The reset button goes unsynchronised into both clocks;  *)
(* it is assumed to be down until each has had an edge, which are 37 and   *)
(* 111 ns.                                                                 *)
(***************************************************************************)
EXTENDS LC3DisplayBridge, LC3TextConsole, Sequences

VARIABLES reset,              \* the button is down
          sys_saw, lcd_saw    \* ... and that clock has had an edge since

displayVars == <<bridgeVars, consoleVars, reset, sys_saw, lcd_saw>>

Offers == {{}} \cup (IF sys_ready /\ ~reset THEN {{c} : c \in Chars} ELSE {})

SysSide ==
    /\ IF reset THEN SysReset ELSE \E offer \in Offers : SysEdge(offer)
    /\ sys_saw' = reset

LcdSide ==
    /\ IF reset THEN LcdReset /\ ConsoleReset
                ELSE LcdEdge(char_ready) /\ ConsoleClock(lcd_valid, lcd_data)
    /\ lcd_saw' = reset

SysTick  == SysSide /\ UNCHANGED <<lcdVars, consoleVars, lcd_saw, reset>>
LcdTick  == LcdSide /\ UNCHANGED <<sysVars, sys_saw, reset>>
BothTick == SysSide /\ LcdSide /\ UNCHANGED reset

Press == /\ ~reset
         /\ reset' = TRUE
         /\ sys_saw' = FALSE
         /\ lcd_saw' = FALSE
         /\ UNCHANGED <<bridgeVars, consoleVars>>

Release == /\ reset /\ sys_saw /\ lcd_saw
           /\ reset' = FALSE
           /\ UNCHANGED <<bridgeVars, consoleVars, sys_saw, lcd_saw>>

DisplayInit == /\ BridgeInit
               /\ ConsoleInit
               /\ reset = FALSE
               /\ sys_saw = FALSE
               /\ lcd_saw = FALSE

DisplayNext == SysTick \/ LcdTick \/ BothTick \/ Press \/ Release

DisplaySpec == DisplayInit /\ [][DisplayNext]_displayVars
-----------------------------------------------------------------------------
\* The characters between the two blocks, oldest first.
OnTheWay ==
    IF reset THEN <<>>
    ELSE (IF lcd_valid THEN <<lcd_data>> ELSE <<>>)
         \o (IF sys_req_toggle # lcd_ack_toggle THEN <<sys_data_hold>>
                                                ELSE <<>>)

\* What is on the screen, a row that is being cleared being clear.
Picture ==
    [p \in (0 .. ROWS - 1) \X (0 .. COLS - 1) |->
       IF clearing /\ p[1] = cursor_row /\ p[2] >= clear_col THEN BLANK
       ELSE cells[CellAddr(p[1], p[2])]]

Terminal == INSTANCE TextTerminal WITH
              waiting <- OnTheWay, screen <- Picture, row <- cursor_row,
              col <- cursor_col, off <- reset

\* Every character the computer is allowed to send appears on the screen
\* exactly once, in order and in its place, whatever the ratio of the clocks:
\* the toggles neither lose nor repeat one, the console is never given one
\* while it clears a row, and the ring of rows is a scrolling screen.
ImplementsTerminal == Terminal!Spec

\* The bridge looks at char_ready one LCD clock before the console gets the
\* character, which by then may have begun to clear a row for the one before:
\* it never has, so no character falls on a console that drops it.
ConsoleReady == lcd_valid => char_ready

\* The eight data wires cross between the clocks without synchronisers, so
\* they must not move in an edge in which the LCD side samples them.
DataStable ==
    [][ ~reset /\ lcd_ack_toggle' # lcd_ack_toggle =>
          UNCHANGED sys_data_hold ]_displayVars
=============================================================================
