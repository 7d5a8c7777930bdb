--------------------------- MODULE LC3TextConsole ---------------------------
(***************************************************************************)
(* rtl/lc3_text_console.sv: the characters on the screen, in a ring of     *)
(* rows that starts at top_row.  A scroll moves top_row and then clears    *)
(* the row it freed, one cell per clock, during which char_ready is down.  *)
(* The read port, which only copies a cell, is in LC3Video.                *)
(***************************************************************************)
EXTENDS Naturals

CONSTANTS COLS, ROWS,   \* parameters of the module
          Chars         \* characters that may be displayed

ASSUME ConsoleParameters == /\ COLS \in Nat \ {0}
                            /\ ROWS \in Nat \ {0}
                            /\ Chars \subseteq 0 .. 255

VARIABLES cells, cursor_col, cursor_row, top_row, clear_col, clearing

consoleVars == <<cells, cursor_col, cursor_row, top_row, clear_col, clearing>>

BLANK    == 0
ASCII_BS == 8
ASCII_LF == 10
ASCII_CR == 13

CELL_COUNT == COLS * ROWS

char_ready == ~clearing

next_row(row) == IF row = ROWS - 1 THEN 0 ELSE row + 1

\* The row of the ring that is the row-th on the screen.
PhysicalRow(row) == IF top_row + row < ROWS THEN top_row + row
                                            ELSE top_row + row - ROWS

CellAddr(row, column) == PhysicalRow(row) * COLS + column

cursor_addr == CellAddr(cursor_row, cursor_col)

SetCell(addr, c) == cells' = [cells EXCEPT ![addr] = c]

\* Mutant of NextLine: a scroll does not clear the row it frees.
NextLine_KeepsText ==
    /\ cursor_col' = 0
    /\ IF cursor_row = ROWS - 1
       THEN /\ top_row' = next_row(top_row)
            /\ UNCHANGED <<clearing, cursor_row>>
       ELSE /\ cursor_row' = cursor_row + 1
            /\ UNCHANGED <<top_row, clearing>>

NextLine ==
    /\ cursor_col' = 0
    /\ IF cursor_row = ROWS - 1
       THEN /\ top_row' = next_row(top_row)
            /\ clearing' = TRUE
            /\ UNCHANGED cursor_row
       ELSE /\ cursor_row' = cursor_row + 1
            /\ UNCHANGED <<top_row, clearing>>

\* Mutant of ClearCell: the end of the row does not end the clearing.
ClearCell_GoesOn ==
    /\ clearing
    /\ SetCell(CellAddr(cursor_row, clear_col), BLANK)
    /\ clear_col' = IF clear_col + 1 = COLS THEN 0 ELSE clear_col + 1
    /\ UNCHANGED <<clearing, cursor_col, cursor_row, top_row>>

ClearCell ==
    /\ clearing
    /\ SetCell(CellAddr(cursor_row, clear_col), BLANK)
    /\ IF clear_col + 1 = COLS
       THEN clearing' = FALSE /\ clear_col' = 0
       ELSE clear_col' = clear_col + 1 /\ UNCHANGED clearing
    /\ UNCHANGED <<cursor_col, cursor_row, top_row>>

PutBackspace ==
    /\ IF cursor_col = 0
       THEN UNCHANGED <<cursor_col, cells>>
       ELSE cursor_col' = cursor_col - 1 /\ SetCell(cursor_addr - 1, BLANK)
    /\ UNCHANGED <<cursor_row, top_row, clear_col, clearing>>

PutNewline == NextLine /\ UNCHANGED <<cells, clear_col>>

PutReturn ==
    /\ cursor_col' = 0
    /\ UNCHANGED <<cells, cursor_row, top_row, clear_col, clearing>>

PutPrintable(c) ==
    /\ SetCell(cursor_addr, c)
    /\ IF cursor_col = COLS - 1
       THEN NextLine
       ELSE /\ cursor_col' = cursor_col + 1
            /\ UNCHANGED <<cursor_row, top_row, clearing>>
    /\ UNCHANGED clear_col

PutChar(c) ==
    \/ c = ASCII_BS /\ PutBackspace
    \/ c = ASCII_LF /\ PutNewline
    \/ c = ASCII_CR /\ PutReturn
    \/ c \notin {ASCII_BS, ASCII_LF, ASCII_CR} /\ PutPrintable(c)

\* One clock.  A character that comes while a row is being cleared is lost.
ConsoleClock(char_valid, char_data) ==
    \/ ClearCell
    \/ ~clearing /\ char_valid /\ PutChar(char_data)
    \/ ~clearing /\ ~char_valid /\ UNCHANGED consoleVars

\* The cells keep their characters, a row that was being cleared its rest.
ConsoleReset ==
    /\ cursor_col' = 0
    /\ cursor_row' = 0
    /\ top_row' = 0
    /\ clearing' = FALSE
    /\ clear_col' = 0
    /\ UNCHANGED cells

ConsoleInit ==
    /\ cells = [a \in 0 .. CELL_COUNT - 1 |-> BLANK]
    /\ cursor_col = 0
    /\ cursor_row = 0
    /\ top_row = 0
    /\ clearing = FALSE
    /\ clear_col = 0
=============================================================================
