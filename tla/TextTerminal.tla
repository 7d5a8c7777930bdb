---------------------------- MODULE TextTerminal ----------------------------
(***************************************************************************)
(* What the text display promises: characters are taken in, at most two    *)
(* are on their way, and each is shown once, in order, by the rules of a   *)
(* terminal without control sequences.  A scroll blanks the new last line  *)
(* at once.  There are no clocks, no handshake and no ring of rows here.   *)
(***************************************************************************)
EXTENDS Naturals, Sequences

CONSTANTS COLS, ROWS, Chars

VARIABLES waiting,   \* characters taken and not yet shown
          screen,    \* the character at each row and column
          row, col,  \* the cursor
          off        \* the reset button is down

termVars == <<waiting, screen, row, col, off>>

BLANK == 0
BS    == 8
LF    == 10
CR    == 13

Place == (0 .. ROWS - 1) \X (0 .. COLS - 1)

\* s moved up by one line.
Scrolled(s) == [p \in Place |-> IF p[1] = ROWS - 1 THEN BLANK
                                ELSE s[<<p[1] + 1, p[2]>>]]

\* The cursor goes to the start of the next line, below which the picture s
\* scrolls.
NewLine(s) ==
    /\ col' = 0
    /\ IF row = ROWS - 1
       THEN screen' = Scrolled(s) /\ row' = row
       ELSE screen' = s /\ row' = row + 1

Backspace ==
    \/ col = 0 /\ UNCHANGED <<screen, row, col>>
    \/ /\ col > 0
       /\ col' = col - 1
       /\ screen' = [screen EXCEPT ![<<row, col - 1>>] = BLANK]
       /\ UNCHANGED row

PrintChar(c) ==
    LET printed == [screen EXCEPT ![<<row, col>>] = c]
    IN \/ col = COLS - 1 /\ NewLine(printed)
       \/ /\ col < COLS - 1
          /\ screen' = printed
          /\ col' = col + 1
          /\ UNCHANGED row

Show(c) ==
    \/ c = BS /\ Backspace
    \/ c = LF /\ NewLine(screen)
    \/ c = CR /\ col' = 0 /\ UNCHANGED <<screen, row>>
    \/ c \notin {BS, LF, CR} /\ PrintChar(c)

\* A step takes in a character, shows the oldest one, or both.
Work ==
    /\ ~off /\ ~off'
    /\ \E new \in {<<>>} \cup {<<c>> : c \in Chars} :
          \/ /\ waiting' = waiting \o new
             /\ UNCHANGED <<screen, row, col>>
          \/ /\ waiting # <<>>
             /\ waiting' = Tail(waiting) \o new
             /\ Show(Head(waiting))
    /\ Len(waiting') <= 2

\* While the button is down nothing is kept but that the cursor ends at home.
Button ==
    /\ off \/ off'
    /\ waiting' = <<>>
    /\ screen' \in [Place -> Chars \cup {BLANK}]
    /\ IF off' THEN row' \in 0 .. ROWS - 1 /\ col' \in 0 .. COLS - 1
               ELSE row' = 0 /\ col' = 0

Init == /\ waiting = <<>>
        /\ screen = [p \in Place |-> BLANK]
        /\ row = 0
        /\ col = 0
        /\ off = FALSE

Spec == Init /\ [][Work \/ Button]_termVars
=============================================================================
