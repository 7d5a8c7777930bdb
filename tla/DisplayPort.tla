----------------------------- MODULE DisplayPort -----------------------------
(***************************************************************************)
(* What the computer relies on in whatever displays its characters:        *)
(* display_ready goes down in the clock after a character was taken, in no *)
(* other, and comes up again at any later time.                            *)
(*                                                                         *)
(* Edge is one edge of the system clock, with the reset button down or not *)
(* (reset).  Each edge has to be one: a character that is taken ends the   *)
(* pulse of display_valid and display_ready in the same edge.              *)
(***************************************************************************)
VARIABLES display_valid, display_ready

portVars == <<display_valid, display_ready>>

DisplayClock ==
    IF display_valid /\ display_ready THEN display_ready' = FALSE
    ELSE display_ready' \in {display_ready, TRUE}

\* The computer offers a character in the clock after it has seen
\* display_ready, for one clock.
Clock == /\ DisplayClock
         /\ display_valid' \in {FALSE, display_ready /\ ~display_valid}

Reset == display_valid' = FALSE /\ display_ready' = TRUE

Edge(reset) == IF reset THEN Reset ELSE Clock

Init == display_valid = FALSE /\ display_ready = TRUE
=============================================================================
