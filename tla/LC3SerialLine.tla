--------------------------- MODULE LC3SerialLine ---------------------------
(***************************************************************************)
(* The serial receiver on the line of a sender, with a reset button that   *)
(* the sender does not see: the receiver may start anywhere in a frame,    *)
(* and what it then reports need not be what was sent.                     *)
(*                                                                         *)
(* History: `due' holds the character that was sent and not yet received,  *)
(* and `torn' is up from a reset to the first pause of the sender that the *)
(* receiver has seen.                                                      *)
(***************************************************************************)
EXTENDS LC3SerialSender, Sequences

CONSTANTS ResetSlots, ResetAge    \* where in a frame the button may be pressed

VARIABLES due, torn

lineVars == <<rxVars, senderVars, due, torn>>

\* What the receiver's user takes in this clock goes from `due'.
Left == IF rx_valid /\ due # <<>> THEN Tail(due) ELSE due

\* c is due too; that a second one is shows that the first was missed.
AndDue(s, c) == IF Len(s) < 2 THEN Append(s, c) ELSE s

SeesPause == slot = PAUSE /\ rx_state = "IDLE" /\ rx_meta = 1 /\ rx_sync = 1

LineClock ==
    /\ RxClock(line)
    /\ torn' = (torn /\ ~SeesPause)
    /\ \/ SendsNothing /\ due' = Left
       \/ \E c \in Characters :
             Sends(c) /\ due' = IF torn' THEN <<>> ELSE AndDue(Left, c)

PressReset == /\ slot \in ResetSlots /\ clocks = ResetAge
              /\ RxReset
              /\ due' = <<>>
              /\ torn' = TRUE
              /\ UNCHANGED senderVars

LineInit == RxInit /\ SenderInit /\ due = <<>> /\ torn = FALSE

LineSpec == LineInit /\ [][LineClock \/ PressReset]_lineVars

\* The clock does not stop.
FairLineSpec == LineSpec /\ WF_lineVars(LineClock)
-----------------------------------------------------------------------------
\* A character is reported only if it was sent, bit for bit, once, and before
\* the next one starts: the middle of the stop bit is still inside the frame of
\* a sender that is too fast, and a disturbance is no character.  The same is
\* true after a reset in the middle of a frame, from the next pause on.
ReceivedAsSent == ~torn => /\ rx_valid => due = <<rx_data>>
                           /\ Len(due) <= 1

\* Every character that was sent is reported, also of a sender too slow or too
\* fast by up to the tolerance, and without a pause between two characters;
\* only a reset makes up for a missing one.
AllReceived == due # <<>> ~> rx_valid \/ due = <<>>
=============================================================================
