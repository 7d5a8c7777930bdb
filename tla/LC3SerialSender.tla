-------------------------- MODULE LC3SerialSender --------------------------
(***************************************************************************)
(* Whoever sends to the serial receiver.  Its clock is its own: its bits   *)
(* are bit_time of our clocks long.  Between characters it pauses as long  *)
(* as it likes or not at all, and while it pauses the line may be          *)
(* disturbed for up to half a bit.                                         *)
(***************************************************************************)
EXTENDS LC3UartRx

CONSTANTS Codes,        \* the character codes that are sent
          BitTimes      \* bit lengths of the sender, in our clocks

ASSUME SenderParameters == /\ Codes \subseteq 0 .. 255
                         /\ BitTimes \subseteq Nat \ {0}

\* The sender is no faster or slower than the receiver can follow: nine of its
\* bits are over when the receiver samples the stop bit, and the character is
\* reported before the tenth is over, the synchroniser and the edge of the start
\* bit included.
ASSUME WithinTolerance ==
    \A t \in BitTimes : /\ 9 * t <= HALF_DELAY + 9 * DELAY_FRAMES
                         /\ HALF_DELAY + 9 * DELAY_FRAMES + 4 <= 10 * t

VARIABLES bit_time,
          slot, clocks,    \* bit of the frame, and its age in clocks
          sending          \* the character

senderVars == <<bit_time, slot, clocks, sending>>

Characters == {BitsOf(c) : c \in Codes}

PAUSE == 10    \* slots: 0 start, 1 .. 8 data, 9 stop, and these three
NOISE == 11
CALM  == 12    \* the line has to rest after a disturbance

line == CASE slot \in {0, NOISE}        -> 0
          [] slot \in {9, PAUSE, CALM}  -> 1
          [] OTHER                      -> sending[slot - 1]

SlotEnds == clocks = bit_time - 1

Starts(c) == /\ slot' = 0
             /\ clocks' = 0
             /\ sending' = c

MayStart == slot = PAUSE \/ (slot = 9 /\ SlotEnds)

NextSlot == /\ slot \in 0 .. 9
            /\ SlotEnds
            /\ slot' = slot + 1
            /\ clocks' = 0
            /\ UNCHANGED sending

SameSlot == /\ slot = PAUSE \/ (slot \in 0 .. 9 /\ ~SlotEnds)
            /\ clocks' = IF slot = PAUSE THEN 0 ELSE clocks + 1
            /\ UNCHANGED <<slot, sending>>

\* A disturbance begins; clocks counts its length down, and then the rest.
Disturb == /\ slot = PAUSE
           /\ slot' = NOISE
           /\ clocks' \in {0, HALF_DELAY - 1}
           /\ UNCHANGED sending

Disturbed ==
    /\ slot \in {NOISE, CALM}
    /\ \/ clocks > 0 /\ clocks' = clocks - 1 /\ slot' = slot
       \/ /\ clocks = 0
          /\ slot' = IF slot = NOISE THEN CALM ELSE PAUSE
          /\ clocks' = IF slot = NOISE THEN HALF_DELAY ELSE 0
    /\ UNCHANGED sending

Sends(c) == MayStart /\ Starts(c) /\ UNCHANGED bit_time

SendsNothing == (NextSlot \/ SameSlot \/ Disturb \/ Disturbed)
                /\ UNCHANGED bit_time

SenderInit == /\ bit_time \in BitTimes
              /\ slot = PAUSE
              /\ clocks = 0
              /\ sending = NoBits

=============================================================================
