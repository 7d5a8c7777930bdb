--------------------------- MODULE LC3SerialFrame ---------------------------
(***************************************************************************)
(* The frame of rtl/uart_rx.sv and rtl/uart_tx.sv: a line at 1 when idle,  *)
(* a start bit 0, eight data bits and a stop bit 1, each DELAY_FRAMES      *)
(* clocks long.  A character is the function from bit numbers to its bits. *)
(***************************************************************************)
EXTENDS Naturals

CONSTANT DELAY_FRAMES

\* The clock counters have eight bits.
ASSUME SerialParameters == DELAY_FRAMES \in 1 .. 256

Bit       == 0 .. 1
Character == [0 .. 7 -> Bit]
NoBits    == [b \in 0 .. 7 |-> 0]
BitsOf(c) == [b \in 0 .. 7 |-> (c \div 2 ^ b) % 2]

HALF_DELAY == DELAY_FRAMES \div 2
=============================================================================
