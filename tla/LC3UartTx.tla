----------------------------- MODULE LC3UartTx -----------------------------
(***************************************************************************)
(* The serial transmitter of rtl/uart_tx.sv.  It takes a character when it *)
(* is idle and sends its frame; tx is registered, so the line follows the  *)
(* state one clock late.                                                   *)
(***************************************************************************)
EXTENDS LC3SerialFrame

VARIABLES tx_state, tx_counter, tx_bit, data_reg, tx

txVars == <<tx_state, tx_counter, tx_bit, data_reg, tx>>

tx_ready == tx_state = "IDLE"

TxCounts == tx_counter' = IF tx_counter = DELAY_FRAMES - 1 THEN 0
                          ELSE tx_counter + 1
TxDone   == tx_counter = DELAY_FRAMES - 1

\* `start' holds the character on data when start is up and is empty otherwise.
TxIdle(start) ==
    /\ tx_state = "IDLE"
    /\ \/ start = {} /\ UNCHANGED <<tx_state, data_reg>>
       \/ start # {} /\ tx_state' = "START_BIT" /\ data_reg' \in start
    /\ UNCHANGED <<tx_counter, tx_bit, tx>>

TxStartBit ==
    /\ tx_state = "START_BIT"
    /\ tx' = 0
    /\ TxCounts
    /\ IF TxDone THEN tx_bit' = 0 /\ tx_state' = "DATA"
                 ELSE UNCHANGED <<tx_bit, tx_state>>
    /\ UNCHANGED data_reg

TxData ==
    /\ tx_state = "DATA"
    /\ tx' = data_reg[tx_bit]
    /\ TxCounts
    /\ IF TxDone
       THEN /\ tx_bit' = (tx_bit + 1) % 8
            /\ tx_state' = IF tx_bit = 7 THEN "STOP_BIT" ELSE "DATA"
       ELSE UNCHANGED <<tx_bit, tx_state>>
    /\ UNCHANGED data_reg

TxStopBit ==
    /\ tx_state = "STOP_BIT"
    /\ tx' = 1
    /\ TxCounts
    /\ tx_state' = IF TxDone THEN "IDLE" ELSE "STOP_BIT"
    /\ UNCHANGED <<tx_bit, data_reg>>

TxClock(start) == TxIdle(start) \/ TxStartBit \/ TxData \/ TxStopBit

TxInit == /\ tx_state = "IDLE"
          /\ tx_counter = 0
          /\ tx_bit = 0
          /\ data_reg = NoBits
          /\ tx = 1

TxReset == /\ tx' = 1
           /\ tx_state' = "IDLE"
           /\ tx_counter' = 0
           /\ tx_bit' = 0
           /\ UNCHANGED data_reg
=============================================================================
