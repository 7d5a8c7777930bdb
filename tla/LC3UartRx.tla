----------------------------- MODULE LC3UartRx -----------------------------
(***************************************************************************)
(* The serial receiver of rtl/uart_rx.sv.  After the edge of a start bit   *)
(* it waits half a bit and then samples once per bit, in the middle if the *)
(* sender's clock agrees.                                                  *)
(***************************************************************************)
EXTENDS LC3SerialFrame

\* Half a bit is at least one clock.
ASSUME ReceiverParameters == HALF_DELAY > 0

VARIABLES rx_state, rx_counter, bit_count, rx_meta, rx_sync, rx_valid, rx_data

rxVars == <<rx_state, rx_counter, bit_count, rx_meta, rx_sync, rx_valid,
            rx_data>>

\* Counts n clocks and says whether the last of them has come.
RxCounts(n) == rx_counter' = IF rx_counter = n - 1 THEN 0 ELSE rx_counter + 1
RxDone(n)   == rx_counter = n - 1

RxIdle ==
    /\ rx_state = "IDLE"
    /\ rx_state' = IF rx_sync = 0 THEN "START_BIT" ELSE "IDLE"
    /\ rx_valid' = FALSE
    /\ UNCHANGED <<rx_counter, bit_count, rx_data>>

RxStartBit ==
    /\ rx_state = "START_BIT"
    /\ RxCounts(HALF_DELAY)
    /\ rx_state' = IF ~RxDone(HALF_DELAY) THEN "START_BIT"
                   ELSE IF rx_sync = 0 THEN "RECEIVE" ELSE "IDLE"
    /\ rx_valid' = FALSE
    /\ UNCHANGED <<bit_count, rx_data>>

RxReceive ==
    /\ rx_state = "RECEIVE"
    /\ RxCounts(DELAY_FRAMES)
    /\ rx_valid' = FALSE
    /\ IF RxDone(DELAY_FRAMES)
       THEN /\ rx_data' = [rx_data EXCEPT ![bit_count] = rx_sync]
            /\ bit_count' = (bit_count + 1) % 8
            /\ rx_state' = IF bit_count = 7 THEN "STOP_BIT" ELSE "RECEIVE"
       ELSE UNCHANGED <<rx_data, bit_count, rx_state>>

\* Mutant of RxStopBit: the stop bit has the wrong polarity.
RxStopBit_Low ==
    /\ rx_state = "STOP_BIT"
    /\ RxCounts(DELAY_FRAMES)
    /\ rx_valid' = (RxDone(DELAY_FRAMES) /\ rx_sync = 0)
    /\ rx_state' = IF RxDone(DELAY_FRAMES) THEN "IDLE" ELSE "STOP_BIT"
    /\ UNCHANGED <<bit_count, rx_data>>

\* A frame without its stop bit is dropped.
RxStopBit ==
    /\ rx_state = "STOP_BIT"
    /\ RxCounts(DELAY_FRAMES)
    /\ rx_valid' = (RxDone(DELAY_FRAMES) /\ rx_sync = 1)
    /\ rx_state' = IF RxDone(DELAY_FRAMES) THEN "IDLE" ELSE "STOP_BIT"
    /\ UNCHANGED <<bit_count, rx_data>>

RxClock(rx) ==
    /\ rx_meta' = rx
    /\ rx_sync' = rx_meta
    /\ RxIdle \/ RxStartBit \/ RxReceive \/ RxStopBit

RxInit == /\ rx_state = "IDLE"
          /\ rx_valid = FALSE
          /\ rx_data = NoBits
          /\ rx_counter = 0
          /\ bit_count = 0
          /\ rx_meta = 1
          /\ rx_sync = 1

\* Mutant of RxReset: the bit counter is forgotten.
RxReset_KeepsBit ==
    /\ rx_state' = "IDLE"
    /\ rx_valid' = FALSE
    /\ rx_data' = NoBits
    /\ rx_counter' = 0
    /\ rx_meta' = 1
    /\ rx_sync' = 1
    /\ UNCHANGED bit_count

RxReset == /\ rx_state' = "IDLE"
           /\ rx_valid' = FALSE
           /\ rx_data' = NoBits
           /\ rx_counter' = 0
           /\ bit_count' = 0
           /\ rx_meta' = 1
           /\ rx_sync' = 1

=============================================================================
