--------------------------- MODULE LC3SerialEcho ---------------------------
(***************************************************************************)
(* The echo probe of rtl/uart_echo_top.sv, its sender, and at the far end  *)
(* of tx another uart_rx.  The LEDs and the counters that light them are   *)
(* left out.                                                               *)
(*                                                                         *)
(* History: `owed' holds the characters the sender has sent and not got    *)
(* back.  The sender keeps them to Ahead.  The probe takes two clocks      *)
(* longer for a character than a sender of its speed, and puts one that    *)
(* comes when another waits in the place of that one, even if the          *)
(* transmitter is free: three characters ahead are already too many.       *)
(***************************************************************************)
EXTENDS LC3SerialSender, LC3UartTx, Sequences

CONSTANT Ahead

ASSUME AheadAssumption == Ahead \in Nat \ {0}

VARIABLES tx_start, tx_data, pending_valid, pending_data,
          far_state, far_counter, far_bit, far_meta, far_sync, far_valid,
          far_data,
          owed

farVars  == <<far_state, far_counter, far_bit, far_meta, far_sync, far_valid,
              far_data>>
echoVars == <<rxVars, senderVars, txVars, tx_start, tx_data,
              pending_valid, pending_data, farVars, owed>>

Far == INSTANCE LC3UartRx WITH
         rx_state <- far_state, rx_counter <- far_counter,
         bit_count <- far_bit, rx_meta <- far_meta, rx_sync <- far_sync,
         rx_valid <- far_valid, rx_data <- far_data

StartWith(c) == tx_start' = TRUE /\ tx_data' = c
NoStart      == tx_start' = FALSE /\ UNCHANGED tx_data

\* A character that has just come is sent on if the transmitter is free, and
\* else it waits.
Forward ==
    /\ rx_valid
    /\ IF tx_ready /\ ~pending_valid
       THEN StartWith(rx_data) /\ UNCHANGED <<pending_data, pending_valid>>
       ELSE NoStart /\ pending_data' = rx_data /\ pending_valid' = TRUE

\* Mutant of SendPending: the waiting character is not marked as sent.
SendPending_Again ==
    /\ ~rx_valid /\ tx_ready /\ pending_valid
    /\ StartWith(pending_data)
    /\ UNCHANGED <<pending_data, pending_valid>>

SendPending ==
    /\ ~rx_valid /\ tx_ready /\ pending_valid
    /\ StartWith(pending_data)
    /\ pending_valid' = FALSE
    /\ UNCHANGED pending_data

NothingToSend ==
    /\ ~rx_valid /\ ~(tx_ready /\ pending_valid)
    /\ NoStart
    /\ UNCHANGED <<pending_data, pending_valid>>

ProbeClock == Forward \/ SendPending \/ NothingToSend

Taken == IF far_valid /\ owed # <<>> THEN Tail(owed) ELSE owed

EchoClock ==
    /\ RxClock(line)
    /\ TxClock(IF tx_start THEN {tx_data} ELSE {})
    /\ ProbeClock
    /\ Far!RxClock(tx)
    /\ \/ SendsNothing /\ owed' = Taken
       \/ \E c \in Characters :
             /\ Len(owed) < Ahead
             /\ Sends(c)
             /\ owed' = Append(Taken, c)

EchoInit ==
    /\ RxInit
    /\ SenderInit
    /\ TxInit
    /\ Far!RxInit
    /\ tx_start = FALSE
    /\ tx_data = NoBits
    /\ pending_valid = FALSE
    /\ pending_data = NoBits
    /\ owed = <<>>

EchoSpec == EchoInit /\ [][EchoClock]_echoVars

FairEchoSpec == EchoSpec /\ WF_echoVars(EchoClock)
-----------------------------------------------------------------------------
\* What comes back is what was sent, in order and each character once, also
\* when one is received in the clock in which another is passed on.
EchoesInOrder == far_valid => owed # <<>> /\ far_data = Head(owed)

\* A sender that waits for its characters sees one coming back.
EchoComes == owed # <<>> ~> far_valid
=============================================================================
