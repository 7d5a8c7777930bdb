-------------------------- MODULE LC3DisplayBridge --------------------------
(***************************************************************************)
(* rtl/lc3_display_bridge.sv: carries one character at a time from the     *)
(* system clock to the LCD clock.  The sender changes sys_req_toggle, the  *)
(* receiver answers by making lcd_ack_toggle equal to it, and each looks   *)
(* at the other's toggle through two registers.                            *)
(*                                                                         *)
(* Each action is one edge of one clock and constrains the registers of    *)
(* that clock only.  A register that samples a toggle of the other clock   *)
(* just as it changes settles on the old or on the new value; these are    *)
(* the two orders of the edges.                                            *)
(***************************************************************************)
VARIABLES sys_data_hold, sys_req_toggle, sys_ack_meta, sys_ack_sync,
          lcd_req_meta, lcd_req_sync, lcd_ack_toggle, lcd_valid, lcd_data

sysVars == <<sys_data_hold, sys_req_toggle, sys_ack_meta, sys_ack_sync>>
lcdVars == <<lcd_req_meta, lcd_req_sync, lcd_ack_toggle, lcd_valid, lcd_data>>
bridgeVars == <<sysVars, lcdVars>>

NUL == 0

\* Mutant of sys_ready: ready when no answer is coming in.
sys_ready_Idle == sys_ack_meta = sys_ack_sync

sys_ready == sys_req_toggle = sys_ack_sync

\* A character is offered: `offer' holds sys_data when sys_valid is up and is
\* empty otherwise.
Takes(offer) == sys_ready /\ offer # {}

SysEdge(offer) ==
    /\ sys_ack_meta' = lcd_ack_toggle
    /\ sys_ack_sync' = sys_ack_meta
    /\ IF Takes(offer)
       THEN sys_data_hold' \in offer /\ sys_req_toggle' = ~sys_req_toggle
       ELSE UNCHANGED <<sys_data_hold, sys_req_toggle>>

\* Mutant of Delivers: the receiver is not asked.
Delivers_Anyway(lcd_ready) == lcd_req_sync # lcd_ack_toggle

Delivers(lcd_ready) == lcd_req_sync # lcd_ack_toggle /\ lcd_ready

LcdEdge(lcd_ready) ==
    /\ lcd_req_meta' = sys_req_toggle
    /\ lcd_req_sync' = lcd_req_meta
    /\ lcd_valid' = Delivers(lcd_ready)
    /\ IF Delivers(lcd_ready)
       THEN lcd_data' = sys_data_hold /\ lcd_ack_toggle' = lcd_req_sync
       ELSE UNCHANGED <<lcd_data, lcd_ack_toggle>>

SysReset == /\ sys_data_hold' = NUL
            /\ sys_req_toggle' = FALSE
            /\ sys_ack_meta' = FALSE
            /\ sys_ack_sync' = FALSE

LcdReset == /\ lcd_valid' = FALSE
            /\ lcd_data' = NUL
            /\ lcd_req_meta' = FALSE
            /\ lcd_req_sync' = FALSE
            /\ lcd_ack_toggle' = FALSE

BridgeInit == /\ sys_data_hold = NUL
              /\ sys_req_toggle = FALSE
              /\ sys_ack_meta = FALSE
              /\ sys_ack_sync = FALSE
              /\ lcd_valid = FALSE
              /\ lcd_data = NUL
              /\ lcd_req_meta = FALSE
              /\ lcd_req_sync = FALSE
              /\ lcd_ack_toggle = FALSE
=============================================================================
