----------------------------- MODULE LC3Keyboard -----------------------------
(***************************************************************************)
(* The keyboard register of rtl/lc3_keyboard.sv: one character deep.  A    *)
(* character that arrives while one is waiting is dropped.                 *)
(***************************************************************************)
EXTENDS LC3Words

VARIABLES kb_ready_bit, kbdr_value

keyboardVars == <<kb_ready_bit, kbdr_value>>

\* `keys' holds the character on keyboard_data when keyboard_valid is up and
\* is empty otherwise.  A character is latched even in a clock in which the
\* ready bit of an earlier one is being cleared: it is the old value of the
\* bit that counts.
Latches(keys) == ~kb_ready_bit /\ keys # {}

\* Mutant of KeyboardClock: reading KBDR does not clear the ready bit.
KeyboardClock_ReadKeeps(keys, kbdr_read) ==
    \/ /\ Latches(keys)
       /\ kb_ready_bit' = TRUE
       /\ kbdr_value' \in keys
    \/ /\ ~Latches(keys)
       /\ UNCHANGED <<kb_ready_bit, kbdr_value>>

KeyboardClock(keys, kbdr_read) ==
    \/ /\ Latches(keys)
       /\ kb_ready_bit' = TRUE
       /\ kbdr_value' \in keys
    \/ /\ ~Latches(keys)
       /\ kb_ready_bit' = (kb_ready_bit /\ ~kbdr_read)
       /\ UNCHANGED kbdr_value

KeyboardInit == kb_ready_bit = FALSE /\ kbdr_value = 0

KeyboardReset == kb_ready_bit' = FALSE /\ kbdr_value' = 0

KeyboardTypeOK == kb_ready_bit \in BOOLEAN /\ kbdr_value \in Byte
=============================================================================
