---------------------------- MODULE LC3SystemRun ----------------------------
(***************************************************************************)
(* LC3System with a keyboard that sends the characters 1, 2, 3 ... and     *)
(* with history variables, which no block of the computer reads:           *)
(*   typed    number of characters the keyboard has sent;                  *)
(*   gap      clocks before it may send the next one;                      *)
(*   resets   number of times the reset button was pressed;                *)
(* and, since the last reset,                                              *)
(*   latched  number of characters the keyboard register took;             *)
(*   entered  number of interrupts the core accepted;                      *)
(*   got      the words programs have loaded from KBDR;                    *)
(*   sent     the characters programs have stored to DDR;                  *)
(*   shown    the characters the display has taken;                        *)
(*   key_seen whether the ready bit of the keyboard that is set has been   *)
(*            on its way to the core;                                      *)
(*   key_told whether the core has been told of a character, by the ready  *)
(*            bit of a load from KBSR or by an interrupt, and has loaded   *)
(*            none from KBDR since;                                        *)
(*   dsr_told whether a load from DSR has told it that the display is      *)
(*            ready, and it has stored nothing to DDR since;               *)
(*   interval the word last stored to TMI.                                 *)
(***************************************************************************)
EXTENDS LC3System, Sequences

CONSTANTS
    KEY_GAP,      \* clocks a character takes on the serial line (2340)
    MaxKeys,      \* bound on typed
    MaxResets     \* bound on resets

ASSUME RunParameters == /\ KEY_GAP \in Nat
                        /\ MaxKeys \in Byte
                        /\ MaxResets \in Nat
                        /\ Keys = 1 .. MaxKeys

VARIABLES typed, gap, resets, latched, entered, got, sent, shown,
          key_seen, key_told, dsr_told, interval

historyVars == <<typed, gap, resets, latched, entered, got, sent, shown,
                 key_seen, key_told, dsr_told, interval>>
runVars == <<systemVars, historyVars>>

Fresh == /\ latched = 0
         /\ entered = 0
         /\ got = <<>>
         /\ sent = <<>>
         /\ shown = <<>>
         /\ key_seen = FALSE
         /\ key_told = FALSE
         /\ dsr_told = FALSE
         /\ interval = 0

RunInit == SystemInit /\ Fresh /\ typed = 0 /\ gap = 0 /\ resets = 0

\* The keyboard sends nothing, or its next character when the line is free.
SendKey(keys) ==
    \/ /\ keys = {}
       /\ typed' = typed
       /\ gap' = IF gap = 0 THEN 0 ELSE gap - 1
    \/ /\ gap = 0
       /\ keys = {typed + 1}
       /\ typed' = typed + 1
       /\ gap' = KEY_GAP

\* s with x appended when condition c holds.
AppendIf(c, s, x) == IF c THEN Append(s, x) ELSE s

\* A load from register r ends.
Loads(r) == state = "REG_WRITEBACK" /\ mem_addr = r

\* It finds the ready bit of a status register set.
FindsReady(r) == Loads(r) /\ cpu_rdata >= 32768

Record(keys) ==
    /\ latched' = IF Latches(keys) THEN latched + 1 ELSE latched
    /\ entered' = IF state' = "INT_PUSH_PSR" THEN entered + 1 ELSE entered
    /\ got' = AppendIf(Loads(KBDR_ADDR), got, cpu_rdata)
    /\ sent' = AppendIf(Writes(DDR_ADDR, mem_addr, mem_we),
                        sent, mem_wdata % 256)
    /\ shown' = AppendIf(display_valid /\ display_ready, shown, display_data)
    /\ key_seen' = IF Latches(keys) THEN FALSE
                   ELSE key_seen \/ Reads(KBDR_ADDR, mem_addr, mem_we)
    /\ key_told' = \/ state' = "INT_PUSH_PSR"
                   \/ FindsReady(KBSR_ADDR)
                   \/ key_told /\ ~Loads(KBDR_ADDR)
    /\ dsr_told' = \/ FindsReady(DSR_ADDR)
                   \/ dsr_told /\ ~Writes(DDR_ADDR, mem_addr, mem_we)
    /\ interval' = IF Writes(TMI_ADDR, mem_addr, mem_we)
                   THEN mem_wdata ELSE interval

Tick(keys) == SystemClock(keys) /\ SendKey(keys) /\ Record(keys)

PressReset ==
    /\ resets < MaxResets
    /\ ResetButton
    /\ resets' = resets + 1
    /\ latched' = 0
    /\ entered' = 0
    /\ got' = <<>>
    /\ sent' = <<>>
    /\ shown' = <<>>
    /\ key_seen' = FALSE
    /\ key_told' = FALSE
    /\ dsr_told' = FALSE
    /\ interval' = 0
    /\ UNCHANGED <<typed, gap>>

ClockEdge == (\E keys \in KeyPort : Tick(keys)) /\ resets' = resets

RunNext == ClockEdge \/ PressReset

RunSpec == RunInit /\ [][RunNext]_runVars

\* The oscillator does not stop, and the display becomes ready again, which
\* LC3DisplayPort shows of it (DisplayComesReady).
FairRunSpec == /\ RunSpec
               /\ WF_runVars(ClockEdge)
               /\ []<>display_ready
-----------------------------------------------------------------------------
(***************************************************************************)
(* What the computer expects of the programs that use its devices.         *)
(***************************************************************************)
\* KBDR is loaded when the core has been told of a character, and addressed
\* by nothing else; the address stands on the bus until the next fetch.
KeysAsked ==
    mem_addr = KBDR_ADDR =>
      /\ ~mem_we
      /\ \/ state = "REG_WRITEBACK" /\ key_told
         \/ state = "MEM_WAIT" /\ return_state = "REG_WRITEBACK" /\ key_told
         \/ state \in {"FETCH", "HALT", "INT_PUSH_PSR"}

\* A handler that returns to where it could be entered again has loaded the
\* character.
HandlersAnswer ==
    state = "PSR_WRITE" /\ Priority(cpu_rdata) < irq_priority => ~key_told

\* A character is stored to DDR after DSR said that the display is ready.
DisplayAsked == Writes(DDR_ADDR, mem_addr, mem_we) => dsr_told

\* No interrupt pushes the PSR onto the interval register.
TimerOffStack == state = "INT_PUSH_PC" => mem_addr # TMI_ADDR
-----------------------------------------------------------------------------
\* A program that polls KBSR, or a handler, never reads one character twice
\* and never reads them out of order, although the ready bit goes down only
\* two clocks after the read that clears it.
KeysReadOnce == \A i \in 2 .. Len(got) : got[i - 1] < got[i]

\* A character stored to DDR under DSR's promise is shown once, unchanged and
\* in order: none is dropped because the display became busy in between, and
\* none is shown twice while the address of DDR stays on the bus.
CharactersDisplayed ==
    sent = shown \o (IF display_valid THEN <<display_data>> ELSE <<>>)

\* Character k waits, and no read of the one before it is still on the bus or
\* on its way to the keyboard register.
Waits(k) == /\ kb_ready_bit
            /\ kbdr_value = k
            /\ ~Reads(KBDR_ADDR, mem_addr, mem_we)
            /\ ~kbdr_read

\* A character that waits in KBDR is loaded from there sooner or later, by a
\* program that polls or by the handler, unless reset empties the register or
\* the machine stops: MCR may be cleared, or a fault may leave the core in HALT.
\* One that the late pulses of the read before it clear never waits.
KeyAnswered ==
    \A k \in Keys :
      Waits(k) ~> \/ \E i \in DOMAIN got : got[i] = k
                  \/ kbdr_value = 0
                  \/ machine_halt
                  \/ state = "HALT"

\* The level-sensitive keyboard interrupt is taken at most once per character:
\* the read in the handler has brought it down before RTI lets it in again.
OneInterruptPerKey == entered <= latched

\* The handler finds the character it was called for still waiting.
HandlerHasKey == state = "INT_SET_PC" => kb_ready_bit

\* The timer is loaded with the word that was stored, which it takes from the
\* bus one clock after the store.
IntervalAsWritten == tmi_we => mem_wdata = interval

\* tb/lc3_keyboard_tb.sv: KBSR[15] "is cleared by reading KBDR"; so a waiting
\* character goes away only when it has been read.
KeyClearedByItsRead ==
    [][ kb_ready_bit /\ ~kb_ready_bit' => key_seen \/ ResetButton ]_runVars
=============================================================================
