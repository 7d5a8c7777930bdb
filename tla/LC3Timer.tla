------------------------------ MODULE LC3Timer ------------------------------
(***************************************************************************)
(* The interval timer of rtl/lc3_timer.sv.  Writing a number of            *)
(* milliseconds to TMI starts it; every time that many milliseconds have   *)
(* passed it sets the ready bit that TMR shows.                            *)
(***************************************************************************)
EXTENDS LC3Words

CONSTANT CLOCKS_PER_MILLISECOND

ASSUME TimerParameters == CLOCKS_PER_MILLISECOND \in Word \ {0}

VARIABLES clock_count, remaining_ticks, tmi_value, timer_ready

timerVars == <<clock_count, remaining_ticks, tmi_value, timer_ready>>

tmr_value == IF timer_ready THEN 32768 ELSE 0

Reload(ticks) == /\ remaining_ticks' = ticks
                 /\ clock_count' = CLOCKS_PER_MILLISECOND - 1

LoadInterval(tmi_we, wdata) ==
    /\ tmi_we
    /\ tmi_value' = wdata
    /\ timer_ready' = FALSE
    /\ Reload(wdata)

Disabled(tmi_we) ==
    /\ ~tmi_we
    /\ tmi_value = 0
    /\ timer_ready' = FALSE
    /\ remaining_ticks' = 0
    /\ clock_count' = 0
    /\ UNCHANGED tmi_value

CountClock(tmr_read, tmi_we) ==
    /\ ~tmi_we
    /\ tmi_value # 0
    /\ clock_count # 0
    /\ clock_count' = clock_count - 1
    /\ timer_ready' = (timer_ready /\ ~tmr_read)
    /\ UNCHANGED <<remaining_ticks, tmi_value>>

\* Mutant of CountTick: each millisecond but the last is a clock too long.
CountTick_ClockMore(tmr_read, tmi_we) ==
    /\ ~tmi_we
    /\ tmi_value # 0
    /\ clock_count = 0
    /\ remaining_ticks > 1
    /\ remaining_ticks' = remaining_ticks - 1
    /\ clock_count' = CLOCKS_PER_MILLISECOND
    /\ timer_ready' = (timer_ready /\ ~tmr_read)
    /\ UNCHANGED tmi_value

CountTick(tmr_read, tmi_we) ==
    /\ ~tmi_we
    /\ tmi_value # 0
    /\ clock_count = 0
    /\ remaining_ticks > 1
    /\ Reload(remaining_ticks - 1)
    /\ timer_ready' = (timer_ready /\ ~tmr_read)
    /\ UNCHANGED tmi_value

\* The tick wins over a read in the same clock.
Expire(tmi_we) ==
    /\ ~tmi_we
    /\ tmi_value # 0
    /\ clock_count = 0
    /\ remaining_ticks <= 1
    /\ timer_ready' = TRUE
    /\ Reload(tmi_value)
    /\ UNCHANGED tmi_value

TimerClock(tmr_read, tmi_we, wdata) ==
    \/ LoadInterval(tmi_we, wdata)
    \/ Disabled(tmi_we)
    \/ CountClock(tmr_read, tmi_we)
    \/ CountTick(tmr_read, tmi_we)
    \/ Expire(tmi_we)

TimerInit == /\ clock_count = 0
             /\ remaining_ticks = 0
             /\ tmi_value = 0
             /\ timer_ready = FALSE

TimerReset == /\ clock_count' = 0
              /\ remaining_ticks' = 0
              /\ tmi_value' = 0
              /\ timer_ready' = FALSE
-----------------------------------------------------------------------------
TimerTypeOK ==
    /\ clock_count \in 0 .. CLOCKS_PER_MILLISECOND - 1
    /\ remaining_ticks \in Word
    /\ tmi_value \in Word
    /\ timer_ready \in BOOLEAN

\* The two counters are one countdown.
ClocksLeft ==
    IF tmi_value = 0 THEN 0
    ELSE (remaining_ticks - 1) * CLOCKS_PER_MILLISECOND + clock_count + 1

Promise == INSTANCE IntervalTimer WITH
             interval <- tmi_value, left <- ClocksLeft, ready <- timer_ready

\* While an interval is running the tick counter stays between 1 and the
\* interval, so the comparison that detects the last tick cannot be skipped.
TicksInRange ==
    tmi_value # 0 => remaining_ticks \in 1 .. tmi_value
=============================================================================
