---------------------------- MODULE IntervalTimer ----------------------------
(***************************************************************************)
(* What the timer promises, with one countdown in clocks instead of the    *)
(* prescaler and tick counter of LC3Timer: after a load of v the ready bit *)
(* is set v milliseconds later and then every v milliseconds, to the       *)
(* clock, whatever is read in between; only a read, a load or an interval  *)
(* of 0 clears it.                                                         *)
(*                                                                         *)
(* Edge is one edge of the clock, for the inputs read, load and word that  *)
(* the timer then sees: it leaves no choice, and each edge has to be one,  *)
(* so that a clock that is not counted breaks the promise.                 *)
(***************************************************************************)
EXTENDS Naturals

CONSTANT CLOCKS_PER_MILLISECOND

VARIABLES interval, left, ready

Clocks(milliseconds) == milliseconds * CLOCKS_PER_MILLISECOND

Load(word) == /\ interval' = word
              /\ left' = Clocks(word)
              /\ ready' = FALSE

Off == /\ interval = 0
       /\ left' = 0
       /\ ready' = FALSE
       /\ UNCHANGED interval

Count(read) == /\ left > 1
               /\ left' = left - 1
               /\ ready' = (ready /\ ~read)
               /\ UNCHANGED interval

Fire == /\ left = 1
        /\ left' = Clocks(interval)
        /\ ready' = TRUE
        /\ UNCHANGED interval

Edge(read, load, word) == IF load THEN Load(word) ELSE Off \/ Count(read) \/ Fire

Init == interval = 0 /\ left = 0 /\ ready = FALSE

Reset == Init'
=============================================================================
