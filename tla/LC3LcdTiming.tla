---------------------------- MODULE LC3LcdTiming ----------------------------
(***************************************************************************)
(* The beam of rtl/lcd_timing.sv: lines of H_TOTAL clocks, of which the    *)
(* H_PIXELS after the back porch are visible, and frames of V_TOTAL lines. *)
(***************************************************************************)
EXTENDS Integers

CONSTANTS H_PIXELS, H_FP, H_BP, V_LINES, V_FP, V_BP

H_TOTAL == H_BP + H_PIXELS + H_FP
V_TOTAL == V_BP + V_LINES + V_FP

\* The counters have ten and nine bits, the coordinates nine.
ASSUME TimingParameters ==
    /\ {H_PIXELS, V_LINES} \subseteq 1 .. 512
    /\ {H_FP, H_BP, V_FP, V_BP} \subseteq Nat
    /\ H_TOTAL <= 1024
    /\ V_TOTAL <= 512

VARIABLES pixel_count, line_count

timingVars == <<pixel_count, line_count>>

LineVisible == line_count \in V_BP .. V_BP + V_LINES - 1

lcd_en == LineVisible /\ pixel_count \in H_BP .. H_BP + H_PIXELS - 1
lcd_x  == IF lcd_en THEN pixel_count - H_BP ELSE 0
lcd_y  == IF LineVisible THEN line_count - V_BP ELSE 0

\* Mutant of NextLine: a line too many.
NextLine_OneMore == line_count' = IF line_count = V_TOTAL THEN 0
                                  ELSE (line_count + 1) % 512

NextLine == line_count' = IF line_count = V_TOTAL - 1 THEN 0
                          ELSE (line_count + 1) % 512

TimingClock ==
    IF pixel_count = H_TOTAL - 1
    THEN pixel_count' = 0 /\ NextLine
    ELSE pixel_count' = (pixel_count + 1) % 1024 /\ UNCHANGED line_count

TimingReset == pixel_count' = 0 /\ line_count' = 0
=============================================================================
