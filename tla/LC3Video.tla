------------------------------ MODULE LC3Video ------------------------------
(***************************************************************************)
(* The two pictures of rtl/lc3_top.sv: the framebuffer reader with the     *)
(* video port of the memory controller, and the text renderer with the     *)
(* read port of the text console.  Both work in pipelines behind the beam: *)
(* a word of the framebuffer is asked for one pixel ahead and a colour is  *)
(* one clock late; a point of a character is two clocks late.              *)
(*                                                                         *)
(* Words, cells and glyphs are represented by where they are: an address   *)
(* of the framebuffer, a column and row of the screen, a point in a glyph. *)
(* A set of at most one of them stands for a register; the empty set is    *)
(* black.                                                                  *)
(*                                                                         *)
(* History: `beams' holds the last two positions of the beam, oldest       *)
(* first.                                                                  *)
(***************************************************************************)
EXTENDS LC3LcdTiming, Sequences

CONSTANTS FB_WIDTH, FB_HEIGHT, X_MARGIN, Y_MARGIN,
          PowerOnPixels,   \* values of the counters, which are not initialised
          PowerOnLines

SCALE           == 2
PREFETCH_PIXELS == 1
CHAR_SIZE       == 8

\* The picture is in the visible area, and its word addresses are those that
\* the reader's seven-bit coordinates can form.
ASSUME VideoParameters ==
    /\ FB_WIDTH \in 1 .. 128 /\ FB_HEIGHT \in 1 .. 128
    /\ X_MARGIN \in Nat \ {0} /\ Y_MARGIN \in Nat
    /\ X_MARGIN + SCALE * FB_WIDTH < H_PIXELS
    /\ Y_MARGIN + SCALE * FB_HEIGHT < V_LINES
    /\ PowerOnPixels \subseteq 0 .. 1023
    /\ PowerOnLines \subseteq 0 .. 511

VARIABLES video_pixel, lcd_rgb,
          cell_read, cell_read_data, request_en, render_en,
          request_glyph, render_glyph,
          beams

pictureVars == <<video_pixel, lcd_rgb>>
textVars    == <<cell_read, cell_read_data, request_en, render_en,
                 request_glyph, render_glyph>>
videoVars   == <<timingVars, pictureVars, textVars, beams>>

\* Mutant of REQUEST_X_START: a word is asked for when it is due.
REQUEST_X_START_Late == X_MARGIN

REQUEST_X_START == X_MARGIN - PREFETCH_PIXELS
REQUEST_X_END   == X_MARGIN + FB_WIDTH * SCALE - PREFETCH_PIXELS - 1
REQUEST_Y_END   == Y_MARGIN + FB_HEIGHT * SCALE - 1

video_en == /\ lcd_en
            /\ lcd_x \in REQUEST_X_START .. REQUEST_X_END
            /\ lcd_y \in Y_MARGIN .. REQUEST_Y_END

fb_x == ((lcd_x - REQUEST_X_START) \div 2) % 128
fb_y == ((lcd_y - Y_MARGIN) \div 2) % 128

video_addr == fb_y * FB_WIDTH + fb_x

\* One pixel and one line more than the picture has.
display_in_framebuffer ==
    /\ lcd_en
    /\ lcd_x \in X_MARGIN .. X_MARGIN + FB_WIDTH * SCALE
    /\ lcd_y \in Y_MARGIN .. Y_MARGIN + FB_HEIGHT * SCALE

\* The video port of the framebuffer in the memory controller.
FramebufferPort ==
    video_pixel' = IF video_en /\ video_addr < FB_WIDTH * FB_HEIGHT
                   THEN {video_addr} ELSE {}

PictureClock ==
    lcd_rgb' = IF display_in_framebuffer THEN video_pixel ELSE {}

\* The read port of the text console.
ConsolePort == cell_read_data' = cell_read

\* Mutant of RenderClock: the point in the glyph is not delayed.
RenderClock_Early ==
    /\ render_en' = request_en
    /\ render_glyph' = <<lcd_x % CHAR_SIZE, lcd_y % CHAR_SIZE>>

\* The second stage of the renderer, beside the read port of the console.
RenderClock == render_en' = request_en /\ render_glyph' = request_glyph

RequestClock ==
    /\ request_en' = lcd_en
    /\ IF lcd_en
       THEN /\ cell_read' = <<lcd_x \div CHAR_SIZE, lcd_y \div CHAR_SIZE>>
            /\ request_glyph' = <<lcd_x % CHAR_SIZE, lcd_y % CHAR_SIZE>>
       ELSE UNCHANGED cell_read /\ request_glyph' = <<0, 0>>

\* What the renderer shows: a point of the glyph of a cell.
text_pixel == IF render_en THEN {<<cell_read_data, render_glyph>>} ELSE {}

Beam == [en |-> lcd_en, x |-> lcd_x, y |-> lcd_y]

VideoClock ==
    /\ TimingClock
    /\ FramebufferPort
    /\ PictureClock
    /\ RequestClock
    /\ ConsolePort
    /\ RenderClock
    /\ beams' = Append(IF Len(beams) = 2 THEN Tail(beams) ELSE beams, Beam)

\* The word read from the framebuffer is not reset.
VideoReset ==
    /\ TimingReset
    /\ UNCHANGED video_pixel
    /\ lcd_rgb' = {}
    /\ cell_read' = <<0, 0>>
    /\ cell_read_data' = <<0, 0>>
    /\ request_en' = FALSE
    /\ render_en' = FALSE
    /\ request_glyph' = <<0, 0>>
    /\ render_glyph' = <<0, 0>>
    /\ beams' = <<>>

VideoInit ==
    /\ pixel_count \in PowerOnPixels
    /\ line_count \in PowerOnLines
    /\ video_pixel = {}
    /\ lcd_rgb = {}
    /\ cell_read = <<0, 0>>
    /\ cell_read_data = <<0, 0>>
    /\ request_en = FALSE
    /\ render_en = FALSE
    /\ request_glyph = <<0, 0>>
    /\ render_glyph = <<0, 0>>
    /\ beams = <<>>

VideoSpec == VideoInit /\ [][VideoClock \/ VideoReset]_videoVars

-----------------------------------------------------------------------------
\* The word that belongs at a position: each is SCALE pixels wide and high.
WordAt(b) ==
    IF /\ b.en
       /\ b.x \in X_MARGIN .. X_MARGIN + SCALE * FB_WIDTH - 1
       /\ b.y \in Y_MARGIN .. Y_MARGIN + SCALE * FB_HEIGHT - 1
    THEN {((b.y - Y_MARGIN) \div SCALE) * FB_WIDTH
          + (b.x - X_MARGIN) \div SCALE}
    ELSE {}

\* Every pixel of the framebuffer is in its place and the rest is black, one
\* clock behind the beam: the prefetch makes up exactly for the latency of the
\* port, also in the first column, where the window of requests has opened
\* before the window of the picture, and in the last, where the latter is one
\* pixel longer.
PictureInPlace == Len(beams) = 2 => lcd_rgb = WordAt(beams[2])

PointAt(b) ==
    IF b.en THEN {<< <<b.x \div CHAR_SIZE, b.y \div CHAR_SIZE>>,
                     <<b.x % CHAR_SIZE, b.y % CHAR_SIZE>> >>}
    ELSE {}

\* The cell that arrives from the console and the point in the glyph, which
\* take different ways, belong together, two clocks behind the beam; a glyph is
\* not shifted against its cell, and the first and last column are whole.
TextInPlace == Len(beams) = 2 => text_pixel = PointAt(beams[1])

\* The clocks until the beam next begins a frame: a counter that stands beyond
\* its last value runs on to the end of its width.
FrameLeft ==
    (IF pixel_count < H_TOTAL THEN H_TOTAL - pixel_count
                              ELSE 1024 - pixel_count + H_TOTAL)
    + (IF line_count < V_TOTAL THEN V_TOTAL - 1 - line_count
                               ELSE 511 - line_count) * H_TOTAL

\* Wherever the counters, which nothing initialises but the button, happen to
\* start, the beam is on its way to the start of a frame and gets nearer at
\* every clock; from its first frame on it begins one every H_TOTAL times
\* V_TOTAL clocks, and only the button makes it begin one early.
FrameComesRound ==
    [][ \/ FrameLeft > 1 /\ FrameLeft' = FrameLeft - 1
        \/ /\ FrameLeft = 1 \/ VideoReset
           /\ pixel_count' = 0 /\ line_count' = 0
           /\ FrameLeft' = H_TOTAL * V_TOTAL ]_videoVars
=============================================================================
