------------------------ MODULE LC3DisplayPortProofs ------------------------
(***************************************************************************)
(* The output side of the computer, for every size of the screen, every    *)
(* speed of the serial line and every order of the edges of the clocks.    *)
(*                                                                         *)
(* First the text display: the handshake of the bridge; then that bridge   *)
(* and console are a terminal.  The cells of the ring of rows make the     *)
(* same picture whatever row it begins at, because no two places have one  *)
(* cell (CellsApart); clearing a row is not seen, a turn of the ring is a  *)
(* scroll, and the characters on the way are at most one at the console    *)
(* and one between the clocks.                                             *)
(*                                                                         *)
(* Then the display beside the transmitter: both sinks take every          *)
(* character, the text display is used as its own specification assumes,   *)
(* and the two together are the DisplayPort of the computer.               *)
(*                                                                         *)
(* At last that a display that is not ready is on its way to be: FrameLeft *)
(* and BridgeLeft count what is left for the transmitter and the bridge,   *)
(* and only fall until both are nothing.                                   *)
(***************************************************************************)
EXTENDS LC3DisplayPort, Integers, TLAPS, SequenceTheorems

Toggles == /\ sys_req_toggle \in BOOLEAN
           /\ lcd_req_meta \in BOOLEAN
           /\ lcd_req_sync \in BOOLEAN
           /\ lcd_ack_toggle \in BOOLEAN
           /\ sys_ack_meta \in BOOLEAN
           /\ sys_ack_sync \in BOOLEAN

\* A change of the request travels round the ring of six registers, and the
\* next one starts only when it has come back: behind the first register that
\* has not seen it no later one has.
Ring ==
    /\ lcd_req_meta # sys_req_toggle => lcd_req_sync # sys_req_toggle
    /\ lcd_req_sync # sys_req_toggle => lcd_ack_toggle # sys_req_toggle
    /\ lcd_ack_toggle # sys_req_toggle => sys_ack_meta # sys_req_toggle
    /\ sys_ack_meta # sys_req_toggle => sys_ack_sync # sys_req_toggle

\* When a character reaches the console the bridge has nothing more for it.
Handed == lcd_valid => lcd_req_sync = lcd_ack_toggle

SysCleared == /\ sys_req_toggle = FALSE
              /\ sys_ack_meta = FALSE
              /\ sys_ack_sync = FALSE

LcdCleared == /\ lcd_req_meta = FALSE
              /\ lcd_req_sync = FALSE
              /\ lcd_ack_toggle = FALSE
              /\ lcd_valid = FALSE

HandshakeInv == /\ Toggles
                /\ ConsoleReady
                /\ ~reset => Ring /\ Handed
                /\ reset /\ sys_saw => SysCleared
                /\ reset /\ lcd_saw => LcdCleared
-----------------------------------------------------------------------------
\* In an edge in which the LCD side samples the character, the request is one
\* whose answer the sender does not have yet.
LEMMA SamplingHolds ==
  ASSUME Toggles, Ring, lcd_req_sync # lcd_ack_toggle
  PROVE  ~sys_ready
  BY DEF Toggles, Ring, sys_ready

\* What one edge of each clock does to the toggles.
LEMMA SysEdgeToggles ==
  ASSUME NEW offer, SysEdge(offer)
  PROVE  /\ sys_ack_meta' = lcd_ack_toggle
         /\ sys_ack_sync' = sys_ack_meta
         /\ \/ sys_req_toggle' = sys_req_toggle
            \/ sys_ready /\ sys_req_toggle' = ~sys_req_toggle
  BY DEF SysEdge, Takes

\* What a clock edge of the LCD side does to its half of the handshake.
LEMMA LcdEdgeToggles ==
  ASSUME LcdEdge(char_ready)
  PROVE  /\ lcd_req_meta' = sys_req_toggle
         /\ lcd_req_sync' = lcd_req_meta
         /\ \/ /\ lcd_valid' = FALSE
               /\ lcd_ack_toggle' = lcd_ack_toggle
            \/ /\ lcd_valid' = TRUE
               /\ ~clearing
               /\ lcd_req_sync # lcd_ack_toggle
               /\ lcd_ack_toggle' = lcd_req_sync
  <1>1. CASE Delivers(char_ready)
    BY <1>1 DEF LcdEdge, Delivers, char_ready
  <1>2. CASE ~Delivers(char_ready)
    BY <1>2 DEF LcdEdge
  <1> QED BY <1>1, <1>2

\* The ring is kept by an edge of the system clock, of the LCD clock, or both.
LEMMA RingKept ==
  ASSUME Toggles, Ring, Handed,
         \/ UNCHANGED sysVars
         \/ \E offer \in Offers : SysEdge(offer),
         \/ UNCHANGED lcdVars
         \/ LcdEdge(char_ready)
  PROVE  Toggles' /\ Ring' /\ Handed'
  <1> DEFINE SysMoves == /\ sys_ack_meta' = lcd_ack_toggle
                         /\ sys_ack_sync' = sys_ack_meta
                         /\ \/ sys_req_toggle' = sys_req_toggle
                            \/ /\ sys_req_toggle = sys_ack_sync
                               /\ sys_req_toggle' = ~sys_req_toggle
             SysStays == UNCHANGED <<sys_req_toggle, sys_ack_meta,
                                     sys_ack_sync>>
             LcdMoves == /\ lcd_req_meta' = sys_req_toggle
                         /\ lcd_req_sync' = lcd_req_meta
                         /\ \/ /\ lcd_valid' = FALSE
                               /\ lcd_ack_toggle' = lcd_ack_toggle
                            \/ /\ lcd_req_sync # lcd_ack_toggle
                               /\ lcd_ack_toggle' = lcd_req_sync
             LcdStays == UNCHANGED <<lcd_req_meta, lcd_req_sync,
                                     lcd_ack_toggle, lcd_valid>>
  <1>1. SysMoves \/ SysStays
    BY SysEdgeToggles DEF sys_ready, sysVars
  <1>2. LcdMoves \/ LcdStays
    BY LcdEdgeToggles DEF lcdVars
  <1> HIDE DEF SysMoves, SysStays, LcdMoves, LcdStays
  <1>3. Toggles'
    BY <1>1, <1>2 DEF Toggles, SysMoves, SysStays, LcdMoves, LcdStays
  <1>4. CASE SysMoves /\ LcdMoves
    BY <1>4, <1>3 DEF Toggles, Ring, Handed, SysMoves, LcdMoves
  <1>5. CASE SysMoves /\ LcdStays
    BY <1>5, <1>3 DEF Toggles, Ring, Handed, SysMoves, LcdStays
  <1>6. CASE SysStays /\ LcdMoves
    BY <1>6, <1>3 DEF Toggles, Ring, Handed, SysStays, LcdMoves
  <1>7. CASE SysStays /\ LcdStays
    BY <1>7, <1>3 DEF Toggles, Ring, Handed, SysStays, LcdStays
  <1> QED BY <1>1, <1>2, <1>4, <1>5, <1>6, <1>7

\* The console starts to clear a row only in the clock of a character, in
\* which the bridge has no other one to hand over.
LEMMA ReadyKept ==
  ASSUME ConsoleReady, Handed, LcdEdge(char_ready),
         ConsoleClock(lcd_valid, lcd_data)
  PROVE  ConsoleReady'
  <1>1. CASE lcd_valid
    BY <1>1, LcdEdgeToggles DEF Handed, ConsoleReady, char_ready
  <1>2. CASE ~lcd_valid /\ clearing
    BY <1>2, LcdEdgeToggles DEF ConsoleReady, char_ready
  <1>3. CASE ~lcd_valid /\ ~clearing
    BY <1>3 DEF ConsoleClock, ClearCell, consoleVars, ConsoleReady, char_ready
  <1> QED BY <1>1, <1>2, <1>3
-----------------------------------------------------------------------------
\* The invariant of the handshake holds at first,
LEMMA HandshakeInit == DisplayInit => HandshakeInv
  BY DEF DisplayInit, BridgeInit, ConsoleInit, HandshakeInv, Toggles, Ring,
         Handed, ConsoleReady, SysCleared, LcdCleared

\* is kept by the edges of either clock and of both together,
LEMMA HandshakeTick ==
  ASSUME HandshakeInv, SysTick \/ LcdTick \/ BothTick
  PROVE  HandshakeInv'
  <1>1. CASE reset
    <2> DEFINE SysZeroed == SysCleared' /\ sys_saw'
               SysStays == UNCHANGED <<sysVars, sys_saw>>
               LcdZeroed == LcdCleared' /\ lcd_saw'
               LcdStays == UNCHANGED <<lcdVars, consoleVars, lcd_saw>>
    <2>1. reset'
      BY <1>1 DEF SysTick, LcdTick, BothTick
    <2>2. SysZeroed \/ SysStays
      BY <1>1 DEF SysTick, LcdTick, BothTick, SysSide, SysReset, SysCleared
    <2>3. LcdZeroed \/ LcdStays
      BY <1>1 DEF SysTick, LcdTick, BothTick, LcdSide, LcdReset, LcdCleared
    <2>4. Toggles'
      BY <2>2, <2>3 DEF HandshakeInv, Toggles, SysCleared, LcdCleared,
                        sysVars, lcdVars
    <2>5. ConsoleReady'
      BY <2>3 DEF HandshakeInv, ConsoleReady, LcdCleared, lcdVars,
                  consoleVars, char_ready
    <2>6. sys_saw' => SysCleared'
      BY <2>2, <1>1 DEF HandshakeInv, SysCleared, sysVars
    <2>7. lcd_saw' => LcdCleared'
      BY <2>3, <1>1 DEF HandshakeInv, LcdCleared, lcdVars
    <2> QED BY <2>1, <2>4, <2>5, <2>6, <2>7 DEF HandshakeInv
  <1>2. CASE ~reset
    <2>1. ~reset'
      BY <1>2 DEF SysTick, LcdTick, BothTick
    <2>2. \/ UNCHANGED sysVars
          \/ \E offer \in Offers : SysEdge(offer)
      BY <1>2 DEF SysTick, LcdTick, BothTick, SysSide
    <2>3. \/ UNCHANGED <<lcdVars, consoleVars>>
          \/ LcdEdge(char_ready) /\ ConsoleClock(lcd_valid, lcd_data)
      BY <1>2 DEF SysTick, LcdTick, BothTick, LcdSide
    <2>4. Toggles' /\ Ring' /\ Handed'
      BY <1>2, <2>2, <2>3, RingKept DEF HandshakeInv
    <2>5. ConsoleReady'
      <3>1. CASE UNCHANGED <<lcdVars, consoleVars>>
        BY <3>1 DEF HandshakeInv, ConsoleReady, char_ready, lcdVars,
                    consoleVars
      <3>2. CASE LcdEdge(char_ready) /\ ConsoleClock(lcd_valid, lcd_data)
        BY <3>2, <1>2, ReadyKept DEF HandshakeInv
      <3> QED BY <2>3, <3>1, <3>2
    <2> QED BY <2>1, <2>4, <2>5 DEF HandshakeInv
  <1> QED BY <1>1, <1>2

\* by the reset button,
LEMMA HandshakePress == ASSUME HandshakeInv, Press PROVE HandshakeInv'
  BY DEF HandshakeInv, Press, Toggles, ConsoleReady, char_ready, bridgeVars,
         sysVars, lcdVars, consoleVars

\* Both clocks have cleared their registers when the button is let go.
LEMMA HandshakeRelease == ASSUME HandshakeInv, Release PROVE HandshakeInv'
  <1>1. /\ Toggles' /\ ConsoleReady' /\ ~reset'
        /\ SysCleared' /\ LcdCleared'
    BY DEF HandshakeInv, Release, Toggles, ConsoleReady, char_ready,
           bridgeVars, sysVars, lcdVars, consoleVars, SysCleared, LcdCleared
  <1>2. Ring' /\ Handed'
    BY <1>1 DEF SysCleared, LcdCleared, Ring, Handed
  <1> QED BY <1>1, <1>2 DEF HandshakeInv

\* and while nothing changes.
LEMMA HandshakeStutter ==
  ASSUME HandshakeInv, UNCHANGED displayVars PROVE HandshakeInv'
  BY DEF HandshakeInv, displayVars, Toggles, ConsoleReady, char_ready, Ring,
         Handed, SysCleared, LcdCleared, bridgeVars, sysVars, lcdVars,
         consoleVars

\* The toggles of lc3_display_bridge never get out of step, whatever the order
\* of the clock edges and whenever the button is pressed.
THEOREM HandshakeInvariant == DisplaySpec => []HandshakeInv
  <1>1. HandshakeInv /\ [DisplayNext]_displayVars => HandshakeInv'
    BY HandshakeTick, HandshakePress, HandshakeRelease, HandshakeStutter
    DEF DisplayNext
  <1> QED BY <1>1, HandshakeInit, PTL DEF DisplaySpec

\* The console is never given a character while it clears a row.
THEOREM ConsoleAlwaysReady == DisplaySpec => []ConsoleReady
  <1>1. HandshakeInv => ConsoleReady
    BY DEF HandshakeInv
  <1> QED BY <1>1, HandshakeInvariant, PTL

\* The data wires do not move in an edge in which the LCD side samples them.
THEOREM DataIsStable == DisplaySpec => DataStable
  <1>1. ASSUME HandshakeInv, [DisplayNext]_displayVars,
               ~reset, lcd_ack_toggle' # lcd_ack_toggle
        PROVE  UNCHANGED sys_data_hold
    <2>1. LcdSide
      BY <1>1 DEF DisplayNext, SysTick, LcdTick, BothTick, Press, Release,
                  displayVars, bridgeVars, lcdVars
    <2>2. lcd_req_sync # lcd_ack_toggle
      BY <1>1, <2>1, LcdEdgeToggles DEF LcdSide
    <2>3. ~sys_ready
      BY <1>1, <2>2, SamplingHolds DEF HandshakeInv
    <2>4. UNCHANGED sysVars \/ \E offer \in Offers : SysEdge(offer)
      BY <1>1 DEF DisplayNext, SysTick, LcdTick, BothTick, SysSide, Press,
                  Release, displayVars, bridgeVars, sysVars
    <2> QED BY <2>3, <2>4 DEF sysVars, SysEdge, Takes
  <1>2. HandshakeInv /\ [DisplayNext]_displayVars =>
          [ ~reset /\ lcd_ack_toggle' # lcd_ack_toggle =>
              UNCHANGED sys_data_hold ]_displayVars
    BY <1>1
  <1> QED BY <1>2, HandshakeInvariant, PTL DEF DisplaySpec, DataStable
-----------------------------------------------------------------------------
\* The row of a ring that begins at top which is the row-th on the screen.
RowFrom(top, row) == IF top + row < ROWS THEN top + row ELSE top + row - ROWS

\* The cell at a place on the screen.
CellFrom(top, row, column) == RowFrom(top, row) * COLS + column

\* A place is a row and a column.
Places == (0 .. ROWS - 1) \X (0 .. COLS - 1)

\* The picture that the cells make,
Shown(text, top) == [p \in Places |-> text[CellFrom(top, p[1], p[2])]]

\* and while a row is being cleared, which is clear from some column on.
ShownClear(text, top, done, at) ==
    [p \in Places |-> IF p[1] = at /\ p[2] >= done THEN BLANK
                      ELSE text[CellFrom(top, p[1], p[2])]]

\* No two rows of the screen are the same row of the ring.
LEMMA RowsApart ==
  ASSUME NEW top \in 0 .. ROWS - 1, NEW r \in 0 .. ROWS - 1
  PROVE  /\ RowFrom(top, r) \in 0 .. ROWS - 1
         /\ \A s \in 0 .. ROWS - 1 : RowFrom(top, r) = RowFrom(top, s) => r = s
         /\ r + 1 < ROWS => RowFrom(next_row(top), r) = RowFrom(top, r + 1)
  BY ConsoleParameters DEF RowFrom, next_row

\* A row of cells ends before the next one begins.
LEMMA RowsBegin ==
  ASSUME NEW r \in Nat, NEW s \in Nat, NEW c \in Nat, r < s
  PROVE  /\ r * c \in Nat /\ s * c \in Nat
         /\ r * c + c <= s * c
  <1>1. PICK d \in Nat : s = r + 1 + d
    <2>1. s - r - 1 \in Nat /\ s = r + 1 + (s - r - 1)
      OBVIOUS
    <2> QED BY <2>1
  <1>2. s * c = r * c + c + d * c
    BY <1>1
  <1>3. r * c \in Nat /\ s * c \in Nat /\ d * c \in Nat
    OBVIOUS
  <1> QED BY <1>2, <1>3

\* Every place on the screen has a cell, and no two places have the same.
LEMMA CellsApart ==
  ASSUME NEW r \in 0 .. ROWS - 1, NEW s \in 0 .. ROWS - 1,
         NEW x \in 0 .. COLS - 1, NEW y \in 0 .. COLS - 1
  PROVE  /\ r * COLS + x \in 0 .. CELL_COUNT - 1
         /\ r * COLS + x = s * COLS + y => r = s /\ x = y
  <1>1. COLS \in Nat /\ ROWS \in Nat
    BY ConsoleParameters
  <1>2. r * COLS + x \in 0 .. CELL_COUNT - 1
    <2>1. /\ r * COLS \in Nat /\ ROWS * COLS \in Nat
          /\ r * COLS + COLS <= ROWS * COLS
      BY <1>1, RowsBegin
    <2>2. CELL_COUNT = ROWS * COLS
      BY <1>1 DEF CELL_COUNT
    <2> QED BY <1>1, <2>1, <2>2
  <1>3. CASE r < s
    <2>1. r * COLS \in Nat /\ s * COLS \in Nat /\ r * COLS + COLS <= s * COLS
      BY <1>1, <1>3, RowsBegin
    <2>2. r * COLS + x # s * COLS + y
      BY <1>1, <2>1
    <2> QED BY <1>2, <2>2
  <1>4. CASE s < r
    <2>1. r * COLS \in Nat /\ s * COLS \in Nat /\ s * COLS + COLS <= r * COLS
      BY <1>1, <1>4, RowsBegin
    <2>2. r * COLS + x # s * COLS + y
      BY <1>1, <2>1
    <2> QED BY <1>2, <2>2
  <1>5. CASE r = s
    <2>1. r * COLS \in Nat
      BY <1>1
    <2> QED BY <1>1, <1>2, <1>5, <2>1
  <1> QED BY <1>3, <1>4, <1>5

\* What is in a place.
LEMMA PlaceShape ==
  ASSUME NEW p \in Places
  PROVE  p[1] \in 0 .. ROWS - 1 /\ p[2] \in 0 .. COLS - 1 /\ p = <<p[1], p[2]>>
  BY DEF Places

\* The cells of two places.
LEMMA PlacesApart ==
  ASSUME NEW top \in 0 .. ROWS - 1, NEW p \in Places, NEW q \in Places
  PROVE  /\ CellFrom(top, p[1], p[2]) \in 0 .. CELL_COUNT - 1
         /\ CellFrom(top, p[1], p[2]) = CellFrom(top, q[1], q[2]) => p = q
  <1>1. /\ p[1] \in 0 .. ROWS - 1 /\ p[2] \in 0 .. COLS - 1 /\ p = <<p[1], p[2]>>
        /\ q[1] \in 0 .. ROWS - 1 /\ q[2] \in 0 .. COLS - 1 /\ q = <<q[1], q[2]>>
    BY PlaceShape
  <1>2. /\ RowFrom(top, p[1]) \in 0 .. ROWS - 1
        /\ RowFrom(top, q[1]) \in 0 .. ROWS - 1
        /\ RowFrom(top, p[1]) = RowFrom(top, q[1]) => p[1] = q[1]
    BY <1>1, RowsApart
  <1>3. /\ CellFrom(top, p[1], p[2]) \in 0 .. CELL_COUNT - 1
        /\ CellFrom(top, p[1], p[2]) = CellFrom(top, q[1], q[2])
           => RowFrom(top, p[1]) = RowFrom(top, q[1]) /\ p[2] = q[2]
    BY <1>1, <1>2, CellsApart DEF CellFrom
  <1> QED BY <1>1, <1>2, <1>3, Zenon

Texts == [0 .. CELL_COUNT - 1 -> Chars \cup {BLANK}]

\* Whatever the cells are, there are characters and blanks on the screen.
LEMMA ShownTyped ==
  ASSUME NEW text \in Texts, NEW top \in 0 .. ROWS - 1
  PROVE  /\ Shown(text, top) \in [Places -> Chars \cup {BLANK}]
         /\ \A done, at :
               ShownClear(text, top, done, at) \in [Places -> Chars \cup {BLANK}]
  <1>1. ASSUME NEW p \in Places
        PROVE  text[CellFrom(top, p[1], p[2])] \in Chars \cup {BLANK}
    BY PlacesApart DEF Texts
  <1>2. Shown(text, top) \in [Places -> Chars \cup {BLANK}]
    BY <1>1 DEF Shown
  <1>3. ASSUME NEW done, NEW at
        PROVE  ShownClear(text, top, done, at) \in [Places -> Chars \cup {BLANK}]
    BY <1>1 DEF ShownClear
  <1> QED BY <1>2, <1>3

\* A cell is written: one place changes.
LEMMA CellShown ==
  ASSUME NEW text \in Texts, NEW top \in 0 .. ROWS - 1,
         NEW r \in 0 .. ROWS - 1, NEW x \in 0 .. COLS - 1, NEW c
  PROVE  Shown([text EXCEPT ![CellFrom(top, r, x)] = c], top)
         = [Shown(text, top) EXCEPT ![<<r, x>>] = c]
  <1> DEFINE after  == [text EXCEPT ![CellFrom(top, r, x)] = c]
             old    == Shown(text, top)
             new    == Shown(after, top)
             target == [old EXCEPT ![<<r, x>>] = c]
  <1>1. <<r, x>> \in Places /\ <<r, x>>[1] = r /\ <<r, x>>[2] = x
    BY DEF Places
  <1>2. ASSUME NEW p \in Places PROVE new[p] = target[p]
    <2>1. new[p] = after[CellFrom(top, p[1], p[2])]
          /\ old[p] = text[CellFrom(top, p[1], p[2])]
      BY DEF Shown
    <2>2. /\ CellFrom(top, p[1], p[2]) \in DOMAIN text
          /\ CellFrom(top, p[1], p[2]) = CellFrom(top, r, x) => p = <<r, x>>
      BY <1>1, PlacesApart DEF Texts
    <2>3. DOMAIN old = Places
      BY DEF Shown
    <2>4. CASE p = <<r, x>>
      <3>1. after[CellFrom(top, r, x)] = c
        BY <1>1, <2>2, <2>4
      <3>2. target[p] = c
        BY <2>3, <2>4
      <3> QED BY <1>1, <2>1, <2>4, <3>1, <3>2
    <2>5. CASE p # <<r, x>>
      <3>1. after[CellFrom(top, p[1], p[2])] = text[CellFrom(top, p[1], p[2])]
        BY <2>2, <2>5
      <3>2. target[p] = old[p]
        BY <2>3, <2>5
      <3> QED BY <2>1, <3>1, <3>2
    <2> QED BY <2>4, <2>5
  <1>3. /\ new = [p \in Places |-> new[p]]
        /\ old = [p \in Places |-> old[p]]
    BY DEF Shown
  <1> HIDE DEF new, old
  <1>4. target = [p \in Places |-> target[p]]
    BY <1>3
  <1> HIDE DEF target
  <1>5. new = target
    BY <1>2, <1>3, <1>4
  <1> QED BY <1>5 DEF new, target, old

\* Two pictures that are the same at every place are the same.
LEMMA SamePicture ==
  ASSUME NEW f, NEW g, f = [p \in Places |-> f[p]], g = [p \in Places |-> g[p]],
         \A p \in Places : f[p] = g[p]
  PROVE  f = g
  OBVIOUS

\* A turn of the clearing loop is not seen: the rest of the row already looks
\* clear, and at the end of the row nothing is left to be cleared.
LEMMA ClearingUnseen ==
  ASSUME NEW text \in Texts, NEW top \in 0 .. ROWS - 1,
         NEW at \in 0 .. ROWS - 1, NEW done \in 0 .. COLS - 1,
         NEW after, after = [text EXCEPT ![CellFrom(top, at, done)] = BLANK]
  PROVE  /\ ShownClear(after, top, done + 1, at) = ShownClear(text, top, done, at)
         /\ done + 1 = COLS
            => Shown(after, top) = ShownClear(text, top, done, at)
  <1>1. <<at, done>> \in Places /\ <<at, done>>[1] = at /\ <<at, done>>[2] = done
    BY DEF Places
  <1>2. ASSUME NEW p \in Places
        PROVE  /\ p[1] \in 0 .. ROWS - 1 /\ p[2] \in 0 .. COLS - 1
               /\ p = <<at, done>> => after[CellFrom(top, p[1], p[2])] = BLANK
               /\ p # <<at, done>> => after[CellFrom(top, p[1], p[2])]
                                      = text[CellFrom(top, p[1], p[2])]
               /\ p[1] = at /\ p[2] = done => p = <<at, done>>
    <2>1. /\ CellFrom(top, p[1], p[2]) \in DOMAIN text
          /\ CellFrom(top, p[1], p[2]) = CellFrom(top, at, done) => p = <<at, done>>
      BY <1>1, PlacesApart DEF Texts
    <2>2. p[1] \in 0 .. ROWS - 1 /\ p[2] \in 0 .. COLS - 1 /\ p = <<p[1], p[2]>>
      BY PlaceShape
    <2>3. CASE p = <<at, done>>
      BY <1>1, <2>1, <2>2, <2>3
    <2>4. CASE p # <<at, done>>
      BY <2>1, <2>2, <2>4
    <2> QED BY <2>3, <2>4
  <1> DEFINE old   == ShownClear(text, top, done, at)
             next1 == ShownClear(after, top, done + 1, at)
             last1 == Shown(after, top)
  <1>3. /\ old = [p \in Places |-> old[p]]
        /\ next1 = [p \in Places |-> next1[p]]
        /\ last1 = [p \in Places |-> last1[p]]
    BY DEF Shown, ShownClear
  <1>4. ASSUME NEW p \in Places
        PROVE  /\ old[p] = IF p[1] = at /\ p[2] >= done THEN BLANK
                           ELSE text[CellFrom(top, p[1], p[2])]
               /\ next1[p] = IF p[1] = at /\ p[2] >= done + 1 THEN BLANK
                             ELSE after[CellFrom(top, p[1], p[2])]
               /\ last1[p] = after[CellFrom(top, p[1], p[2])]
    BY DEF Shown, ShownClear
  <1> HIDE DEF old, next1, last1
  <1>5. ASSUME NEW p \in Places PROVE next1[p] = old[p]
    <2>1. CASE p = <<at, done>>
      <3>1. p[1] = at /\ p[2] = done /\ after[CellFrom(top, p[1], p[2])] = BLANK
        BY <1>1, <1>2, <2>1
      <3>2. p[2] >= done /\ ~(p[2] >= done + 1)
        BY <3>1
      <3> QED BY <1>4, <3>1, <3>2
    <2>2. CASE p # <<at, done>>
      <3>1. /\ after[CellFrom(top, p[1], p[2])] = text[CellFrom(top, p[1], p[2])]
            /\ ~(p[1] = at /\ p[2] = done)
            /\ p[2] \in 0 .. COLS - 1
        BY <1>2, <2>2
      <3>2. p[1] = at => (p[2] >= done <=> p[2] >= done + 1)
        BY <3>1
      <3> QED BY <1>4, <3>1, <3>2
    <2> QED BY <2>1, <2>2
  <1>6. ASSUME done + 1 = COLS, NEW p \in Places PROVE last1[p] = old[p]
    <2>1. CASE p = <<at, done>>
      <3>1. p[1] = at /\ p[2] = done /\ after[CellFrom(top, p[1], p[2])] = BLANK
        BY <1>1, <1>2, <2>1
      <3>2. p[2] >= done
        BY <3>1
      <3> QED BY <1>4, <3>1, <3>2
    <2>2. CASE p # <<at, done>>
      <3>1. /\ after[CellFrom(top, p[1], p[2])] = text[CellFrom(top, p[1], p[2])]
            /\ ~(p[1] = at /\ p[2] = done)
            /\ p[2] \in 0 .. COLS - 1
        BY <1>2, <2>2
      <3>2. p[1] = at => ~(p[2] >= done)
        BY <1>6, <3>1
      <3> QED BY <1>4, <3>1, <3>2
    <2> QED BY <2>1, <2>2
  <1>7. next1 = old
    BY <1>3, <1>5, SamePicture
  <1>8. done + 1 = COLS => last1 = old
    BY <1>3, <1>6, SamePicture
  <1> QED BY <1>7, <1>8 DEF old, next1, last1

\* The ring turned by one row, which is to be cleared, is the picture scrolled.
LEMMA ScrollShown ==
  ASSUME NEW text \in Texts, NEW top \in 0 .. ROWS - 1
  PROVE  ShownClear(text, next_row(top), 0, ROWS - 1)
         = Terminal!Scrolled(Shown(text, top))
  <1> DEFINE old == Shown(text, top)
             new == ShownClear(text, next_row(top), 0, ROWS - 1)
             up  == Terminal!Scrolled(old)
  <1>1. /\ new = [p \in Places |-> new[p]]
        /\ up = [p \in Places |-> up[p]]
    BY DEF Shown, ShownClear, Places, Terminal!Scrolled, Terminal!Place
  <1>2. ASSUME NEW p \in Places
        PROVE  /\ new[p] = IF p[1] = ROWS - 1 /\ p[2] >= 0 THEN BLANK
                           ELSE text[CellFrom(next_row(top), p[1], p[2])]
               /\ up[p] = IF p[1] = ROWS - 1 THEN BLANK
                          ELSE old[<<p[1] + 1, p[2]>>]
    BY DEF Shown, ShownClear, Places, Terminal!Scrolled, Terminal!Place, BLANK, Terminal!BLANK
  <1>3. ASSUME NEW q \in Places
        PROVE  old[q] = text[CellFrom(top, q[1], q[2])]
    BY DEF Shown, ShownClear
  <1> HIDE DEF old, new, up
  <1>4. ASSUME NEW p \in Places PROVE new[p] = up[p]
    <2>1. p[1] \in 0 .. ROWS - 1 /\ p[2] \in 0 .. COLS - 1
      BY PlaceShape
    <2>2. CASE p[1] = ROWS - 1
      <3>1. p[2] >= 0
        BY <2>1
      <3>2. new[p] = BLANK /\ up[p] = BLANK
        BY <1>2, <2>2, <3>1, Zenon
      <3> QED BY <3>2
    <2>3. CASE p[1] # ROWS - 1
      <3>1. p[1] + 1 \in 0 .. ROWS - 1
        BY <2>1, <2>3, ConsoleParameters
      <3>2. RowFrom(next_row(top), p[1]) = RowFrom(top, p[1] + 1)
        <4>1. \A r \in 0 .. ROWS - 1 : r # ROWS - 1 =>
                 RowFrom(next_row(top), r) = RowFrom(top, r + 1)
          BY RowsApart, ConsoleParameters
        <4> QED BY <2>1, <2>3, <4>1
      <3>3. <<p[1] + 1, p[2]>> \in Places
        BY <2>1, <3>1 DEF Places
      <3>4. up[p] = text[CellFrom(top, p[1] + 1, p[2])]
        BY <1>2, <1>3, <2>3, <3>3
      <3> QED BY <1>2, <2>3, <3>2, <3>4 DEF CellFrom
    <2> QED BY <2>2, <2>3
  <1>5. new = up
    BY <1>1, <1>4, SamePicture
  <1> QED BY <1>5 DEF old, new, up
-----------------------------------------------------------------------------
\* The registers of the console: a row is cleared only at the bottom, after a
\* scroll, and always from its first column on.
ConsoleInv ==
    /\ cells \in Texts
    /\ cursor_col \in 0 .. COLS - 1
    /\ cursor_row \in 0 .. ROWS - 1
    /\ top_row \in 0 .. ROWS - 1
    /\ clear_col \in 0 .. COLS - 1
    /\ clearing \in BOOLEAN
    /\ clearing => cursor_row = ROWS - 1
    /\ ~clearing => clear_col = 0

\* The picture is that of the registers.
LEMMA PictureIsShown ==
  ASSUME clearing \in BOOLEAN
  PROVE  Picture = IF clearing THEN ShownClear(cells, top_row, clear_col, cursor_row)
                               ELSE Shown(cells, top_row)
  <1>1. CASE clearing
    BY <1>1 DEF Picture, ShownClear, Places, CellAddr, PhysicalRow, CellFrom, RowFrom
  <1>2. CASE ~clearing
    BY <1>2 DEF Picture, Shown, Places, CellAddr, PhysicalRow, CellFrom, RowFrom
  <1> QED BY <1>1, <1>2

\* The same of the registers after a clock.
LEMMA NextPicture ==
  ASSUME (clearing \in BOOLEAN)'
  PROVE  Picture' = IF clearing' THEN ShownClear(cells', top_row', clear_col', cursor_row')
                                 ELSE Shown(cells', top_row')
  <1>1. CASE clearing'
    BY <1>1 DEF Picture, ShownClear, Places, CellAddr, PhysicalRow, CellFrom, RowFrom
  <1>2. CASE ~clearing'
    BY <1>2 DEF Picture, Shown, Places, CellAddr, PhysicalRow, CellFrom, RowFrom
  <1> QED BY <1>1, <1>2

\* The cell under the cursor.
LEMMA CursorCell ==
  ASSUME ConsoleInv
  PROVE  /\ cursor_addr = CellFrom(top_row, cursor_row, cursor_col)
         /\ cursor_col > 0
            => cursor_addr - 1 = CellFrom(top_row, cursor_row, cursor_col - 1)
  <1>1. cursor_addr = CellFrom(top_row, cursor_row, cursor_col)
    BY DEF cursor_addr, CellAddr, PhysicalRow, CellFrom, RowFrom
  <1>2. PICK n \in Int : n = RowFrom(top_row, cursor_row) * COLS
    <2>1. RowFrom(top_row, cursor_row) \in 0 .. ROWS - 1 /\ COLS \in Nat
      BY RowsApart, ConsoleParameters DEF ConsoleInv
    <2> QED BY <2>1
  <1>3. /\ CellFrom(top_row, cursor_row, cursor_col) = n + cursor_col
        /\ CellFrom(top_row, cursor_row, cursor_col - 1) = n + (cursor_col - 1)
    BY <1>2 DEF CellFrom
  <1>4. cursor_col \in Int
    BY ConsoleParameters DEF ConsoleInv
  <1> QED BY <1>1, <1>2, <1>3, <1>4

\* The row after another one of the ring.
LEMMA NextRow ==
  ASSUME NEW r \in 0 .. ROWS - 1
  PROVE  next_row(r) \in 0 .. ROWS - 1
  BY ConsoleParameters DEF next_row

\* Writing a cell keeps the cells.
LEMMA CellWritten ==
  ASSUME NEW text \in Texts, NEW c \in Chars \cup {BLANK}, NEW a
  PROVE  [text EXCEPT ![a] = c] \in Texts
  BY DEF Texts

\* A clock of the clearing loop changes nothing that is seen.
LEMMA ClearCellUnseen ==
  ASSUME ConsoleInv, ClearCell
  PROVE  ConsoleInv' /\ UNCHANGED <<Picture, cursor_row, cursor_col>>
  <1> DEFINE after == [cells EXCEPT ![CellFrom(top_row, cursor_row, clear_col)] = BLANK]
  <1>1. cells' = after /\ UNCHANGED <<cursor_col, cursor_row, top_row>>
    BY DEF ClearCell, SetCell, CellAddr, PhysicalRow, CellFrom, RowFrom
  <1>2. /\ cells \in Texts /\ top_row \in 0 .. ROWS - 1
        /\ cursor_row \in 0 .. ROWS - 1 /\ clear_col \in 0 .. COLS - 1
        /\ clearing = TRUE /\ cursor_row = ROWS - 1
    BY DEF ClearCell, ConsoleInv
  <1>3. after \in Texts
    BY <1>2, CellWritten
  <1>4. /\ ShownClear(after, top_row, clear_col + 1, cursor_row)
           = ShownClear(cells, top_row, clear_col, cursor_row)
        /\ clear_col + 1 = COLS
           => Shown(after, top_row)
              = ShownClear(cells, top_row, clear_col, cursor_row)
    BY <1>2, ClearingUnseen
  <1>5. Picture = ShownClear(cells, top_row, clear_col, cursor_row)
    BY <1>2, PictureIsShown
  <1> HIDE DEF after
  <1>6. CASE clear_col + 1 = COLS
    <2>1. clearing' = FALSE /\ clear_col' = 0
      BY <1>6 DEF ClearCell
    <2>2. 0 \in 0 .. COLS - 1
      BY ConsoleParameters
    <2>3. ConsoleInv'
      BY <1>1, <1>2, <1>3, <2>1, <2>2 DEF ConsoleInv
    <2>4. Picture' = Shown(after, top_row)
      BY <1>1, <2>1, NextPicture
    <2> QED BY <1>1, <1>4, <1>5, <1>6, <2>3, <2>4
  <1>7. CASE clear_col + 1 # COLS
    <2>1. clearing' = TRUE /\ clear_col' = clear_col + 1
      BY <1>2, <1>7 DEF ClearCell
    <2>2. clear_col + 1 \in 0 .. COLS - 1
      BY <1>2, <1>7, ConsoleParameters
    <2>3. ConsoleInv'
      BY <1>1, <1>2, <1>3, <2>1, <2>2 DEF ConsoleInv
    <2>4. Picture' = ShownClear(after, top_row, clear_col + 1, cursor_row)
      BY <1>1, <2>1, NextPicture
    <2> QED BY <1>1, <1>4, <1>5, <2>3, <2>4
  <1> QED BY <1>6, <1>7

\* The cursor goes to the next line: the terminal's picture is scrolled where
\* the console turns its ring.
LEMMA NextLineShows ==
  ASSUME ConsoleInv, ~clearing, NEW text \in Texts, NextLine,
         cells' = text, clear_col' = clear_col
  PROVE  ConsoleInv' /\ Terminal!NewLine(Shown(text, top_row))
  <1>1. ROWS - 1 \in 0 .. ROWS - 1 /\ COLS - 1 \in 0 .. COLS - 1 /\ 0 \in 0 .. COLS - 1
    BY ConsoleParameters
  <1>2. /\ top_row \in 0 .. ROWS - 1 /\ cursor_row \in 0 .. ROWS - 1
        /\ clearing = FALSE /\ clear_col = 0
    BY DEF ConsoleInv
  <1>3. CASE cursor_row = ROWS - 1
    <2>1. /\ top_row' = next_row(top_row) /\ clearing' = TRUE
          /\ cursor_row' = cursor_row /\ cursor_col' = 0
      BY <1>3 DEF NextLine
    <2>2. ShownClear(text, next_row(top_row), 0, ROWS - 1)
          = Terminal!Scrolled(Shown(text, top_row))
      BY <1>2, ScrollShown
    <2>3. ConsoleInv'
      BY <1>1, <1>2, <1>3, <2>1, NextRow DEF ConsoleInv
    <2>4. Picture' = ShownClear(text, next_row(top_row), 0, ROWS - 1)
      BY <1>2, <1>3, <2>1, NextPicture
    <2> QED BY <1>3, <2>1, <2>2, <2>3, <2>4 DEF Terminal!NewLine
  <1>4. CASE cursor_row # ROWS - 1
    <2>1. /\ top_row' = top_row /\ clearing' = FALSE
          /\ cursor_row' = cursor_row + 1 /\ cursor_col' = 0
      BY <1>2, <1>4 DEF NextLine
    <2>2. cursor_row + 1 \in 0 .. ROWS - 1
      BY <1>2, <1>4, ConsoleParameters
    <2>3. ConsoleInv'
      BY <1>1, <1>2, <2>1, <2>2 DEF ConsoleInv
    <2>4. Picture' = Shown(text, top_row)
      BY <2>1, NextPicture
    <2> QED BY <1>4, <2>1, <2>3, <2>4 DEF Terminal!NewLine
  <1> QED BY <1>3, <1>4

\* A character that reaches the console is shown as the terminal shows it.
LEMMA PutCharShows ==
  ASSUME ConsoleInv, ~clearing, NEW c \in Chars, PutChar(c)
  PROVE  ConsoleInv' /\ Terminal!Show(c)
  <1>1. Picture = Shown(cells, top_row)
    BY PictureIsShown DEF ConsoleInv
  <1>2. /\ cells \in Texts /\ clearing = FALSE /\ clear_col = 0
        /\ top_row \in 0 .. ROWS - 1
        /\ cursor_row \in 0 .. ROWS - 1 /\ cursor_col \in 0 .. COLS - 1
        /\ cursor_row \in Int /\ cursor_col \in Int
    BY ConsoleParameters DEF ConsoleInv
  <1>3. 0 \in 0 .. COLS - 1 /\ COLS - 1 \in 0 .. COLS - 1 /\ COLS \in Nat \ {0}
    BY ConsoleParameters
  <1>4. CASE c = ASCII_BS /\ PutBackspace
    <2>1. UNCHANGED <<cursor_row, top_row, clear_col, clearing>>
      BY <1>4 DEF PutBackspace
    <2>2. CASE cursor_col = 0
      <3>1. UNCHANGED <<cursor_col, cells>>
        BY <1>4, <2>2 DEF PutBackspace
      <3>2. ConsoleInv'
        BY <1>2, <2>1, <3>1 DEF ConsoleInv
      <3>3. Picture' = Picture
        BY <1>1, <1>2, <2>1, <3>1, NextPicture
      <3> QED BY <1>4, <2>1, <2>2, <3>1, <3>2, <3>3
              DEF Terminal!Show, Terminal!Backspace, ASCII_BS, Terminal!BS
    <2>3. CASE cursor_col # 0
      <3>1. cursor_col > 0 /\ cursor_col - 1 \in 0 .. COLS - 1
        BY <1>2, <1>3, <2>3
      <3>2. /\ cursor_col' = cursor_col - 1
            /\ cells' = [cells EXCEPT ![CellFrom(top_row, cursor_row, cursor_col - 1)]
                                        = BLANK]
        BY <1>4, <2>3, <3>1, CursorCell DEF PutBackspace, SetCell
      <3>3. cells' \in Texts
        BY <1>2, <3>2, CellWritten
      <3>4. ConsoleInv'
        BY <1>2, <2>1, <3>1, <3>2, <3>3 DEF ConsoleInv
      <3>5. Picture' = Shown(cells', top_row)
        BY <1>2, <2>1, NextPicture
      <3>6. Picture' = [Picture EXCEPT ![<<cursor_row, cursor_col - 1>>] = BLANK]
        <4> PICK x \in 0 .. COLS - 1 : x = cursor_col - 1
          BY <3>1
        <4>1. Shown([cells EXCEPT ![CellFrom(top_row, cursor_row, x)] = BLANK], top_row)
              = [Shown(cells, top_row) EXCEPT ![<<cursor_row, x>>] = BLANK]
          BY <1>2, CellShown
        <4> QED BY <1>1, <3>2, <3>5, <4>1
      <3> QED BY <1>4, <2>1, <3>1, <3>2, <3>4, <3>6
              DEF Terminal!Show, Terminal!Backspace, ASCII_BS, Terminal!BS,
                  BLANK, Terminal!BLANK
    <2> QED BY <2>2, <2>3
  <1>5. CASE c = ASCII_LF /\ PutNewline
    <2>1. NextLine /\ cells' = cells /\ clear_col' = clear_col
      BY <1>5 DEF PutNewline
    <2>2. ConsoleInv' /\ Terminal!NewLine(Picture)
      BY <1>1, <1>2, <2>1, NextLineShows
    <2> QED BY <1>5, <2>2 DEF Terminal!Show, ASCII_LF, Terminal!LF
  <1>6. CASE c = ASCII_CR /\ PutReturn
    <2>1. cursor_col' = 0 /\ UNCHANGED <<cells, cursor_row, top_row, clear_col, clearing>>
      BY <1>6 DEF PutReturn
    <2>2. ConsoleInv'
      BY <1>2, <1>3, <2>1 DEF ConsoleInv
    <2>3. Picture' = Picture
      BY <1>1, <1>2, <2>1, NextPicture
    <2> QED BY <1>6, <2>1, <2>2, <2>3 DEF Terminal!Show, ASCII_CR, Terminal!CR
  <1>7. CASE c \notin {ASCII_BS, ASCII_LF, ASCII_CR} /\ PutPrintable(c)
    <2> DEFINE text == [cells EXCEPT ![CellFrom(top_row, cursor_row, cursor_col)] = c]
    <2>1. cells' = text /\ clear_col' = clear_col
      BY <1>7, CursorCell DEF PutPrintable, SetCell
    <2>2. text \in Texts
      BY <1>2, CellWritten
    <2>3. Shown(text, top_row) = [Picture EXCEPT ![<<cursor_row, cursor_col>>] = c]
      BY <1>1, <1>2, CellShown
    <2> HIDE DEF text
    <2>4. CASE cursor_col = COLS - 1
      <3>1. NextLine
        BY <1>7, <2>4 DEF PutPrintable
      <3>2. ConsoleInv' /\ Terminal!NewLine(Shown(text, top_row))
        BY <2>1, <2>2, <3>1, NextLineShows
      <3>3. Terminal!PrintChar(c)
        BY <2>3, <2>4, <3>2 DEF Terminal!PrintChar
      <3> QED BY <1>7, <3>2, <3>3 DEF Terminal!Show, ASCII_BS, ASCII_LF, ASCII_CR,
                 Terminal!BS, Terminal!LF, Terminal!CR
    <2>5. CASE cursor_col # COLS - 1
      <3>1. cursor_col < COLS - 1 /\ cursor_col + 1 \in 0 .. COLS - 1
        BY <1>2, <1>3, <2>5
      <3>2. cursor_col' = cursor_col + 1 /\ UNCHANGED <<cursor_row, top_row, clearing>>
        BY <1>7, <2>5 DEF PutPrintable
      <3>3. ConsoleInv'
        BY <1>2, <2>1, <2>2, <3>1, <3>2 DEF ConsoleInv
      <3>4. Picture' = Shown(text, top_row)
        BY <1>2, <2>1, <3>2, NextPicture
      <3>5. Terminal!PrintChar(c)
        BY <2>3, <3>1, <3>2, <3>4 DEF Terminal!PrintChar
      <3> QED BY <1>7, <3>3, <3>5 DEF Terminal!Show, ASCII_BS, ASCII_LF, ASCII_CR,
                 Terminal!BS, Terminal!LF, Terminal!CR
    <2> QED BY <2>4, <2>5
  <1> QED BY <1>4, <1>5, <1>6, <1>7 DEF PutChar

-----------------------------------------------------------------------------
\* The character at the console, and the one that has not got there.
AtConsole == IF lcd_valid THEN <<lcd_data>> ELSE <<>>
Crossing  == IF sys_req_toggle # lcd_ack_toggle THEN <<sys_data_hold>> ELSE <<>>

\* None or one character.
AtMostOne == {<<>>} \cup {<<c>> : c \in Chars}

\* The characters that are on the way while the button is up.
CharsInv == ~reset => AtConsole \in AtMostOne /\ Crossing \in AtMostOne

\* A console that has been reset has its cursor at home.
HomeInv == reset /\ lcd_saw => cursor_row = 0 /\ cursor_col = 0

TerminalInv == HandshakeInv /\ ConsoleInv /\ CharsInv /\ HomeInv

\* What an edge of the system clock does to the character that crosses: it stays,
\* or there was none and a new one sets out.
LEMMA SetsOut ==
  ASSUME HandshakeInv, ~reset,
         UNCHANGED sysVars \/ \E offer \in Offers : SysEdge(offer)
  PROVE  \/ UNCHANGED <<sys_req_toggle, sys_data_hold>>
         \/ \E c \in Chars :
               /\ sys_ready
               /\ sys_req_toggle = lcd_ack_toggle
               /\ lcd_req_sync = lcd_ack_toggle
               /\ sys_req_toggle' = ~sys_req_toggle
               /\ sys_data_hold' = c
  <1>1. CASE UNCHANGED sysVars
    BY <1>1 DEF sysVars
  <1>2. ASSUME NEW offer \in Offers, SysEdge(offer), Takes(offer)
        PROVE  \E c \in Chars : /\ sys_ready
                                /\ sys_req_toggle = lcd_ack_toggle
                                /\ lcd_req_sync = lcd_ack_toggle
                                /\ sys_req_toggle' = ~sys_req_toggle
                                /\ sys_data_hold' = c
    <2>1. sys_ready /\ sys_req_toggle' = ~sys_req_toggle /\ sys_data_hold' \in offer
      BY <1>2 DEF SysEdge, Takes
    <2>2. sys_req_toggle = lcd_ack_toggle /\ lcd_req_sync = lcd_ack_toggle
      BY <2>1 DEF HandshakeInv, Toggles, Ring, sys_ready
    <2>3. PICK c \in Chars : offer = {c}
      BY <1>2, <2>1 DEF Offers
    <2> QED BY <2>1, <2>2, <2>3
  <1>3. ASSUME NEW offer \in Offers, SysEdge(offer), ~Takes(offer)
        PROVE  UNCHANGED <<sys_req_toggle, sys_data_hold>>
    BY <1>3 DEF SysEdge
  <1> QED BY <1>1, <1>2, <1>3

\* What an edge of the LCD clock does to the two: the one at the console goes to
\* the screen, and the other one comes or stays.
LEMMA Arrives ==
  ASSUME HandshakeInv, ~reset, LcdEdge(char_ready)
  PROVE  \/ /\ ~lcd_valid /\ lcd_valid'
            /\ lcd_data' = sys_data_hold
            /\ sys_req_toggle # lcd_ack_toggle
            /\ lcd_ack_toggle' = sys_req_toggle
            /\ ~sys_ready
         \/ ~lcd_valid' /\ UNCHANGED lcd_ack_toggle
  <1>1. CASE Delivers(char_ready)
    <2>1. /\ lcd_valid' /\ lcd_data' = sys_data_hold
          /\ lcd_ack_toggle' = lcd_req_sync /\ lcd_req_sync # lcd_ack_toggle
      BY <1>1 DEF LcdEdge, Delivers
    <2>2. ~lcd_valid /\ ~sys_ready
      BY <2>1, SamplingHolds DEF HandshakeInv, Handed
    <2>3. lcd_req_sync = sys_req_toggle
      BY <2>1 DEF HandshakeInv, Toggles, Ring
    <2> QED BY <2>1, <2>2, <2>3
  <1>2. CASE ~Delivers(char_ready)
    BY <1>2 DEF LcdEdge
  <1> QED BY <1>1, <1>2

\* The first of several characters is taken off again.
LEMMA HeadOff ==
  ASSUME NEW a \in Chars, NEW t \in Seq(Chars)
  PROVE  <<a>> \o t # <<>> /\ Head(<<a>> \o t) = a /\ Tail(<<a>> \o t) = t
  <1> DEFINE s == <<a>> \o t
  <1>1. <<a>> \in Seq(Chars) /\ Len(<<a>>) = 1 /\ <<a>>[1] = a
    OBVIOUS
  <1>2. Len(t) \in Nat
    BY LenProperties
  <1>3. /\ s \in Seq(Chars) /\ Len(s) = 1 + Len(t)
        /\ \A i \in 1 .. 1 + Len(t) : s[i] = IF i <= 1 THEN <<a>>[i] ELSE t[i - 1]
    BY <1>1, ConcatProperties
  <1> HIDE DEF s
  <1>4. s # <<>>
    BY <1>2, <1>3, EmptySeq
  <1>5. Head(s) = a
    BY <1>1, <1>2, <1>3, <1>4
  <1>6. /\ Tail(s) \in Seq(Chars) /\ Len(Tail(s)) = Len(t)
        /\ \A i \in 1 .. Len(t) : Tail(s)[i] = s[i + 1]
    BY <1>2, <1>3, <1>4, HeadTailProperties
  <1>7. \A i \in 1 .. Len(t) : Tail(s)[i] = t[i]
    BY <1>2, <1>3, <1>6
  <1>8. Tail(s) = t
    BY <1>6, <1>7, SeqEqual
  <1> QED BY <1>4, <1>5, <1>8 DEF s

\* Sequences of at most one character.
LEMMA ShortSequences ==
  ASSUME NEW s \in AtMostOne, NEW t \in AtMostOne
  PROVE  /\ s \in Seq(Chars) /\ Len(s) <= 1 /\ Len(s) \in Nat
         /\ s \o <<>> = s /\ <<>> \o s = s
         /\ s \o t \in Seq(Chars) /\ Len(s \o t) <= 2
  <1>1. ASSUME NEW u \in AtMostOne
        PROVE  u \in Seq(Chars) /\ Len(u) <= 1 /\ Len(u) \in Nat
    <2>1. \A c \in Chars : <<c>> \in Seq(Chars) /\ Len(<<c>>) = 1
      OBVIOUS
    <2>2. <<>> \in Seq(Chars) /\ Len(<<>>) = 0
      BY EmptySeq
    <2>3. u = <<>> \/ \E c \in Chars : u = <<c>>
      BY DEF AtMostOne
    <2>4. CASE u = <<>>
      <3>1. u \in Seq(Chars) /\ Len(u) = 0
        BY <2>2, <2>4, Zenon
      <3> QED BY <3>1
    <2>5. CASE \E c \in Chars : u = <<c>>
      <3>1. u \in Seq(Chars) /\ Len(u) = 1
        BY <2>1, <2>5, Zenon
      <3> QED BY <3>1
    <2> QED BY <2>3, <2>4, <2>5
  <1>2. s \in Seq(Chars) /\ t \in Seq(Chars) /\ Len(s) <= 1 /\ Len(t) <= 1
        /\ Len(s) \in Nat /\ Len(t) \in Nat
    BY <1>1
  <1>3. s \o t \in Seq(Chars) /\ Len(s \o t) = Len(s) + Len(t)
    BY <1>2, ConcatProperties
  <1>4. s \o <<>> = s /\ <<>> \o s = s
    BY <1>2, ConcatEmptySeq
  <1> QED BY <1>2, <1>3, <1>4

\* A character that sets out comes behind the others.
LEMMA NewCharacter ==
  ASSUME HandshakeInv, CharsInv, ~reset,
         UNCHANGED sysVars \/ \E offer \in Offers : SysEdge(offer)
  PROVE  \E new \in AtMostOne :
            /\ UNCHANGED lcd_ack_toggle
               => /\ Crossing' = Crossing \o new
                  /\ Crossing = <<>> \/ new = <<>>
            /\ ~sys_ready
               => new = <<>> /\ UNCHANGED <<sys_req_toggle, sys_data_hold>>
  <1>1. CASE UNCHANGED <<sys_req_toggle, sys_data_hold>>
    <2>1. <<>> \in AtMostOne /\ Crossing \o <<>> = Crossing
      BY ShortSequences DEF CharsInv, AtMostOne
    <2>2. UNCHANGED lcd_ack_toggle => Crossing' = Crossing
      BY <1>1 DEF Crossing
    <2> QED BY <1>1, <2>1, <2>2
  <1>2. ASSUME NEW c \in Chars, sys_ready, sys_req_toggle = lcd_ack_toggle,
               sys_req_toggle' = ~sys_req_toggle, sys_data_hold' = c
        PROVE  /\ <<c>> \in AtMostOne
               /\ UNCHANGED lcd_ack_toggle
                  => Crossing' = Crossing \o <<c>> /\ Crossing = <<>>
    <2>1. <<c>> \in AtMostOne /\ <<>> \o <<c>> = <<c>>
      BY ShortSequences DEF AtMostOne
    <2>2. Crossing = <<>>
      BY <1>2 DEF Crossing
    <2>3. UNCHANGED lcd_ack_toggle => Crossing' = <<c>>
      BY <1>2 DEF Crossing, HandshakeInv, Toggles
    <2> QED BY <2>1, <2>2, <2>3
  <1> QED BY <1>1, <1>2, SetsOut

\* The queue of the terminal while the button is up.
LEMMA WaitingIs ==
  /\ ~reset => OnTheWay = AtConsole \o Crossing
  /\ reset => OnTheWay = <<>>
  BY DEF OnTheWay, AtConsole, Crossing

\* An edge of either clock or of both: at most one character sets out, and the
\* one at the console is shown.
LEMMA TickShows ==
  ASSUME TerminalInv, ~reset, SysTick \/ LcdTick \/ BothTick
  PROVE  ConsoleInv' /\ CharsInv' /\ ~reset' /\ (Terminal!Work \/ Terminal!Button)
  <1>1. ~reset'
    BY DEF SysTick, LcdTick, BothTick
  <1>2. \/ UNCHANGED sysVars
        \/ \E offer \in Offers : SysEdge(offer)
    BY DEF SysTick, LcdTick, BothTick, SysSide
  <1>3. \/ UNCHANGED <<lcdVars, consoleVars>>
        \/ LcdEdge(char_ready) /\ ConsoleClock(lcd_valid, lcd_data)
    BY DEF SysTick, LcdTick, BothTick, LcdSide
  <1>4. HandshakeInv /\ ConsoleInv /\ CharsInv
    BY DEF TerminalInv
  <1>5. PICK new \in AtMostOne :
           /\ UNCHANGED lcd_ack_toggle
              => /\ Crossing' = Crossing \o new
                 /\ Crossing = <<>> \/ new = <<>>
           /\ ~sys_ready
              => new = <<>> /\ UNCHANGED <<sys_req_toggle, sys_data_hold>>
    BY <1>2, <1>4, NewCharacter
  <1>6. AtConsole \in AtMostOne /\ Crossing \in AtMostOne
    BY <1>4 DEF CharsInv
  <1>7. /\ Crossing = <<>> \/ new = <<>> => Crossing \o new \in AtMostOne
        /\ AtConsole \o (Crossing \o new) = (AtConsole \o Crossing) \o new
        /\ <<>> \o Crossing = Crossing /\ Crossing \o <<>> = Crossing
        /\ <<>> \o (Crossing \o new) = Crossing \o new
    <2>1. /\ AtConsole \in Seq(Chars) /\ Crossing \in Seq(Chars) /\ new \in Seq(Chars)
          /\ <<>> \o Crossing = Crossing /\ Crossing \o <<>> = Crossing
          /\ <<>> \o new = new /\ Crossing \o new \in Seq(Chars)
      BY <1>6, ShortSequences
    <2>2. AtConsole \o (Crossing \o new) = (AtConsole \o Crossing) \o new
      BY <2>1, ConcatAssociative
    <2>3. <<>> \o (Crossing \o new) = Crossing \o new
      BY <2>1, ConcatEmptySeq
    <2> QED BY <1>6, <2>1, <2>2, <2>3, Zenon
  <1>8. OnTheWay = AtConsole \o Crossing /\ OnTheWay' = AtConsole' \o Crossing'
    BY <1>1 DEF OnTheWay, AtConsole, Crossing
  <1>9. new \in {<<>>} \cup {<<c>> : c \in Chars}
    BY DEF AtMostOne
  <1>10. ASSUME AtConsole' \in AtMostOne, Crossing' \in AtMostOne
         PROVE  CharsInv' /\ Len(OnTheWay') <= 2
    BY <1>8, <1>10, ShortSequences DEF CharsInv
  <1>11. CASE UNCHANGED <<lcdVars, consoleVars>>
    <2>1. UNCHANGED lcd_ack_toggle /\ AtConsole' = AtConsole
      BY <1>11 DEF lcdVars, AtConsole
    <2>2. Crossing' = Crossing \o new /\ Crossing' \in AtMostOne
      BY <1>5, <1>7, <2>1
    <2>3. CharsInv' /\ Len(OnTheWay') <= 2 /\ OnTheWay' = OnTheWay \o new
      BY <1>6, <1>7, <1>8, <1>10, <2>1, <2>2
    <2>4. UNCHANGED <<Picture, cursor_row, cursor_col>>
      BY <1>11 DEF consoleVars, Picture, CellAddr, PhysicalRow
    <2>5. ConsoleInv'
      BY <1>4, <1>11 DEF consoleVars, ConsoleInv
    <2> QED BY <1>1, <1>9, <2>3, <2>4, <2>5 DEF Terminal!Work
  <1>12. CASE LcdEdge(char_ready) /\ ConsoleClock(lcd_valid, lcd_data)
    <2>1. CASE lcd_valid
      <3>1. ~clearing
        BY <1>4, <2>1 DEF HandshakeInv, ConsoleReady, char_ready
      <3>2. AtConsole = <<lcd_data>> /\ lcd_data \in Chars
        BY <1>6, <2>1 DEF AtConsole, AtMostOne
      <3>3. PutChar(lcd_data)
        BY <1>12, <2>1, <3>1 DEF ConsoleClock, ClearCell
      <3>4. ConsoleInv' /\ Terminal!Show(lcd_data)
        BY <1>4, <3>1, <3>2, <3>3, PutCharShows
      <3>5. ~lcd_valid' /\ UNCHANGED lcd_ack_toggle
        BY <1>4, <1>12, <2>1, Arrives
      <3>6. AtConsole' = <<>> /\ Crossing' = Crossing \o new /\ Crossing' \in AtMostOne
        BY <1>5, <1>7, <3>5 DEF AtConsole
      <3>7. AtConsole' \in AtMostOne
        BY <3>6 DEF AtMostOne
      <3>8. CharsInv' /\ Len(OnTheWay') <= 2
        BY <1>10, <3>6, <3>7
      <3>9. OnTheWay # <<>> /\ Head(OnTheWay) = lcd_data /\ Tail(OnTheWay) = Crossing
        BY <1>6, <1>8, <3>2, HeadOff, ShortSequences
      <3>10. OnTheWay' = Tail(OnTheWay) \o new
        BY <1>7, <1>8, <3>6, <3>9
      <3> QED BY <1>1, <1>9, <3>4, <3>8, <3>9, <3>10 DEF Terminal!Work
    <2>2. CASE ~lcd_valid
      <3>1. ConsoleInv' /\ UNCHANGED <<Picture, cursor_row, cursor_col>>
        <4>1. CASE ClearCell
          BY <1>4, <4>1, ClearCellUnseen
        <4>2. CASE UNCHANGED consoleVars
          BY <1>4, <4>2 DEF consoleVars, ConsoleInv, Picture, CellAddr, PhysicalRow
        <4> QED BY <1>12, <2>2, <4>1, <4>2 DEF ConsoleClock
      <3>2. AtConsole = <<>>
        BY <2>2 DEF AtConsole
      <3>3. \/ /\ lcd_valid' /\ lcd_data' = sys_data_hold
               /\ sys_req_toggle # lcd_ack_toggle
               /\ lcd_ack_toggle' = sys_req_toggle
               /\ ~sys_ready
            \/ ~lcd_valid' /\ UNCHANGED lcd_ack_toggle
        BY <1>4, <1>12, Arrives
      <3>4. CASE ~lcd_valid' /\ UNCHANGED lcd_ack_toggle
        <4>1. AtConsole' = <<>> /\ Crossing' = Crossing \o new /\ Crossing' \in AtMostOne
          BY <1>5, <1>7, <3>4 DEF AtConsole
        <4>2. AtConsole' \in AtMostOne
          BY <4>1 DEF AtMostOne
        <4>3. CharsInv' /\ Len(OnTheWay') <= 2 /\ OnTheWay' = OnTheWay \o new
          BY <1>7, <1>8, <1>10, <3>2, <4>1, <4>2
        <4> QED BY <1>1, <1>9, <3>1, <4>3 DEF Terminal!Work
      <3>5. CASE /\ lcd_valid' /\ lcd_data' = sys_data_hold
                 /\ sys_req_toggle # lcd_ack_toggle
                 /\ lcd_ack_toggle' = sys_req_toggle
                 /\ ~sys_ready
        <4>1. new = <<>> /\ UNCHANGED <<sys_req_toggle, sys_data_hold>>
          BY <1>5, <3>5
        <4>2. AtConsole' = Crossing /\ Crossing' = <<>>
          BY <3>5, <4>1 DEF AtConsole, Crossing
        <4>3. Crossing' \in AtMostOne
          BY <4>2 DEF AtMostOne
        <4>4. CharsInv' /\ Len(OnTheWay') <= 2 /\ OnTheWay' = OnTheWay \o new
          BY <1>6, <1>7, <1>8, <1>10, <3>2, <4>1, <4>2, <4>3
        <4> QED BY <1>1, <1>9, <3>1, <4>4 DEF Terminal!Work
      <3> QED BY <3>3, <3>4, <3>5
    <2> QED BY <2>1, <2>2
  <1> QED BY <1>1, <1>3, <1>11, <1>12

\* What the screen shows is always characters and blanks.
LEMMA PictureTyped ==
  ASSUME ConsoleInv
  PROVE  Picture \in [Terminal!Place -> Chars \cup {Terminal!BLANK}]
  <1>1. Picture \in [Places -> Chars \cup {BLANK}]
    BY PictureIsShown, ShownTyped DEF ConsoleInv
  <1> QED BY <1>1 DEF Places, Terminal!Place, BLANK, Terminal!BLANK

\* The same after a step.
LEMMA NextPictureTyped ==
  ASSUME ConsoleInv'
  PROVE  Picture' \in [Terminal!Place -> Chars \cup {Terminal!BLANK}]
  <1>1. Picture' \in [Places -> Chars \cup {BLANK}]
    <2>1. /\ cells' \in Texts /\ top_row' \in 0 .. ROWS - 1
          /\ clearing' \in BOOLEAN
      BY DEF ConsoleInv
    <2>2. Picture' = IF clearing'
                     THEN ShownClear(cells', top_row', clear_col', cursor_row')
                     ELSE Shown(cells', top_row')
      BY <2>1, NextPicture
    <2> QED BY <2>1, <2>2, ShownTyped
  <1> QED BY <1>1 DEF Places, Terminal!Place, BLANK, Terminal!BLANK

\* While the button is down the clocks only clear registers.
LEMMA ResetTickShows ==
  ASSUME TerminalInv, reset, SysTick \/ LcdTick \/ BothTick
  PROVE  ConsoleInv' /\ CharsInv' /\ HomeInv' /\ Terminal!Button
  <1>1. reset'
    BY DEF SysTick, LcdTick, BothTick
  <1>2. \/ UNCHANGED <<lcdVars, consoleVars, lcd_saw>>
        \/ ConsoleReset
    BY DEF SysTick, LcdTick, BothTick, LcdSide
  <1>3. ConsoleInv'
    <2>1. CASE UNCHANGED <<lcdVars, consoleVars, lcd_saw>>
      BY <2>1 DEF TerminalInv, ConsoleInv, consoleVars
    <2>2. CASE ConsoleReset
      <3>1. 0 \in 0 .. COLS - 1 /\ 0 \in 0 .. ROWS - 1
        BY ConsoleParameters
      <3> QED BY <2>2, <3>1 DEF TerminalInv, ConsoleInv, ConsoleReset
    <2> QED BY <1>2, <2>1, <2>2
  <1>4. HomeInv'
    BY <1>2 DEF TerminalInv, HomeInv, consoleVars, ConsoleReset
  <1>5. CharsInv' /\ OnTheWay' = <<>>
    BY <1>1 DEF CharsInv, OnTheWay
  <1>6. Picture' \in [Terminal!Place -> Chars \cup {Terminal!BLANK}]
    BY <1>3, NextPictureTyped
  <1>7. cursor_row' \in 0 .. ROWS - 1 /\ cursor_col' \in 0 .. COLS - 1
    BY <1>3 DEF ConsoleInv
  <1> QED BY <1>1, <1>3, <1>4, <1>5, <1>6, <1>7 DEF Terminal!Button

\* The button goes down: whatever is on the way is lost,
LEMMA PressShows ==
  ASSUME TerminalInv, Press
  PROVE  ConsoleInv' /\ CharsInv' /\ HomeInv' /\ Terminal!Button
  <1>1. reset' /\ ~lcd_saw'
    BY DEF Press
  <1>2. ConsoleInv'
    BY DEF TerminalInv, Press, ConsoleInv, consoleVars
  <1>3. CharsInv' /\ HomeInv' /\ OnTheWay' = <<>>
    BY <1>1 DEF CharsInv, HomeInv, OnTheWay
  <1>4. Picture' \in [Terminal!Place -> Chars \cup {Terminal!BLANK}]
    BY <1>2, NextPictureTyped
  <1>5. cursor_row' \in 0 .. ROWS - 1 /\ cursor_col' \in 0 .. COLS - 1
    BY <1>2 DEF ConsoleInv
  <1> QED BY <1>1, <1>2, <1>3, <1>4, <1>5 DEF Terminal!Button

\* and comes up when both clocks have cleared their side of the bridge.
LEMMA ReleaseShows ==
  ASSUME TerminalInv, Release
  PROVE  ConsoleInv' /\ CharsInv' /\ HomeInv' /\ Terminal!Button
  <1>1. reset /\ sys_saw /\ lcd_saw /\ ~reset' /\ UNCHANGED <<bridgeVars, consoleVars>>
    BY DEF Release
  <1>2. ConsoleInv'
    BY <1>1 DEF TerminalInv, ConsoleInv, consoleVars
  <1>3. AtConsole' = <<>> /\ Crossing' = <<>>
    BY <1>1 DEF TerminalInv, HandshakeInv, SysCleared, LcdCleared, AtConsole, Crossing,
                bridgeVars, sysVars, lcdVars
  <1>4. OnTheWay' = <<>>
    <2>1. OnTheWay' = AtConsole' \o Crossing'
      BY <1>1 DEF OnTheWay, AtConsole, Crossing
    <2>2. <<>> \o <<>> = <<>>
      BY ShortSequences DEF AtMostOne
    <2> QED BY <1>3, <2>1, <2>2
  <1>5. CharsInv' /\ HomeInv'
    BY <1>1, <1>3 DEF CharsInv, HomeInv, AtMostOne
  <1>6. cursor_row' = 0 /\ cursor_col' = 0
    BY <1>1 DEF TerminalInv, HomeInv, consoleVars
  <1>7. Picture' \in [Terminal!Place -> Chars \cup {Terminal!BLANK}]
    BY <1>2, NextPictureTyped
  <1> QED BY <1>1, <1>2, <1>4, <1>5, <1>6, <1>7 DEF Terminal!Button

\* A dark screen that nothing is on the way to.
LEMMA TerminalInit == DisplayInit => TerminalInv /\ Terminal!Init
  <1> SUFFICES ASSUME DisplayInit PROVE TerminalInv /\ Terminal!Init
    OBVIOUS
  <1>1. /\ cells = [a \in 0 .. CELL_COUNT - 1 |-> BLANK]
        /\ cursor_col = 0 /\ cursor_row = 0 /\ top_row = 0 /\ clear_col = 0
        /\ clearing = FALSE /\ reset = FALSE
        /\ lcd_valid = FALSE /\ sys_req_toggle = FALSE /\ lcd_ack_toggle = FALSE
    BY DEF DisplayInit, ConsoleInit, BridgeInit
  <1>2. 0 \in 0 .. COLS - 1 /\ 0 \in 0 .. ROWS - 1
    BY ConsoleParameters
  <1>3. ConsoleInv
    BY <1>1, <1>2 DEF ConsoleInv, Texts
  <1>4. AtConsole = <<>> /\ Crossing = <<>>
    BY <1>1 DEF AtConsole, Crossing
  <1>5. CharsInv /\ HomeInv
    BY <1>1, <1>4 DEF CharsInv, HomeInv, AtMostOne
  <1>6. OnTheWay = <<>>
    <2>1. OnTheWay = AtConsole \o Crossing
      BY <1>1 DEF OnTheWay, AtConsole, Crossing
    <2>2. <<>> \o <<>> = <<>>
      BY ShortSequences DEF AtMostOne
    <2> QED BY <1>4, <2>1, <2>2
  <1>7. Picture = [p \in Terminal!Place |-> Terminal!BLANK]
    <2>1. Picture = Shown(cells, top_row)
      BY <1>1, PictureIsShown
    <2>2. ASSUME NEW p \in Places PROVE cells[CellFrom(top_row, p[1], p[2])] = BLANK
      BY <1>1, <1>2, PlacesApart
    <2>3. Shown(cells, top_row) = [p \in Places |-> BLANK]
      BY <2>2 DEF Shown
    <2> QED BY <2>1, <2>3 DEF Places, Terminal!Place, BLANK, Terminal!BLANK
  <1> QED BY <1>1, <1>3, <1>5, <1>6, <1>7, HandshakeInit DEF TerminalInv, Terminal!Init

\* Every character that is sent appears on the screen exactly once, in order and
\* in its place, for every size of the screen, every order of the clock edges and
\* every use of the reset button: bridge and console implement the terminal.
THEOREM TerminalImplemented == DisplaySpec => ImplementsTerminal
  <1>1. ASSUME TerminalInv, HandshakeInv', [DisplayNext]_displayVars
        PROVE  TerminalInv' /\ [Terminal!Work \/ Terminal!Button]_(Terminal!termVars)
    <2>1. CASE (SysTick \/ LcdTick \/ BothTick) /\ reset
      BY <1>1, <2>1, ResetTickShows DEF TerminalInv
    <2>2. CASE (SysTick \/ LcdTick \/ BothTick) /\ ~reset
      <3>1. HomeInv'
        BY <1>1, <2>2, TickShows DEF HomeInv
      <3> QED BY <1>1, <2>2, <3>1, TickShows DEF TerminalInv
    <2>3. CASE Press
      BY <1>1, <2>3, PressShows DEF TerminalInv
    <2>4. CASE Release
      BY <1>1, <2>4, ReleaseShows DEF TerminalInv
    <2>5. CASE UNCHANGED displayVars
      <3>1. ConsoleInv' /\ CharsInv' /\ HomeInv'
        BY <1>1, <2>5 DEF TerminalInv, ConsoleInv, CharsInv, HomeInv, AtConsole, Crossing,
                          displayVars, bridgeVars, sysVars, lcdVars, consoleVars
      <3>2. UNCHANGED Terminal!termVars
        BY <2>5 DEF Terminal!termVars, OnTheWay, Picture, CellAddr, PhysicalRow,
                    displayVars, bridgeVars, sysVars, lcdVars, consoleVars
      <3> QED BY <1>1, <3>1, <3>2 DEF TerminalInv
    <2> QED BY <1>1, <2>1, <2>2, <2>3, <2>4, <2>5 DEF DisplayNext
  <1> QED BY <1>1, TerminalInit, HandshakeInvariant, PTL
          DEF DisplaySpec, ImplementsTerminal, Terminal!Spec
-----------------------------------------------------------------------------
\* What is offered is a character, and nothing is after a reset edge.
OfferInv == /\ display_valid \in BOOLEAN
            /\ display_valid => display_data \in Chars
            /\ reset /\ sys_saw => ~display_valid

OutputInv == HandshakeInv /\ OfferInv /\ BothTakeIt

Offer == IF display_valid THEN {display_data} ELSE {}
-----------------------------------------------------------------------------
\* A display that is ready and gets nothing stays ready: the answer to the
\* last character has passed the first synchroniser before it passed the
\* second.
LEMMA ReadyStays ==
  ASSUME HandshakeInv, ~reset, sys_ready, SysEdge({})
  PROVE  sys_ready'
  <1>1. sys_ack_meta = sys_req_toggle
    BY DEF HandshakeInv, Ring, Toggles, sys_ready
  <1>2. sys_ack_sync' = sys_ack_meta /\ sys_req_toggle' = sys_req_toggle
    BY DEF SysEdge, Takes
  <1> QED BY <1>1, <1>2 DEF sys_ready

\* A transmitter to which nothing is offered stays ready,
LEMMA TxStays ==
  ASSUME tx_ready, TxClock({})
  PROVE  tx_ready'
  BY DEF tx_ready, TxClock, TxIdle, TxStartBit, TxData, TxStopBit

\* and one that takes a character is busy after it.
LEMMA TxStarts ==
  ASSUME NEW c, tx_ready, TxClock({c})
  PROVE  ~tx_ready'
  BY DEF tx_ready, TxClock, TxIdle, TxStartBit, TxData, TxStopBit

\* A clock in which nothing is offered leaves a ready display ready.
LEMMA NothingOffered ==
  ASSUME OutputInv, ~reset, SystemEdge, ~display_valid, display_ready
  PROVE  display_ready'
  <1>1. SysEdge({}) /\ TxClock({})
    BY DEF SystemEdge
  <1> QED BY <1>1, ReadyStays, TxStays DEF OutputInv, display_ready

\* A store is seen in display_valid only if the display was ready, and never
\* in the clock after another one.
LEMMA OfferStep ==
  ASSUME OutputInv, ~reset, SystemEdge
  PROVE  /\ display_valid' \in BOOLEAN
         /\ display_valid' => /\ display_data' \in Chars
                              /\ ~display_valid
                              /\ display_ready
  <1>1. CASE NoStore
    BY <1>1 DEF NoStore
  <1>2. ASSUME NEW c \in Chars, Stores(c)
        PROVE  /\ display_valid' = display_ready
               /\ display_ready => display_data' = c
               /\ ~display_valid
    BY <1>2 DEF Stores, OutputInv, OfferInv
  <1>3. display_ready \in BOOLEAN
    BY DEF display_ready, tx_ready, sys_ready
  <1> QED BY <1>1, <1>2, <1>3 DEF SystemEdge
-----------------------------------------------------------------------------
\* Every step is one of the text display, which is offered a character only
\* when it is ready.
LEMMA OutputStepDisplay ==
  ASSUME OutputInv, [OutputNext]_outputVars
  PROVE  [DisplayNext]_displayVars
  <1>1. CASE OutputSide
    <2>1. reset => SysReset
      BY <1>1 DEF OutputSide, ResetEdge
    <2>2. ~reset => SysEdge(Offer)
      BY <1>1 DEF OutputSide, SystemEdge, Offer
    <2>3. ~reset => Offer \in Offers
      BY DEF OutputInv, OfferInv, BothTakeIt, Offer, Offers
    <2>4. SysSide
      BY <1>1, <2>1, <2>2, <2>3 DEF SysSide, OutputSide
    <2>5. ClkTick => SysTick
      BY <2>4 DEF ClkTick, SysTick
    <2>6. PairTick => BothTick
      BY <2>4 DEF PairTick, BothTick
    <2>7. LcdOnly => LcdTick
      BY DEF LcdOnly
    <2>8. Button => Press \/ Release
      BY DEF Button
    <2>9. UNCHANGED outputVars => UNCHANGED displayVars
      BY DEF outputVars
    <2> QED BY <2>5, <2>6, <2>7, <2>8, <2>9 DEF OutputNext, DisplayNext
  <1>2. CASE ~OutputSide
    BY <1>2 DEF OutputNext, ClkTick, PairTick, LcdOnly, Button, DisplayNext,
                outputVars
  <1> QED BY <1>1, <1>2

\* The invariant of the output side holds at first,
LEMMA OutputInitInv == OutputInit => OutputInv
  BY HandshakeInit DEF OutputInit, DisplayInit, OutputInv, OfferInv, BothTakeIt

\* and is kept by every step.
LEMMA OutputStepInv ==
  ASSUME OutputInv, [OutputNext]_outputVars
  PROVE  OutputInv'
  <1>1. HandshakeInv'
    BY OutputStepDisplay, HandshakeTick, HandshakePress, HandshakeRelease,
       HandshakeStutter DEF OutputInv, DisplayNext
  <1>2. CASE OutputSide /\ reset' = reset /\ ~reset
    <2>1. SystemEdge
      BY <1>2 DEF OutputSide
    <2>2. OfferInv'
      BY <1>2, <2>1, OfferStep DEF OfferInv
    <2>3. display_valid' => display_ready'
      BY <1>2, <2>1, OfferStep, NothingOffered
    <2>4. BothTakeIt'
      BY <2>3 DEF BothTakeIt, display_ready
    <2> QED BY <1>1, <2>2, <2>4 DEF OutputInv
  <1>3. CASE OutputSide /\ reset' = reset /\ reset
    BY <1>1, <1>3 DEF OutputSide, ResetEdge, OutputInv, OfferInv, BothTakeIt
  <1>4. CASE /\ LcdTick \/ Press \/ Release \/ UNCHANGED displayVars
             /\ UNCHANGED <<txVars, display_valid, display_data>>
    <2>1. tx_ready' = tx_ready /\ sys_ready' = sys_ready
      BY <1>4 DEF txVars, tx_ready, sys_ready, LcdTick, Press, Release,
                  displayVars, bridgeVars, sysVars
    <2>2. OfferInv'
      BY <1>4 DEF OutputInv, OfferInv, LcdTick, Press, Release, displayVars
    <2>3. BothTakeIt'
      BY <1>4, <2>1 DEF OutputInv, OfferInv, BothTakeIt, LcdTick, Press,
                        Release, displayVars
    <2> QED BY <1>1, <2>2, <2>3 DEF OutputInv
  <1> QED BY <1>2, <1>3, <1>4
          DEF OutputNext, ClkTick, PairTick, LcdOnly, Button, outputVars

\* The invariant of the output side.
THEOREM OutputInvariant == OutputSpec => []OutputInv
  BY OutputInitInv, OutputStepInv, PTL DEF OutputSpec

\* Whenever a character is offered, the serial transmitter and the text
\* display both take it.
THEOREM BothAlwaysTakeIt == OutputSpec => []BothTakeIt
  <1>1. OutputInv => BothTakeIt
    BY DEF OutputInv
  <1> QED BY <1>1, OutputInvariant, PTL

\* The computer uses the text display as the specification of the latter
\* assumes, so that what is proved of it holds inside the computer.
THEOREM DisplayUsedWell == OutputSpec => DisplaySpec
  <1>1. OutputInit => DisplayInit
    BY DEF OutputInit
  <1> QED BY <1>1, OutputStepDisplay, OutputInvariant, PTL
          DEF OutputSpec, DisplaySpec

\* So the screen of the whole output side is a terminal.
THEOREM ScreenIsTerminal == OutputSpec => ImplementsTerminal
  BY DisplayUsedWell, TerminalImplemented, PTL

\* An edge of the system clock is one of the port it promises, and no other step
\* moves the port.
LEMMA PortStep ==
  ASSUME OutputInv, [OutputNext]_outputVars
  PROVE  IF OutputSide THEN Port!Edge(reset) ELSE UNCHANGED Port!portVars
  <1>1. CASE OutputSide /\ ~reset
    <2>1. SystemEdge
      BY <1>1 DEF OutputSide
    <2>2. display_valid' \in {FALSE, display_ready /\ ~display_valid}
      BY <1>1, <2>1, OfferStep
    <2>3. CASE display_valid
      <3>1. tx_ready /\ TxClock({BitsOf(display_data)})
        BY <1>1, <2>1, <2>3 DEF OutputInv, BothTakeIt, SystemEdge
      <3>2. display_ready' = FALSE
        BY <3>1, TxStarts DEF display_ready
      <3>3. display_ready
        BY <1>1, <2>3 DEF OutputInv, BothTakeIt, display_ready
      <3> QED BY <1>1, <2>2, <2>3, <3>2, <3>3
              DEF Port!Edge, Port!Clock, Port!DisplayClock
    <2>4. CASE ~display_valid
      <3>1. display_ready' \in {display_ready, TRUE}
        <4>1. display_ready => display_ready'
          BY <1>1, <2>1, <2>4, NothingOffered
        <4>2. display_ready \in BOOLEAN /\ display_ready' \in BOOLEAN
          BY DEF display_ready, tx_ready, sys_ready
        <4> QED BY <4>1, <4>2
      <3> QED BY <1>1, <2>2, <2>4, <3>1
              DEF Port!Edge, Port!Clock, Port!DisplayClock
    <2> QED BY <2>3, <2>4
  <1>2. CASE OutputSide /\ reset
    BY <1>2 DEF OutputSide, ResetEdge, SysReset, TxReset, Port!Edge, Port!Reset,
                display_ready, tx_ready, sys_ready
  <1>3. CASE ~OutputSide
    <2>1. UNCHANGED <<tx_state, sys_req_toggle, sys_ack_sync, display_valid>>
      BY <1>3 DEF OutputNext, ClkTick, PairTick, LcdOnly, Button, LcdTick,
                  Press, Release, outputVars, displayVars, bridgeVars,
                  sysVars, txVars
    <2> QED BY <1>3, <2>1 DEF Port!portVars, display_ready, tx_ready, sys_ready
  <1> QED BY <1>1, <1>2, <1>3

\* Transmitter and display together behave as LC3System assumes of what
\* displays its characters, at every edge of the system clock.
THEOREM PortImplemented == OutputSpec => ImplementsPort
  <1> DEFINE PortEdge == IF OutputSide THEN Port!Edge(reset)
                         ELSE UNCHANGED Port!portVars
  <1>1. OutputInit => Port!Init
    BY DEF OutputInit, TxInit, DisplayInit, BridgeInit, display_ready,
           tx_ready, sys_ready, Port!Init
  <1>2. OutputInv /\ [OutputNext]_outputVars => [PortEdge]_outputVars
    BY PortStep
  <1> QED BY <1>1, <1>2, OutputInvariant, PTL
          DEF OutputSpec, ImplementsPort
-----------------------------------------------------------------------------
\* The edges of the system clock that the transmitter is still busy for.
FrameLeft ==
    CASE tx_state = "IDLE"      -> 0
      [] tx_state = "START_BIT" -> 10 * DELAY_FRAMES - tx_counter
      [] tx_state = "DATA"      -> (9 - tx_bit) * DELAY_FRAMES - tx_counter
      [] OTHER                  -> DELAY_FRAMES - tx_counter

\* The registers of the ring that the request, or its answer, has to pass.
RingLeft == IF sys_ack_sync = sys_req_toggle THEN 0
            ELSE IF sys_ack_meta = sys_req_toggle THEN 1
            ELSE IF lcd_ack_toggle = sys_req_toggle THEN 2
            ELSE IF lcd_req_sync = sys_req_toggle THEN 3
            ELSE IF lcd_req_meta = sys_req_toggle THEN 4
            ELSE 5

\* The cells to clear before the console takes the next character.
RowLeft == IF clearing THEN COLS - clear_col ELSE 0

\* What the bridge waits for: clearing delays the request, not the answer, and
\* a character may start it while the next request is still on its way.
BridgeLeft ==
    IF RingLeft <= 2 THEN RingLeft ELSE (RingLeft - 2) * (COLS + 1) + 2 + RowLeft

\* A display that is not ready is on its way to be: no edge takes it back,
\* an edge of the system clock shortens the frame and carries the answer on,
\* and an edge of the LCD clock carries the request on or clears a cell.
OnItsWay ==
    [][ ~reset /\ ~reset' /\ ~display_ready =>
          /\ FrameLeft' <= FrameLeft
          /\ BridgeLeft' <= BridgeLeft
          /\ OutputSide =>
               /\ FrameLeft > 0 => FrameLeft' < FrameLeft
               /\ BridgeLeft \in 1 .. 2 => BridgeLeft' < BridgeLeft
          /\ LcdSide /\ BridgeLeft > 2 => BridgeLeft' < BridgeLeft
      ]_outputVars
\* The registers of the transmitter, and those that count a cleared row.
TxTypeOK == /\ tx_state \in {"IDLE", "START_BIT", "DATA", "STOP_BIT"}
            /\ tx_counter \in 0 .. DELAY_FRAMES - 1
            /\ tx_bit \in 0 .. 7

RowTypeOK == clearing \in BOOLEAN /\ clear_col \in 0 .. COLS - 1

DelayInv == OutputInv /\ TxTypeOK /\ RowTypeOK
-----------------------------------------------------------------------------
\* A clock edge of the transmitter keeps its registers within their ranges,
LEMMA TxTyped ==
  ASSUME TxTypeOK, NEW start, TxClock(start)
  PROVE  TxTypeOK'
  <1> USE SerialParameters DEF TxTypeOK, TxCounts, TxDone
  <1>1. CASE TxIdle(start)
    BY <1>1 DEF TxIdle
  <1>2. CASE TxStartBit
    BY <1>2 DEF TxStartBit
  <1>3. CASE TxData
    BY <1>3 DEF TxData
  <1>4. CASE TxStopBit
    BY <1>4 DEF TxStopBit
  <1> QED BY <1>1, <1>2, <1>3, <1>4 DEF TxClock

\* and shortens the frame by one edge if no other character is taken.
LEMMA FrameShortens ==
  ASSUME TxTypeOK, TxClock({})
  PROVE  IF tx_ready THEN FrameLeft' = 0 ELSE FrameLeft' = FrameLeft - 1
  <1> USE SerialParameters DEF TxTypeOK, TxCounts, TxDone, FrameLeft, tx_ready
  <1>1. CASE TxIdle({})
    BY <1>1 DEF TxIdle
  <1>2. CASE TxStartBit
    BY <1>2 DEF TxStartBit
  <1>3. CASE TxData
    <2>1. \A b \in 0 .. 7 : (9 - (b + 1)) * DELAY_FRAMES
                            = (9 - b) * DELAY_FRAMES - DELAY_FRAMES
      OBVIOUS
    <2>2. \A b \in 0 .. 7 : (9 - b) * DELAY_FRAMES \in Int
      OBVIOUS
    <2>3. CASE ~TxDone
      BY <1>3, <2>2, <2>3 DEF TxData
    <2>4. CASE TxDone /\ tx_bit = 7
      BY <1>3, <2>4 DEF TxData
    <2>5. CASE TxDone /\ tx_bit # 7
      <3>1. /\ tx_state' = "DATA" /\ tx_counter' = 0
            /\ tx_bit' = tx_bit + 1 /\ tx_counter = DELAY_FRAMES - 1
        BY <1>3, <2>5 DEF TxData
      <3>2. FrameLeft' = (9 - (tx_bit + 1)) * DELAY_FRAMES - 0
        BY <3>1
      <3>3. FrameLeft = (9 - tx_bit) * DELAY_FRAMES - (DELAY_FRAMES - 1)
        BY <1>3, <3>1 DEF TxData
      <3>4. (9 - (tx_bit + 1)) * DELAY_FRAMES
              = (9 - tx_bit) * DELAY_FRAMES - DELAY_FRAMES
        BY <2>1
      <3>5. (9 - tx_bit) * DELAY_FRAMES \in Int
        BY <2>2
      <3>6. tx_state # "IDLE"
        BY <1>3 DEF TxData
      <3> HIDE DEF FrameLeft
      <3> QED BY <3>2, <3>3, <3>4, <3>5, <3>6
    <2> QED BY <2>3, <2>4, <2>5
  <1>4. CASE TxStopBit
    BY <1>4 DEF TxStopBit
  <1> QED BY <1>1, <1>2, <1>3, <1>4 DEF TxClock

\* A transmitter has nothing left to send exactly when it is ready.
LEMMA FrameZero ==
  ASSUME TxTypeOK
  PROVE  FrameLeft \in Nat /\ (FrameLeft = 0 <=> tx_ready)
  <1>1. ASSUME NEW d \in 1 .. 256, NEW b \in 0 .. 7, NEW n \in 0 .. d - 1
        PROVE  (9 - b) * d - n \in Nat /\ (9 - b) * d - n # 0
    <2>1. 9 - b \in 2 .. 9 /\ (9 - b) * d = 2 * d + (7 - b) * d
      OBVIOUS
    <2>2. (7 - b) * d \in Nat
      OBVIOUS
    <2> QED BY <2>1, <2>2
  <1>2. CASE tx_state = "DATA"
    <2>1. FrameLeft = (9 - tx_bit) * DELAY_FRAMES - tx_counter
      BY <1>2 DEF FrameLeft
    <2> QED BY <1>1, <1>2, <2>1, SerialParameters DEF TxTypeOK, tx_ready
  <1>3. CASE tx_state # "DATA"
    BY <1>3, SerialParameters DEF TxTypeOK, FrameLeft, tx_ready
  <1> QED BY <1>2, <1>3

\* The columns of a row, counted from the left and from the right.
LEMMA Columns ==
  /\ COLS \in Nat
  /\ 0 \in 0 .. COLS - 1
  /\ \A c \in 0 .. COLS - 1 :
       /\ COLS - c \in 1 .. COLS
       /\ c + 1 # COLS => c + 1 \in 0 .. COLS - 1
       /\ COLS - (c + 1) = (COLS - c) - 1
  BY ConsoleParameters

\* A clock edge of the console keeps the count of a cleared row in its range.
LEMMA RowTyped ==
  ASSUME RowTypeOK, NEW valid, NEW c, ConsoleClock(valid, c)
  PROVE  RowTypeOK'
  <1> USE DEF RowTypeOK
  <1>1. CASE ClearCell
    <2>1. CASE clear_col + 1 = COLS
      BY <1>1, <2>1, Columns DEF ClearCell
    <2>2. CASE clear_col + 1 # COLS
      BY <1>1, <2>2, Columns DEF ClearCell
    <2> QED BY <2>1, <2>2
  <1>2. CASE ~clearing /\ PutChar(c)
    BY <1>2 DEF PutChar, PutBackspace, PutNewline, PutReturn, PutPrintable,
                NextLine
  <1>3. CASE UNCHANGED consoleVars
    BY <1>3 DEF consoleVars
  <1> QED BY <1>1, <1>2, <1>3 DEF ConsoleClock

\* The row that is being cleared comes to its end.
LEMMA RowShortens ==
  ASSUME RowTypeOK, NEW valid, NEW c, ConsoleClock(valid, c)
  PROVE  /\ RowLeft \in 0 .. COLS
         /\ RowLeft' \in 0 .. COLS
         /\ clearing => RowLeft' = RowLeft - 1
  <1>1. RowTypeOK'
    BY RowTyped
  <1>2. RowLeft \in 0 .. COLS
    BY Columns DEF RowTypeOK, RowLeft
  <1>3. RowLeft' \in 0 .. COLS
    <2>1. clear_col' \in 0 .. COLS - 1
      BY <1>1 DEF RowTypeOK
    <2>2. COLS - clear_col' \in 1 .. COLS
      BY <2>1, Columns
    <2>3. CASE clearing'
      <3>1. RowLeft' = COLS - clear_col'
        BY <2>3 DEF RowLeft
      <3> QED BY <2>2, <3>1
    <2>4. CASE ~clearing'
      <3>1. RowLeft' = 0
        BY <2>4 DEF RowLeft
      <3> QED BY <3>1, Columns
    <2> QED BY <2>3, <2>4
  <1>4. ASSUME clearing
        PROVE  RowLeft' = RowLeft - 1
    <2>1. ClearCell
      BY <1>4 DEF ConsoleClock
    <2>2. RowLeft = COLS - clear_col
      BY <1>4 DEF RowLeft
    <2>3. CASE clear_col + 1 = COLS
      <3>1. RowLeft' = 0
        BY <2>1, <2>3 DEF ClearCell, RowLeft
      <3> QED BY <2>2, <2>3, <3>1, Columns DEF RowTypeOK
    <2>4. CASE clear_col + 1 # COLS
      <3>1. clearing' = clearing /\ clear_col' = clear_col + 1
        BY <2>1, <2>4 DEF ClearCell
      <3>2. RowLeft' = COLS - (clear_col + 1)
        BY <1>4, <3>1 DEF RowLeft
      <3> QED BY <2>2, <3>2, Columns DEF RowTypeOK
    <2> QED BY <2>3, <2>4
  <1> QED BY <1>2, <1>3, <1>4
-----------------------------------------------------------------------------
\* An edge of the system clock in which nothing is offered carries an answer
\* through one of the two registers, and nothing else.
LEMMA AnswerMoves ==
  ASSUME Toggles, Ring, ~sys_ready, SysEdge({}), UNCHANGED lcdVars
  PROVE  RingLeft' = IF RingLeft \in 1 .. 2 THEN RingLeft - 1 ELSE RingLeft
  <1>1. /\ sys_ack_meta' = lcd_ack_toggle
        /\ sys_ack_sync' = sys_ack_meta
        /\ UNCHANGED <<sys_req_toggle, lcd_req_meta, lcd_req_sync,
                       lcd_ack_toggle>>
    BY DEF SysEdge, Takes, lcdVars
  <1> QED BY <1>1 DEF Toggles, Ring, sys_ready, RingLeft

\* An edge of the LCD clock carries a request on, unless it has arrived and
\* the console is clearing a row.
LEMMA RequestMoves ==
  ASSUME Toggles, Ring, ~sys_ready, LcdEdge(char_ready),
         UNCHANGED sysVars
  PROVE  RingLeft' = IF RingLeft \in 4 .. 5 \/ (RingLeft = 3 /\ ~clearing)
                     THEN RingLeft - 1 ELSE RingLeft
  <1>1. /\ lcd_req_meta' = sys_req_toggle
        /\ lcd_req_sync' = lcd_req_meta
        /\ UNCHANGED <<sys_req_toggle, sys_ack_meta, sys_ack_sync>>
        /\ lcd_ack_toggle' = IF Delivers(char_ready) THEN lcd_req_sync
                                                     ELSE lcd_ack_toggle
    BY DEF LcdEdge, sysVars
  <1>2. Delivers(char_ready) <=> lcd_req_sync # lcd_ack_toggle /\ ~clearing
    BY DEF Delivers, char_ready
  <1> QED BY <1>1, <1>2 DEF Toggles, Ring, sys_ready, RingLeft

\* Both clocks at once move it as one of them does.
LEMMA BothMove ==
  ASSUME Toggles, Ring, ~sys_ready, SysEdge({}), LcdEdge(char_ready)
  PROVE  RingLeft' = IF RingLeft = 3 /\ clearing THEN RingLeft
                     ELSE RingLeft - 1
  <1>1. /\ lcd_req_meta' = sys_req_toggle
        /\ lcd_req_sync' = lcd_req_meta
        /\ lcd_ack_toggle' = IF Delivers(char_ready) THEN lcd_req_sync
                                                     ELSE lcd_ack_toggle
        /\ sys_ack_meta' = lcd_ack_toggle
        /\ sys_ack_sync' = sys_ack_meta
        /\ UNCHANGED sys_req_toggle
    BY DEF LcdEdge, SysEdge, Takes
  <1>2. Delivers(char_ready) <=> lcd_req_sync # lcd_ack_toggle /\ ~clearing
    BY DEF Delivers, char_ready
  <1> QED BY <1>1, <1>2 DEF Toggles, Ring, sys_ready, RingLeft

\* The ring has six places, of which the first is that of a ready bridge.
LEMMA RingPlaces == RingLeft \in 0 .. 5 /\ (RingLeft = 0 <=> sys_ready)
  BY DEF RingLeft, sys_ready

\* One step of the measure, for every width of the screen.
LEMMA MeasureDrops ==
  ASSUME NEW C \in Nat, NEW r \in 3 .. 5, NEW s \in 0 .. 5,
         NEW x \in 0 .. C, NEW y \in 0 .. C,
         \/ s = r - 1
         \/ s = r /\ y < x
  PROVE  (IF s <= 2 THEN s ELSE (s - 2) * (C + 1) + 2 + y)
         \in 0 .. ((r - 2) * (C + 1) + 2 + x) - 1
  <1>1. CASE r = 3
    BY <1>1
  <1>2. CASE r = 4
    BY <1>2
  <1>3. CASE r = 5
    BY <1>3
  <1> QED BY <1>1, <1>2, <1>3

\* What is left for the bridge is nothing when the bridge is ready, and not
\* much when only the answer is still to come.
LEMMA BridgeZero ==
  ASSUME RowTypeOK
  PROVE  /\ BridgeLeft \in Nat
         /\ BridgeLeft = 0 <=> sys_ready
         /\ BridgeLeft > 2 <=> RingLeft > 2
         /\ RingLeft <= 2 => BridgeLeft = RingLeft
  <1>1. RowLeft \in Nat
    BY ConsoleParameters DEF RowTypeOK, RowLeft
  <1>2. CASE RingLeft <= 2
    BY <1>2, RingPlaces DEF BridgeLeft
  <1>3. ASSUME NEW k \in Nat, NEW n \in Nat
        PROVE  k * (COLS + 1) + 2 + n >= 2 /\ k * (COLS + 1) + 2 + n \in Nat
    BY ConsoleParameters
  <1>4. CASE RingLeft > 2
    <2>1. BridgeLeft = (RingLeft - 2) * (COLS + 1) + 2 + RowLeft
      BY <1>4, RingPlaces DEF BridgeLeft
    <2>2. RingLeft - 2 \in 1 .. 3
      BY <1>4, RingPlaces
    <2>3. ASSUME NEW k \in 1 .. 3, NEW n \in Nat
          PROVE  /\ k * (COLS + 1) + 2 + n > 2
                 /\ k * (COLS + 1) + 2 + n \in Nat
      <3>1. k = 1 \/ k = 2 \/ k = 3
        OBVIOUS
      <3> QED BY <3>1, ConsoleParameters
    <2> QED BY <1>1, <1>4, <2>1, <2>2, <2>3, RingPlaces
  <1> QED BY <1>2, <1>4, RingPlaces
-----------------------------------------------------------------------------
\* An edge of the LCD clock, with one of the system clock or without, lowers
\* the measure until the request has passed to the console.
LEMMA LcdShortens ==
  ASSUME HandshakeInv, RowTypeOK, ~reset, ~sys_ready, LcdSide, RingLeft > 2,
         SysEdge({}) \/ UNCHANGED sysVars
  PROVE  BridgeLeft' \in 0 .. BridgeLeft - 1
  <1>1. LcdEdge(char_ready) /\ ConsoleClock(lcd_valid, lcd_data)
    BY DEF LcdSide
  <1>2. Toggles /\ Ring /\ Handed
    BY DEF HandshakeInv
  <1>3. RowLeft \in 0 .. COLS /\ RowLeft' \in 0 .. COLS
    BY <1>1, RowShortens
  <1>4. RingLeft \in 3 .. 5
    BY RingPlaces
  <1>5. RingLeft' = IF RingLeft = 3 /\ clearing THEN RingLeft ELSE RingLeft - 1
    BY <1>1, <1>2, <1>4, RequestMoves, BothMove
  <1>6. \/ RingLeft' = RingLeft - 1
        \/ RingLeft' = RingLeft /\ RowLeft' < RowLeft
    <2>1. clearing => RowLeft' < RowLeft
      BY <1>1, <1>3, RowShortens
    <2> QED BY <1>5, <2>1
  <1>7. RingLeft' \in 0 .. 5
    BY <1>4, <1>6
  <1>8. (IF RingLeft' <= 2 THEN RingLeft'
         ELSE (RingLeft' - 2) * (COLS + 1) + 2 + RowLeft')
        \in 0 .. ((RingLeft - 2) * (COLS + 1) + 2 + RowLeft) - 1
    BY <1>3, <1>4, <1>6, <1>7, MeasureDrops, Columns
  <1>9. BridgeLeft = (RingLeft - 2) * (COLS + 1) + 2 + RowLeft
    BY <1>4 DEF BridgeLeft
  <1>10. BridgeLeft' = IF RingLeft' <= 2 THEN RingLeft'
                       ELSE (RingLeft' - 2) * (COLS + 1) + 2 + RowLeft'
    BY DEF BridgeLeft
  <1> QED BY <1>8, <1>9, <1>10, Zenon

\* An edge of the LCD clock alone does not touch the answer.
LEMMA LcdKeeps ==
  ASSUME HandshakeInv, RowTypeOK, ~reset, LcdSide, UNCHANGED sysVars,
         RingLeft <= 2
  PROVE  BridgeLeft' = BridgeLeft
  <1>1. LcdEdge(char_ready) /\ Toggles /\ Ring
    BY DEF LcdSide, HandshakeInv
  <1>2. CASE ~sys_ready
    BY <1>1, <1>2, RequestMoves, RingPlaces DEF BridgeLeft
  <1>3. CASE sys_ready
    <2>1. RingLeft = 0 /\ RingLeft' = 0
      BY <1>3 DEF RingLeft, sys_ready, sysVars
    <2> QED BY <2>1 DEF BridgeLeft
  <1> QED BY <1>2, <1>3

\* An edge of the system clock carries the answer on, whether the LCD clock
\* has an edge at that moment or not,
LEMMA SysShortens ==
  ASSUME HandshakeInv, ~reset, RingLeft \in 1 .. 2, SysEdge({}),
         LcdSide \/ UNCHANGED lcdVars
  PROVE  BridgeLeft' \in 0 .. BridgeLeft - 1
  <1>1. ~sys_ready /\ Toggles /\ Ring
    BY RingPlaces DEF HandshakeInv
  <1>2. RingLeft' = RingLeft - 1
    BY <1>1, AnswerMoves, BothMove DEF LcdSide
  <1>3. BridgeLeft' = RingLeft' /\ BridgeLeft = RingLeft
    BY <1>2 DEF BridgeLeft
  <1> QED BY <1>2, <1>3

\* and otherwise changes nothing.
LEMMA SysKeeps ==
  ASSUME HandshakeInv, ~reset, RingLeft \notin 1 .. 2, SysEdge({}),
         UNCHANGED lcdVars, UNCHANGED consoleVars
  PROVE  BridgeLeft' = BridgeLeft
  <1>1. CASE sys_ready
    <2>1. RingLeft = 0 /\ sys_ready'
      BY <1>1, ReadyStays, RingPlaces
    <2>2. RingLeft' = 0
      BY <2>1 DEF RingLeft, sys_ready
    <2> QED BY <2>1, <2>2 DEF BridgeLeft
  <1>2. CASE ~sys_ready
    <2>1. RingLeft' = RingLeft
      BY <1>2, AnswerMoves DEF HandshakeInv
    <2>2. RowLeft' = RowLeft
      BY DEF RowLeft, consoleVars
    <2> QED BY <2>1, <2>2 DEF BridgeLeft
  <1> QED BY <1>1, <1>2

\* A ready bridge stays ready when both clocks have an edge.
LEMMA BothKeep ==
  ASSUME HandshakeInv, ~reset, sys_ready, SysEdge({})
  PROVE  BridgeLeft' = 0
  <1>1. sys_ready'
    BY ReadyStays
  <1>2. RingLeft' = 0
    BY <1>1 DEF RingLeft, sys_ready
  <1> QED BY <1>2 DEF BridgeLeft
-----------------------------------------------------------------------------
\* The ranges of the registers hold at first,
LEMMA DelayInit == OutputInit => DelayInv
  <1>1. OutputInit => TxTypeOK
    BY SerialParameters DEF OutputInit, TxInit, TxTypeOK
  <1>2. OutputInit => RowTypeOK
    BY Columns DEF OutputInit, DisplayInit, ConsoleInit, RowTypeOK
  <1> QED BY <1>1, <1>2, OutputInitInv DEF DelayInv

\* and are kept by every step.
LEMMA DelayStep ==
  ASSUME DelayInv, [OutputNext]_outputVars
  PROVE  DelayInv'
  <1>1. OutputInv'
    BY OutputStepInv DEF DelayInv
  <1>2. TxTypeOK'
    <2>1. CASE OutputSide
      <3>1. CASE reset
        BY <2>1, <3>1, SerialParameters DEF OutputSide, ResetEdge, TxReset,
                                            TxTypeOK
      <3>2. CASE ~reset
        BY <2>1, <3>2, TxTyped DEF OutputSide, SystemEdge, DelayInv
      <3> QED BY <3>1, <3>2
    <2>2. CASE UNCHANGED txVars
      BY <2>2 DEF txVars, TxTypeOK, DelayInv
    <2> QED BY <2>1, <2>2 DEF OutputNext, ClkTick, LcdOnly, PairTick, Button,
                              outputVars
  <1>3. RowTypeOK'
    <2>1. CASE LcdSide
      <3>1. CASE reset
        BY <2>1, <3>1, Columns DEF LcdSide, ConsoleReset, RowTypeOK
      <3>2. CASE ~reset
        BY <2>1, <3>2, RowTyped DEF LcdSide, DelayInv
      <3> QED BY <3>1, <3>2
    <2>2. CASE UNCHANGED consoleVars
      BY <2>2 DEF consoleVars, RowTypeOK, DelayInv
    <2> QED BY <2>1, <2>2 DEF OutputNext, ClkTick, LcdOnly, LcdTick, PairTick,
                              Button, Press, Release, outputVars, displayVars
  <1> QED BY <1>1, <1>2, <1>3 DEF DelayInv

\* Transmitter and bridge of a display that is not ready, at an edge of the
\* system clock: nothing is offered, so that both only finish.
LEMMA SystemFinishes ==
  ASSUME DelayInv, ~reset, ~display_ready, OutputSide
  PROVE  /\ SysEdge({})
         /\ FrameLeft' <= FrameLeft
         /\ FrameLeft > 0 => FrameLeft' < FrameLeft
  <1>1. ~display_valid
    BY DEF DelayInv, OutputInv, BothTakeIt, display_ready
  <1>2. SysEdge({}) /\ TxClock({})
    BY <1>1 DEF OutputSide, SystemEdge
  <1>3. IF tx_ready THEN FrameLeft' = 0 ELSE FrameLeft' = FrameLeft - 1
    BY <1>2, FrameShortens DEF DelayInv
  <1>4. FrameLeft \in Nat /\ (FrameLeft = 0 <=> tx_ready)
    BY FrameZero DEF DelayInv
  <1> QED BY <1>2, <1>3, <1>4

\* One edge of the clocks, of either or of both.
LEMMA EdgeShortens ==
  ASSUME DelayInv, OutputNext, ~reset, ~reset', ~display_ready
  PROVE  /\ FrameLeft' <= FrameLeft
         /\ BridgeLeft' <= BridgeLeft
         /\ OutputSide =>
              /\ FrameLeft > 0 => FrameLeft' < FrameLeft
              /\ BridgeLeft \in 1 .. 2 => BridgeLeft' < BridgeLeft
         /\ LcdSide /\ BridgeLeft > 2 => BridgeLeft' < BridgeLeft
  <1>1. /\ BridgeLeft \in Nat
        /\ BridgeLeft = 0 <=> sys_ready
        /\ BridgeLeft > 2 <=> RingLeft > 2
        /\ RingLeft <= 2 => BridgeLeft = RingLeft
        /\ RingLeft \in 0 .. 5
    BY BridgeZero, RingPlaces DEF DelayInv
  <1>2. HandshakeInv /\ RowTypeOK
    BY DEF DelayInv, OutputInv
  <1>3. ~Button
    BY DEF Button, Press, Release
  <1>4. \/ OutputSide
        \/ LcdSide /\ UNCHANGED sysVars /\ UNCHANGED txVars
    <2>1. LcdOnly => LcdSide /\ UNCHANGED sysVars /\ UNCHANGED txVars
      BY DEF LcdOnly, LcdTick
    <2>2. ClkTick \/ PairTick => OutputSide
      BY DEF ClkTick, PairTick
    <2> QED BY <1>3, <2>1, <2>2 DEF OutputNext
  <1>5. \/ LcdSide
        \/ OutputSide /\ UNCHANGED lcdVars /\ UNCHANGED consoleVars
    <2>1. ClkTick => OutputSide /\ UNCHANGED lcdVars /\ UNCHANGED consoleVars
      BY DEF ClkTick
    <2>2. LcdOnly \/ PairTick => LcdSide
      BY DEF LcdOnly, LcdTick, PairTick
    <2> QED BY <1>3, <2>1, <2>2 DEF OutputNext
  <1>6. ASSUME OutputSide
        PROVE  /\ SysEdge({})
               /\ FrameLeft' <= FrameLeft
               /\ FrameLeft > 0 => FrameLeft' < FrameLeft
    BY <1>6, SystemFinishes
  <1>7. FrameLeft' <= FrameLeft
    <2>1. CASE UNCHANGED txVars
      <3>1. FrameLeft' = FrameLeft
        BY <2>1 DEF txVars, FrameLeft
      <3> QED BY <3>1, FrameZero DEF DelayInv
    <2> QED BY <1>4, <1>6, <2>1
  <1>8. ASSUME OutputSide, BridgeLeft \in 1 .. 2
        PROVE  BridgeLeft' \in 0 .. BridgeLeft - 1
    <2>1. RingLeft \in 1 .. 2
      BY <1>1, <1>8
    <2> QED BY <1>2, <1>5, <1>6, <1>8, <2>1, SysShortens
  <1>9. ASSUME LcdSide, BridgeLeft > 2
        PROVE  BridgeLeft' \in 0 .. BridgeLeft - 1
    <2>1. RingLeft > 2 /\ ~sys_ready
      BY <1>1, <1>9
    <2> QED BY <1>2, <1>4, <1>6, <1>9, <2>1, LcdShortens
  <1>10. BridgeLeft' <= BridgeLeft
    <2>1. CASE BridgeLeft > 2
      <3>1. CASE LcdSide
        BY <1>1, <1>9, <2>1, <3>1
      <3>2. CASE OutputSide /\ UNCHANGED lcdVars /\ UNCHANGED consoleVars
        BY <1>1, <1>2, <1>6, <2>1, <3>2, SysKeeps
      <3> QED BY <1>5, <3>1, <3>2
    <2>2. CASE BridgeLeft <= 2
      <3>1. CASE LcdSide /\ UNCHANGED sysVars
        BY <1>1, <1>2, <2>2, <3>1, LcdKeeps
      <3>2. CASE OutputSide
        BY <1>1, <1>2, <1>6, <1>8, <2>2, <3>2, BothKeep
      <3> QED BY <1>4, <3>1, <3>2
    <2> QED BY <1>1, <2>1, <2>2
  <1> QED BY <1>1, <1>6, <1>7, <1>8, <1>9, <1>10

\* A display that is not ready is on its way to be: whatever the order of the
\* edges, the size of the screen and the speed of the line, neither side of
\* the bridge waits for the other in vain, and nothing sends the character
\* or the frame back.  It is ready when nothing is left of either.
THEOREM DisplayOnItsWay ==
  OutputSpec => /\ OnItsWay
                /\ [](display_ready <=> FrameLeft = 0 /\ BridgeLeft = 0)
  <1>1. DelayInv => (display_ready <=> FrameLeft = 0 /\ BridgeLeft = 0)
    BY FrameZero, BridgeZero DEF DelayInv, display_ready
  <1>2. DelayInv /\ [OutputNext]_outputVars => DelayInv'
    BY DelayStep
  <1>3. ASSUME DelayInv, OutputNext
        PROVE  ~reset /\ ~reset' /\ ~display_ready =>
                 /\ FrameLeft' <= FrameLeft
                 /\ BridgeLeft' <= BridgeLeft
                 /\ OutputSide =>
                      /\ FrameLeft > 0 => FrameLeft' < FrameLeft
                      /\ BridgeLeft \in 1 .. 2 => BridgeLeft' < BridgeLeft
                 /\ LcdSide /\ BridgeLeft > 2 => BridgeLeft' < BridgeLeft
    BY <1>3, EdgeShortens
  <1> QED BY <1>1, <1>2, <1>3, DelayInit, PTL DEF OutputSpec, OnItsWay
=============================================================================
