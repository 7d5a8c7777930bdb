\* The output side with a screen of three columns and two rows, one letter and
\* the three control characters (BS, LF, CR).  A row takes three clocks to
\* clear, so that the next character comes to the bridge before it is clear,
\* and with one clock per bit a frame of the transmitter may end before or
\* after the display is free again.
SPECIFICATION FairOutputSpec
CONSTANTS
  COLS = 3
  ROWS = 2
  DELAY_FRAMES = 1
  Chars = {65, 8, 10, 13}
INVARIANTS
  ConsoleReady
  BothTakeIt
PROPERTIES
  ImplementsTerminal
  DataStable
  ImplementsPort
  DisplayComesReady
