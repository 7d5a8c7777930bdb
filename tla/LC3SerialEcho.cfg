\* The echo probe at 8 clocks per bit, and a sender of the same speed that
\* sends two characters and keeps at most two ahead.
SPECIFICATION FairEchoSpec
CONSTANTS
  DELAY_FRAMES = 8
  Ahead = 2
  Codes = {65, 250}
  BitTimes = {8}
INVARIANTS
  EchoesInOrder
PROPERTIES
  EchoComes
