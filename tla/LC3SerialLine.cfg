\* A receiver of 28 clocks per bit, with a sender of the same speed, and the
\* fastest and the slowest that it understands: a sender of 26 clocks per bit
\* ends its stop bit too early, and of one of 30 it reads the last data bit for
\* the stop bit.  The characters hold single bits and runs of bits, neither of
\* them symmetrical.  After the first reset a start bit seems to come, after the
\* second the line rests.
SPECIFICATION FairLineSpec
CONSTANTS
  DELAY_FRAMES = 28
  Codes = {193, 234}
  BitTimes = {27, 28, 29}
  ResetSlots = {5, 7}
  ResetAge = 14
INVARIANTS
  ReceivedAsSent
PROPERTIES
  AllReceived
