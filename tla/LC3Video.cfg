\* The real panel of 480 by 272 and the real framebuffer of 128 by 124, with
\* counters that start in the frame, at its ends and outside.
SPECIFICATION VideoSpec
CONSTANTS
  H_PIXELS = 480
  H_FP = 50
  H_BP = 30
  V_LINES = 272
  V_FP = 20
  V_BP = 5
  FB_WIDTH = 128
  FB_HEIGHT = 124
  X_MARGIN = 112
  Y_MARGIN = 12
  PowerOnPixels = {0, 559, 560, 1023}
  PowerOnLines = {0, 296, 297, 511}
INVARIANTS
  PictureInPlace
  TextInPlace
PROPERTIES
  FrameComesRound
