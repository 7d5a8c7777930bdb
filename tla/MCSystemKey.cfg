SPECIFICATION RunSpec
CONSTANTS
  start_ssp = 12288
  reset_pc = 12288
  pennsim_privilege_mode = TRUE
  RAM_WORDS = 12800
  CLOCKS_PER_MILLISECOND = 4
  Images <- EchoImages
  Keys <- MCKeys
  KEY_GAP = 40
  MaxKeys = 4
  MaxResets = 0
PROPERTIES
  KeyClearedByItsRead
