SPECIFICATION FairRunSpec
CONSTANTS
  start_ssp = 12288
  reset_pc = 512
  pennsim_privilege_mode = TRUE
  RAM_WORDS = 12800
  CLOCKS_PER_MILLISECOND = 2
  Images <- MCImages
  Keys <- MCKeys
  KEY_GAP = 20
  MaxKeys = 2
  MaxResets = 1
INVARIANTS
  KeysReadOnce
  CharactersDisplayed
  OneInterruptPerKey
  HandlerHasKey
  IntervalAsWritten
PROPERTIES
  KeyAnswered
  KeepsPeriod
  FrozenMachineKeepsMemory
  NoForbiddenWrite
  ProtectionKept
