SPECIFICATION SimulatorSpec
CONSTANTS
  start_ssp = 12288
  reset_pc = 0
  pennsim_privilege_mode = TRUE
  kMemoryWordCount = 16
  Images <- MCImages
  Mprs = {65535}
  Irqs <- MCIrqs
  CycleLimits = {0, 1, 7, 40}
  MaxLoads = 2
  MaxEdges = 40
PROPERTIES
  LoadedAsGiven
  OneMachine
