SPECIFICATION RunSpec
CONSTANTS
  start_ssp = 12288
  reset_pc = 512
  pennsim_privilege_mode = TRUE
  First <- Spin
  Second <- Spin
  Images <- MCImages
  Mprs <- OsMpr
  Irqs <- KeyboardOnly
  MaxRetired = 11
PROPERTIES
  InterruptsReachHandler
