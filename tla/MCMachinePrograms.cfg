SPECIFICATION RunSpec
CONSTANTS
  start_ssp = 12288
  reset_pc = 512
  pennsim_privilege_mode = TRUE
  First <- Choices
  Second <- Choices
  Images <- MCImages
  Mprs <- MCMprs
  Irqs <- Quiet
  MaxRetired = 10
INVARIANTS
  ReadDataFresh
PROPERTIES
  ImplementsISA
