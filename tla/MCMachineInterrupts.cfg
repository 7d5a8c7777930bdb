SPECIFICATION FairRunSpec
CONSTANTS
  start_ssp = 12288
  reset_pc = 512
  pennsim_privilege_mode = FALSE
  First <- Choices
  Second <- Spin
  Images <- MCImages
  Mprs <- MCMprs
  Irqs <- TwoSources
  MaxRetired = 9
INVARIANTS
  BusAuthorised
  NestingBounded
PROPERTIES
  PrivilegeOnlyThroughVectors
  ImplementsISA
  ContextRestored
  ReturnsToFetch
