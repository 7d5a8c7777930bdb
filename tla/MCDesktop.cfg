SPECIFICATION DesktopSpec
CONSTANTS
  Names <- MCNames
  Upper <- MCUpper
  Sessions <- MCSessions
INVARIANTS
  PassesAgree
  PanicsOnlyAtTop
  ListingCoversImage
  DecodesAsWritten
  MemoryAccounted
\* A session ends with its last pick, and the application with a panic.
CHECK_DEADLOCK FALSE
