\* The binary format, killed while it saves.
CONSTANTS
  Name <- TwoNames
  Formats = {"binary"}
  SwiftFails = FALSE
  ReadErrors = FALSE
  Crashes = TRUE
SPECIFICATION Spec
INVARIANTS
  NoneCut
