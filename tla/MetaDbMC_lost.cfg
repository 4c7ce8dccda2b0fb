\* The binary format, never killed.
CONSTANTS
  Name <- TwoNames
  Formats = {"binary"}
  SwiftFails = FALSE
  ReadErrors = FALSE
  Crashes = FALSE
SPECIFICATION Spec
INVARIANTS
  EntriesKept
