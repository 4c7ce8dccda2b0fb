\* Reading the database fails, and libswift; the text format, without kills.
CONSTANTS
  Name <- TwoNames
  Formats = {"text"}
  SwiftFails = TRUE
  ReadErrors = TRUE
  Crashes = FALSE
SPECIFICATION Spec
INVARIANTS
  EntriesKept
