\* libswift fails; the text format, as the binary one stores nothing new.
CONSTANTS
  Name <- TwoNames
  Formats = {"text"}
  SwiftFails = TRUE
  ReadErrors = FALSE
  Crashes = FALSE
SPECIFICATION Spec
INVARIANTS
  WholeEntries
