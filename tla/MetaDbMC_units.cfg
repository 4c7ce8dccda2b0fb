\* Names of other units than gb, restored from a binary database.
CONSTANTS
  Name <- TwoNames
  Formats = {"binary"}
  SwiftFails = FALSE
  ReadErrors = FALSE
  Crashes = FALSE
SPECIFICATION Spec
INVARIANTS
  MetafilesMatch
