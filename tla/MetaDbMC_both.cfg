\* Either format; libswift, reading and writing may fail, and the program be killed.
CONSTANTS
  Name <- TwoNames
  Formats = {"text", "binary"}
  SwiftFails = TRUE
  ReadErrors = TRUE
  Crashes = TRUE
SPECIFICATION Spec
INVARIANTS
  TypeOK
  EntriesKeptUnlessLost
  MbinmapsNotCut
  RestoredOfGb
PROPERTIES
  FilesStored
  DamagedKept
