\* A name whose pattern holds a zero byte.
CONSTANTS
  m1 = m1
  m2 = m2
  d1 = d1
  d2 = d2
  MetaPath = {}
  DataPath = {d1, d2}
  HiddenPath = {hid}
  NamePattern <- ZeroNames
  Pattern <- ZeroPatterns
  Handle = {h1}
  Fd = {}
  Inode = {}
  MaxSize = 1
  Absent = Absent
  Closed = Closed
  NoInode = NoInode
  Uninit = Uninit
  Sharing = FALSE
  Faults = FALSE
  AtomicTrunc = FALSE
  RacyCreate = FALSE
SPECIFICATION Spec
INVARIANTS
  PatternSpelled
