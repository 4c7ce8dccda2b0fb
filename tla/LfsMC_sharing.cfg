\* Two opens of one metafile.
CONSTANTS
  m1 = m1
  m2 = m2
  d1 = d1
  d2 = d2
  MetaPath = {m1, m2}
  DataPath = {}
  HiddenPath = {hid}
  NamePattern <- PlainNames
  Pattern <- PlainPatterns
  Handle = {h1, h2}
  Fd = {f1, f2}
  Inode = {i1, i2}
  MaxSize = 1
  Absent = Absent
  Closed = Closed
  NoInode = NoInode
  Uninit = Uninit
  Sharing = TRUE
  Faults = FALSE
  AtomicTrunc = FALSE
  RacyCreate = FALSE
SPECIFICATION Spec
INVARIANTS
  HandleServed
