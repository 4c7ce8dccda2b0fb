\* One open at a time per metafile, a real file system that may fail.
CONSTANTS
  m1 = m1
  m2 = m2
  d1 = d1
  d2 = d2
  MetaPath = {m1, m2}
  DataPath = {d1}
  HiddenPath = {hid}
  NamePattern <- PlainNames
  Pattern <- PlainPatterns
  Handle = {h1, h2}
  Fd = {f1, f2}
  Inode = {i1, i2, i3}
  MaxSize = 1
  Absent = Absent
  Closed = Closed
  NoInode = NoInode
  Uninit = Uninit
  Sharing = FALSE
  Faults = TRUE
  AtomicTrunc = FALSE
  RacyCreate = FALSE
SYMMETRY Symmetry
SPECIFICATION Spec
INVARIANTS
  TypeOK
  HandleServed
  NoFdLeak
  EntryBacked
PROPERTIES
  FlatDirSpec
