\* Everything the kernel and the real file system may do: metafiles open more
\* than once, failures, too few descriptors, O_TRUNC on open, CREATE of a name
\* that exists.
CONSTANTS
  m1 = m1
  m2 = m2
  d1 = d1
  d2 = d2
  MetaPath = {m1}
  DataPath = {d1, d2}
  HiddenPath = {hid}
  NamePattern <- PlainNames
  Pattern <- PlainPatterns
  Handle = {h1, h2}
  Fd = {f1}
  Inode = {i1, i2}
  MaxSize = 1
  Absent = Absent
  Closed = Closed
  NoInode = NoInode
  Uninit = Uninit
  Sharing = TRUE
  Faults = TRUE
  AtomicTrunc = TRUE
  RacyCreate = TRUE
SPECIFICATION Spec
SYMMETRY Symmetry
INVARIANTS
  HandleNamed
PROPERTIES
  DataDirSpec
