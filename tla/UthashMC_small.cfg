\* Six elements, whose hashes differ in the bits of two expansions: enough for
\* expansion to be given up.
CONSTANTS
  Elem = {e1, e2, e3, e4, e5, e6}
  NULL = NULL
  HashValue = {0, 1, 2, 3}
  InitialLog2 = 0
  Threshold = 3
  MaxLog2 = 3
SPECIFICATION Spec
SYMMETRY Alike
INVARIANTS
  TypeOK
  HASH_FSCK
  FoundIffListed
PROPERTIES
  OrderedSetSpec
