\* A lookup along with a creation that expands the buckets.
CONSTANTS
  Path = {p1, p2, p3}
  Node = {n1, n2, n3, n4}
  NULL = NULL
  HashValue = {0, 1}
  InitialLog2 = 0
  MaxLog2 = 1
  Lockings = {"tree"}
SPECIFICATION Spec
SYMMETRY Alike
INVARIANTS
  FileAlwaysFound
