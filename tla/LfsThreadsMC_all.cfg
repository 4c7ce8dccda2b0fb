\* Each way of locking, with two expansions.  Three names, and a piece of memory
\* to spare for renames.
CONSTANTS
  Path = {p1, p2, p3}
  Node = {n1, n2, n3, n4}
  NULL = NULL
  HashValue = {0, 2, 3, 7}
  InitialLog2 = 1
  MaxLog2 = 3
  Lockings = {"single", "tree", "path"}
SPECIFICATION Spec
SYMMETRY Alike
INVARIANTS
  TypeOK
  FileFound
  FoundRight
  NoFreedAccess
