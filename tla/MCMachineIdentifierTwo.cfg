SPECIFICATION Spec
CONSTANTS
  p1 = p1
  p2 = p2
  a = a
  b = b
  c = c
  i1 = i1
  i2 = i2
  i3 = i3
  None = None
  Chunks = 2
  Proc <- TwoProcs
  Id <- Ids
  Inode <- Inodes
  Faults <- NoFaults
SYMMETRY Symmetry
INVARIANT NeverBricked
