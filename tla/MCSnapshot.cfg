SPECIFICATION SnapSpec
CONSTANTS
  p1 = p1
  p2 = p2
  a = a
  b = b
  c = c
  i1 = i1
  i2 = i2
  i3 = i3
  None = None
  Chunks = 2
  Proc <- OneProc
  Id <- Ids
  Inode <- Inodes
  Faults <- PowerAndStat
SYMMETRY Symmetry
INVARIANT SnapTypeOK
INVARIANT NeverBricked
INVARIANT Resumable
INVARIANT IssuedIsKept
INVARIANT SnapInv
