SPECIFICATION Spec
CONSTANTS
  p1 = p1
  p2 = p2
  p3 = p3
  b1 = b1
  b2 = b2
  b3 = b3
  b4 = b4
  Proc <- MCProc3
  Block <- MCBlock3
  NoBlock = NoBlock
  Val = {0}
  Zero = 0
  MAXOPBLOCKS = 1
  LOGSIZE = 3
  SIZE = 3
  After <- MCAfter
INVARIANT
  OnDiskFits
