SPECIFICATION StorageSpec
CONSTANTS
  p1 = p1
  p2 = p2
  p3 = p3
  b1 = b1
  b2 = b2
  b3 = b3
  b4 = b4
  Proc <- MCProc
  Block <- MCBlock3
  NoBlock = NoBlock
  Val = {0, 1}
  Zero = 0
  MAXOPBLOCKS = 1
  LOGSIZE = 2
  SIZE = 3
  After <- MCAfter
INVARIANTS
  BitmapExact
  TransactionFits
PROPERTIES
  ImplementsAtomicDisk
  Admitted
  ImplementsByteFiles
