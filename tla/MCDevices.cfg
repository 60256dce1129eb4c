SPECIFICATION DevicesSpec
CONSTANTS
  p1 = p1
  p2 = p2
  k1 = k1
  k2 = k2
  k3 = k3
  b1 = b1
  b2 = b2
  Proc <- MCProc
  Block <- MCBlock
  Buf <- MCBuf
  Val = {0, 1}
  Zero = 0
  Bad = {}
  Nobody = Nobody
  NoBlock = NoBlock
  NoBuf = NoBuf
INVARIANTS
  NoStuckModifier
  NoSleepOnInput
PROPERTIES
  ImplementsBlockStore
  WaitersServed
  ImplementsTty
