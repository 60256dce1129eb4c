SPECIFICATION Spec
CONSTANTS
  p1 = p1
  p2 = p2
  n1 = n1
  n2 = n2
  Proc <- MCProc
  Name <- MCName
  NINODE = 2
  NINODES = 2
  Val = {0, 1}
  Zero = 0
  Nobody = Nobody
  NoSlot = NoSlot
  NoInum = NoInum
  NoName = NoName
INVARIANT
  NoOrphan
CHECK_DEADLOCK FALSE
