SPECIFICATION FairSpec
CONSTANTS
  r1 = r1
  r2 = r2
  w1 = w1
  w2 = w2
  Reader <- OneReader
  Writer <- TwoWriters
  Free = Free
  Nothing = Nothing
  Killable <- OneReader
  Sizes = {3}
  Byte = {0, 1}
  PIPESIZE = 2
  WORD = 4
INVARIANTS
  NoLostWakeup
  NoUseAfterFree
PROPERTIES
  ImplementsFifo
  ClosedReleases
CHECK_DEADLOCK FALSE
