SPECIFICATION Spec
CONSTANTS
  r1 = r1
  r2 = r2
  w1 = w1
  w2 = w2
  Reader <- OneReader
  Writer <- TwoWriters
  Free = Free
  Nothing = Nothing
  Killable <- OneWriter
  Sizes = {3}
  Byte = {0}
  PIPESIZE = 2
  WORD = 4
INVARIANT
  NoLostWakeup
CHECK_DEADLOCK FALSE
