SPECIFICATION ProgramsSpec
CONSTANTS
  NPROC = 3
  NCPU = 2
  Chan <- MCChan
  KillPids = {0, 3}
  MaxPid = 4
  q1 = q1
  q2 = q2
SYMMETRY Symmetry
INVARIANTS
  StackInUse
  FilesCounted
  TreeShape
  NamesRight
  ParsesRight
  GrepsRight
PROPERTIES
  ImplementsTree
  OneLost
